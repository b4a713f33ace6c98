------------------------------ MODULE RuleBook ------------------------------
(***************************************************************************)
(* The rules of mailrelay: the table rules in SQLite, the in-memory list   *)
(* of enabled rules that the engine matches against and takes signing      *)
(* secrets from (internal/rules/engine.go), the requests of the web        *)
(* interface that edit the table and then reload the engine                *)
(* (internal/webui/handler.go, rules_transfer.go), imports from the        *)
(* command line, and the signed deliveries that wait in the queue while    *)
(* rules change (internal/webhook/queue.go).                               *)
(*                                                                         *)
(* A request is a goroutine of net/http. Each of its store calls is one    *)
(* statement or transaction, hence one action, and between two of them     *)
(* other requests run: an edit reads a row and writes it back in two       *)
(* steps, and a reload reads the table and replaces the engine's list in   *)
(* two steps.                                                              *)
(*                                                                         *)
(* A rule is its name, its switch and its secret. Conditions, target,      *)
(* position and the rest of webhook_config travel with the secret and are  *)
(* left out.                                                               *)
(***************************************************************************)
CONSTANTS
    Requests,    \* requests to edit rules; each happens at most once
    Names,       \* names of rules
    Secrets,     \* signing secrets
    NoSecret,    \* the empty secret: requests are not signed
    Keep,        \* the secret field of a form left blank
    Unsent,      \* no request was sent yet
    Seed,        \* who created the rules that are there at the beginning
    NoRule,      \* an id without a row
    Deliveries,  \* deliveries of the queue
    NoDelivery,  \* a delivery that does not exist yet
    NoRow,       \* a request that is not about to write
    NoListing,   \* a request that is not about to replace the engine's list
    Files,       \* rules files that are imported
    Outcomes     \* what a reload may meet

SecretValues == Secrets \cup {NoSecret}

\* Rules are identified by uuids. A request draws at most one id for each name,
\* so that the pair of both is as good as fresh.
Ids == (Requests \cup {Seed}) \X Names

Rules == [name : Names, enabled : BOOLEAN, secret : SecretValues]

\* What the engine keeps of a rule. The code keeps no id; it is here to compare
\* with the table, and no guard reads it.
Entries == [id : Ids, name : Names, secret : SecretValues]

\* How a reload ended: all rows read; reading stopped early, which
\* ListEnabledRules does not notice; or an error.
ReloadOutcomes == {"whole", "cut", "failed"}

Pending == [id : Ids, rule : Rules, keeps : BOOLEAN]
Listings == [entries : SUBSET Entries, outcome : {"whole", "cut"}]
DeliveryRows ==
    [state : {"matched", "pending", "sent", "failed"}, name : Names,
     signed : BOOLEAN, used : SecretValues \cup {Unsent}]

\* The contents of a rules file that Decode accepts: no name twice.
ImportFiles ==
    UNION {[ns -> [enabled : BOOLEAN, secret : SecretValues]] : ns \in SUBSET Names}

ASSUME RuleBookAssumption ==
    /\ Files \subseteq ImportFiles
    /\ Outcomes \subseteq ReloadOutcomes
    /\ "whole" \in Outcomes
    /\ Seed \notin Requests
    /\ NoSecret \notin Secrets
    /\ Keep \notin SecretValues
    /\ Unsent \notin SecretValues
    /\ NoRule \notin Rules
    /\ NoRow \notin Pending
    /\ NoListing \notin Listings
    /\ NoDelivery \notin DeliveryRows

VARIABLES
    table,       \* table rules: id -> rule
    engine,      \* Engine.rules
    up,          \* the process runs
    pc,          \* per request, its next step
    row,         \* per request, the row it is about to write
    listing,     \* per request, the rules it has read for the engine
    reload,      \* how the latest reload ended (history)
    overlapped,  \* edits have overlapped since the start (history)
    deliveries   \* deliveries of matched rules

vars == <<table, engine, up, pc, row, listing, reload, overlapped, deliveries>>

-----------------------------------------------------------------------------
(* The table and what is read from it *)

Stored(t) == {i \in Ids : t[i] # NoRule}

Named(t, n) == {i \in Stored(t) : t[i].name = n}

\* ListEnabledRules and ToRule.
Enabled(t) ==
    {[id |-> i, name |-> t[i].name, secret |-> t[i].secret] :
        i \in {j \in Stored(t) : t[j].enabled}}

\* What a reload may read. ListEnabledRules ends its loop when rows.Next is
\* false and never asks rows.Err: when the request's context is cancelled or a
\* page cannot be read, it returns the rows so far, and no error.
ReadForEngine(outcome) ==
    CASE outcome = "whole" -> {Enabled(table)}
      [] outcome = "cut" -> SUBSET Enabled(table) \ {Enabled(table)}
      [] outcome = "failed" -> {{}}

\* Faulty variant: without the UNIQUE constraint on the name.
MayUpdate_Unchecked(t, i, n) == TRUE

\* The name is UNIQUE: an update of row i to name n is refused when another row
\* has it. An update of a row that is gone changes nothing and is no error.
MayUpdate(t, i, n) == t[i] # NoRule => Named(t, n) \subseteq {i}

\* Faulty variant: INSERT OR REPLACE instead of UPDATE.
UpdateRule_Upsert(t, i, rule) == [t EXCEPT ![i] = rule]

UpdateRule(t, i, rule) == IF t[i] = NoRule THEN t ELSE [t EXCEPT ![i] = rule]

\* Faulty variants: the form's field as it is; a blank field clears.
ruleSigningSecret_Field(field, existing) == field

ruleSigningSecret_Clear(field, existing) == IF field = Keep THEN NoSecret ELSE field

\* Blank edits preserve the stored secret; clearing is always explicit.
ruleSigningSecret(field, existing) == IF field = Keep THEN existing ELSE field

\* Rules of the file replace the rows of their names and are inserted where
\* there is none; with replace, the table is emptied first.
Base(t, replace) == IF replace THEN [i \in Ids |-> NoRule] ELSE t
Target(t, r, n) == IF Named(t, n) = {} THEN {<<r, n>>} ELSE Named(t, n)
ImportRules(t, r, items, replace) ==
    LET base == Base(t, replace)
        hits(i) == {n \in DOMAIN items : i \in Target(base, r, n)}
    IN  [i \in Ids |->
            IF hits(i) = {} THEN base[i]
            ELSE LET n == CHOOSE n \in hits(i) : TRUE
                 IN  [name |-> n, enabled |-> items[n].enabled, secret |-> items[n].secret]]

-----------------------------------------------------------------------------
(* Requests of the web interface *)

Closed == \A r \in Requests : pc[r] \in {"idle", "done"}

Begin(r) ==
    /\ up
    /\ pc[r] = "idle"
    /\ overlapped' = (overlapped \/ ~ Closed)

Goto(r, step) == pc' = [pc EXCEPT ![r] = step]

\* handleRuleCreate: SaveRule, refused when the name is taken.
Create(r, n, field) ==
    /\ Begin(r)
    /\ Named(table, n) = {}
    /\ table' = [table EXCEPT ![<<r, n>>] =
                    [name |-> n, enabled |-> TRUE,
                     secret |-> ruleSigningSecret(field, NoSecret)]]
    /\ Goto(r, "list")
    /\ UNCHANGED <<engine, up, row, listing, reload, deliveries>>

\* handleRuleUpdate until UpdateRule: the row as it is now, with the name and
\* the secret of the form. The switch is not in the form.
UpdateRead(r, i, n, field) ==
    /\ Begin(r)
    /\ i \in Stored(table)
    /\ row' = [row EXCEPT ![r] =
                  [id |-> i, keeps |-> field = Keep,
                   rule |-> [name |-> n, enabled |-> table[i].enabled,
                             secret |-> ruleSigningSecret(field, table[i].secret)]]]
    /\ Goto(r, "write")
    /\ UNCHANGED <<table, engine, up, listing, reload, deliveries>>

\* handleRuleToggle until UpdateRule.
ToggleRead(r, i) ==
    /\ Begin(r)
    /\ i \in Stored(table)
    /\ row' = [row EXCEPT ![r] =
                  [id |-> i, keeps |-> TRUE,
                   rule |-> [table[i] EXCEPT !.enabled = ~ @]]]
    /\ Goto(r, "write")
    /\ UNCHANGED <<table, engine, up, listing, reload, deliveries>>

\* UpdateRule writes every column of the row.
WriteRow(r) ==
    /\ pc[r] = "write"
    /\ MayUpdate(table, row[r].id, row[r].rule.name)
    /\ table' = UpdateRule(table, row[r].id, row[r].rule)
    /\ row' = [row EXCEPT ![r] = NoRow]
    /\ Goto(r, "list")
    /\ UNCHANGED <<engine, up, listing, reload, overlapped, deliveries>>

\* Faulty variant: the engine is not reloaded.
Delete_NoReload(r, i) ==
    /\ Begin(r)
    /\ table' = [table EXCEPT ![i] = NoRule]
    /\ Goto(r, "done")
    /\ UNCHANGED <<engine, up, row, listing, reload, deliveries>>

\* handleRuleDelete: deleting a row that is gone is no error either.
Delete(r, i) ==
    /\ Begin(r)
    /\ table' = [table EXCEPT ![i] = NoRule]
    /\ Goto(r, "list")
    /\ UNCHANGED <<engine, up, row, listing, reload, deliveries>>

\* handleRulesImport with apply=true.
Import(r, items, replace) ==
    /\ Begin(r)
    /\ table' = ImportRules(table, r, items, replace)
    /\ Goto(r, "list")
    /\ UNCHANGED <<engine, up, row, listing, reload, deliveries>>

\* reloadRules, first half.
ListForEngine(r) ==
    /\ pc[r] = "list"
    /\ \E outcome \in Outcomes \ {"failed"} : \E entries \in ReadForEngine(outcome) :
          listing' = [listing EXCEPT ![r] = [entries |-> entries, outcome |-> outcome]]
    /\ Goto(r, "install")
    /\ UNCHANGED <<table, engine, up, row, reload, overlapped, deliveries>>

\* reloadRules, second half: SetRules. The request is answered.
SetRules(r) ==
    /\ pc[r] = "install"
    /\ engine' = listing[r].entries
    /\ reload' = listing[r].outcome
    /\ listing' = [listing EXCEPT ![r] = NoListing]
    /\ Goto(r, "done")
    /\ UNCHANGED <<table, up, row, overlapped, deliveries>>

\* UpdateRule fails, because another rule has the name or the store fails, or
\* ListEnabledRules reports an error. Nothing is undone; a failed reload is only
\* logged, except by an import.
RequestFails(r) ==
    /\ pc[r] \in {"write", "list"}
    /\ IF pc[r] = "list" THEN "failed" \in Outcomes /\ reload' = "failed"
                         ELSE reload' = reload
    /\ row' = [row EXCEPT ![r] = NoRow]
    /\ Goto(r, "done")
    /\ UNCHANGED <<table, engine, up, listing, overlapped, deliveries>>

-----------------------------------------------------------------------------
(* Deliveries *)

\* Match takes its snapshot of the engine's list; which rules match is open.
\* Enqueue notes whether the rule has a secret, and drops the secret.
Match(d, e) ==
    /\ up
    /\ deliveries[d] = NoDelivery
    /\ deliveries' = [deliveries EXCEPT ![d] =
                         [state |-> "matched", name |-> e.name,
                          signed |-> e.secret # NoSecret, used |-> Unsent]]
    /\ UNCHANGED <<table, engine, up, pc, row, listing, reload, overlapped>>

Enqueue(d) ==
    /\ up
    /\ deliveries[d] # NoDelivery
    /\ deliveries[d].state = "matched"
    /\ deliveries' = [deliveries EXCEPT ![d].state = "pending"]
    /\ UNCHANGED <<table, engine, up, pc, row, listing, reload, overlapped>>

\* Engine.SigningSecret: the secret of the rule of that name, by now.
SigningSecret(n) == {e.secret : e \in {f \in engine : f.name = n}}

\* Faulty variants: an empty secret counts as found; the secret of the first
\* attempt is kept for the others.
resolveSecret_AllowEmpty(d) ==
    IF deliveries[d].signed THEN SigningSecret(deliveries[d].name) ELSE {NoSecret}

resolveSecret_Cached(d) ==
    CASE ~ deliveries[d].signed -> {NoSecret}
      [] deliveries[d].used # Unsent -> {deliveries[d].used}
      [] OTHER -> SigningSecret(deliveries[d].name) \ {NoSecret}

\* The secrets a request may be signed with; none when it must not be sent.
resolveSecret(d) ==
    IF deliveries[d].signed THEN SigningSecret(deliveries[d].name) \ {NoSecret}
    ELSE {NoSecret}

\* One attempt of runQueued: the request is sent, and its answer settles the
\* delivery or asks for a retry.
Attempt(d) ==
    /\ up
    /\ deliveries[d] # NoDelivery
    /\ deliveries[d].state = "pending"
    /\ \E secret \in resolveSecret(d), state \in {"pending", "sent"} :
          deliveries' = [deliveries EXCEPT ![d].used = secret, ![d].state = state]
    /\ UNCHANGED <<table, engine, up, pc, row, listing, reload, overlapped>>

\* "signing secret for rule ... is no longer available", for good.
AttemptFails(d) ==
    /\ up
    /\ deliveries[d] # NoDelivery
    /\ deliveries[d].state = "pending"
    /\ resolveSecret(d) = {}
    /\ deliveries' = [deliveries EXCEPT ![d].state = "failed"]
    /\ UNCHANGED <<table, engine, up, pc, row, listing, reload, overlapped>>

-----------------------------------------------------------------------------
(* The process *)

\* The process ends at any point: open requests and unsaved matches are lost.
Stop ==
    /\ up
    /\ up' = FALSE
    /\ engine' = {}
    /\ pc' = [r \in Requests |-> IF pc[r] = "idle" THEN "idle" ELSE "done"]
    /\ row' = [r \in Requests |-> NoRow]
    /\ listing' = [r \in Requests |-> NoListing]
    /\ deliveries' = [d \in Deliveries |->
                         IF deliveries[d] # NoDelivery /\ deliveries[d].state = "matched"
                         THEN NoDelivery ELSE deliveries[d]]
    /\ UNCHANGED <<table, reload, overlapped>>

\* transferRules: -import-rules while the service is stopped, as documented.
TransferRules(r, items, replace) ==
    /\ ~ up
    /\ pc[r] = "idle"
    /\ table' = ImportRules(table, r, items, replace)
    /\ Goto(r, "done")
    /\ UNCHANGED <<engine, up, row, listing, reload, overlapped, deliveries>>

\* LoadRules at startup: when it fails the service runs with no rules.
Start ==
    /\ ~ up
    /\ up' = TRUE
    /\ \E outcome \in Outcomes :
          /\ reload' = outcome
          /\ engine' \in ReadForEngine(outcome)
    /\ overlapped' = FALSE
    /\ UNCHANGED <<table, pc, row, listing, deliveries>>

-----------------------------------------------------------------------------
\* A running service with rules of earlier edits, at most one of each name.
Init ==
    /\ \E ns \in SUBSET Names : \E f \in [ns -> [enabled : BOOLEAN, secret : SecretValues]] :
          table = [i \in Ids |->
                     IF i[1] = Seed /\ i[2] \in ns
                     THEN [name |-> i[2], enabled |-> f[i[2]].enabled, secret |-> f[i[2]].secret]
                     ELSE NoRule]
    /\ engine = Enabled(table)
    /\ up = TRUE
    /\ pc = [r \in Requests |-> "idle"]
    /\ row = [r \in Requests |-> NoRow]
    /\ listing = [r \in Requests |-> NoListing]
    /\ reload = "whole"
    /\ overlapped = FALSE
    /\ deliveries = [d \in Deliveries |-> NoDelivery]

Edit(r) ==
    \/ \E n \in Names, field \in SecretValues \cup {Keep} :
          \/ Create(r, n, field)
          \/ \E i \in Ids : UpdateRead(r, i, n, field)
    \/ \E i \in Ids : ToggleRead(r, i) \/ Delete(r, i)
    \/ \E items \in Files, replace \in BOOLEAN :
          Import(r, items, replace) \/ TransferRules(r, items, replace)

Reload(r) == ListForEngine(r) \/ SetRules(r)

Deliver(d) == (\E e \in engine : Match(d, e)) \/ Enqueue(d) \/ Attempt(d) \/ AttemptFails(d)

Next ==
    \/ \E r \in Requests : Edit(r) \/ WriteRow(r) \/ Reload(r) \/ RequestFails(r)
    \/ \E d \in Deliveries : Deliver(d)
    \/ Stop
    \/ Start

Spec == Init /\ [][Next]_vars

-----------------------------------------------------------------------------
(* Properties *)

TypeOK ==
    /\ table \in [Ids -> Rules \cup {NoRule}]
    /\ engine \subseteq Entries
    /\ up \in BOOLEAN
    /\ pc \in [Requests -> {"idle", "write", "list", "install", "done"}]
    /\ row \in [Requests -> Pending \cup {NoRow}]
    /\ listing \in [Requests -> Listings \cup {NoListing}]
    /\ reload \in ReloadOutcomes
    /\ overlapped \in BOOLEAN
    /\ deliveries \in [Deliveries -> DeliveryRows \cup {NoDelivery}]

\* A name means one rule, in the table and in the engine, whatever edits overlap:
\* SigningSecret takes the first rule of the name it finds.
OneRulePerName ==
    /\ \A i, j \in Stored(table) : table[i].name = table[j].name => i = j
    /\ \A e, f \in engine : e.name = f.name => e = f

\* A delivery that was signed when it was enqueued is never sent unsigned, and
\* one that was not is never signed, whatever happens to its rule meanwhile
\* (resolveSecret "fails closed").
NeverUnsigned ==
    \A d \in Deliveries :
        deliveries[d] # NoDelivery /\ deliveries[d].used # Unsent =>
            (deliveries[d].signed <=> deliveries[d].used # NoSecret)

\* A row appears only by the request that created its id: an edit or a toggle
\* that read a rule before it was deleted does not bring it back.
DeletedStaysDeleted ==
    [][\A i \in Ids :
         table[i] = NoRule /\ table'[i] # NoRule => i[1] \in Requests /\ pc[i[1]] = "idle"]_vars

\* When every edit has been answered and the latest reload read the whole table,
\* the engine matches with what the table holds (README.md: rules "take effect
\* immediately"), whatever failed before.
EditsTakeEffect ==
    up /\ Closed /\ reload = "whole" => engine = Enabled(table)

\* The same as long as edits do not overlap.
EngineIsCurrent ==
    ~ overlapped => EditsTakeEffect

\* A stored rule gets another secret in this step.
SecretChanges(i) ==
    /\ table[i] # NoRule
    /\ table'[i] # NoRule
    /\ table'[i].secret # table[i].secret

\* This step is taken by a request that entered or cleared a secret, or imports.
SecretIsMeant ==
    \E r \in Requests :
        /\ pc'[r] # pc[r]
        /\ pc[r] = "idle" \/ (pc[r] = "write" /\ ~ row[r].keeps)

\* As long as edits do not overlap secrets change only on purpose: blank edits and
\* toggles keep them (ruleSigningSecret: "Blank edits preserve the stored secret").
SecretsChangeOnPurpose ==
    [][\A i \in Ids : ~ overlapped /\ SecretChanges(i) => SecretIsMeant]_vars

\* An attempt on a signed delivery, when edits have not overlapped, none is open
\* and the engine was fully loaded.
SignedAttempt(d) ==
    /\ ~ overlapped
    /\ Closed
    /\ reload = "whole"
    /\ deliveries[d] # NoDelivery
    /\ deliveries[d].signed
    /\ deliveries[d].state = "pending"
    /\ deliveries'[d] # deliveries[d]

\* A retry is signed with the secret that the rule of its name has in the table
\* now, not with an earlier one ("a rotated secret also applies to deliveries
\* that are still retrying").
RotationReachesRetries ==
    [][\A d \in Deliveries :
         SignedAttempt(d) /\ deliveries'[d].state # "failed" =>
            \E i \in Named(table, deliveries[d].name) :
                table[i].enabled /\ table[i].secret = deliveries'[d].used]_vars
=============================================================================
