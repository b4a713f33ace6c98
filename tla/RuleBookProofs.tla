--------------------------- MODULE RuleBookProofs ---------------------------
(***************************************************************************)
(* Proofs about RuleBook: what holds however edits overlap (types, unique  *)
(* names, deleted rules stay deleted, no signed delivery is sent           *)
(* unsigned), and what holds as long as edits do not overlap (the engine   *)
(* is current, secrets change on purpose, rotation reaches retries).       *)
(***************************************************************************)
EXTENDS RuleBook, TLAPS

\* A request about to write holds a row, one about to install holds a listing.
StepsHaveData ==
    \A r \in Requests :
        /\ pc[r] = "write" => row[r] # NoRow
        /\ pc[r] = "install" => listing[r] # NoListing

TypeInv == TypeOK /\ StepsHaveData

\* The steps of requests and deliveries, as one list of cases.
Step ==
    \/ \E r \in Requests, n \in Names, field \in SecretValues \cup {Keep} : Create(r, n, field)
    \/ \E r \in Requests, i \in Ids, n \in Names, field \in SecretValues \cup {Keep} :
          UpdateRead(r, i, n, field)
    \/ \E r \in Requests, i \in Ids : ToggleRead(r, i)
    \/ \E r \in Requests, i \in Ids : Delete(r, i)
    \/ \E r \in Requests, items \in Files, replace \in BOOLEAN : Import(r, items, replace)
    \/ \E r \in Requests, items \in Files, replace \in BOOLEAN : TransferRules(r, items, replace)
    \/ \E r \in Requests : WriteRow(r)
    \/ \E r \in Requests : ListForEngine(r)
    \/ \E r \in Requests : SetRules(r)
    \/ \E r \in Requests : RequestFails(r)
    \/ \E d \in Deliveries : \E e \in engine : Match(d, e)
    \/ \E d \in Deliveries : Enqueue(d)
    \/ \E d \in Deliveries : Attempt(d)
    \/ \E d \in Deliveries : AttemptFails(d)
    \/ Stop
    \/ Start

\* Next is this list.
LEMMA NextIsStep == Next => Step
BY DEF Next, Step, Edit, Reload, Deliver

Tables == [Ids -> Rules \cup {NoRule}]

\* Whatever a listing of a well-typed table returns is well typed.
LEMMA EnabledType ==
    ASSUME NEW t \in Tables
    PROVE  Enabled(t) \subseteq Entries
<1>1. SUFFICES ASSUME NEW i \in Stored(t)
               PROVE  [id |-> i, name |-> t[i].name, secret |-> t[i].secret] \in Entries
    BY DEF Enabled
<1>2. i \in Ids /\ t[i] \in Rules
    BY DEF Stored, Tables
<1>3. t[i].name \in Names /\ t[i].secret \in SecretValues
    BY <1>2 DEF Rules
<1> QED BY <1>2, <1>3 DEF Entries

\* The row an import leaves at an id: a rule of the file, or what was there.
LEMMA ImportedRow ==
    ASSUME NEW t \in Tables, NEW r \in Requests, NEW items \in ImportFiles,
           NEW replace \in BOOLEAN, NEW i \in Ids
    PROVE  \/ /\ ImportRules(t, r, items, replace)[i] = Base(t, replace)[i]
              /\ \A n \in DOMAIN items : i \notin Target(Base(t, replace), r, n)
           \/ \E n \in DOMAIN items :
                /\ i \in Target(Base(t, replace), r, n)
                /\ ImportRules(t, r, items, replace)[i] =
                     [name |-> n, enabled |-> items[n].enabled, secret |-> items[n].secret]
<1> DEFINE base == Base(t, replace)
           new == ImportRules(t, r, items, replace)
           hits == {n \in DOMAIN items : i \in Target(base, r, n)}
<1>1. new[i] = IF hits = {} THEN base[i]
               ELSE LET n == CHOOSE n \in hits : TRUE
                    IN  [name |-> n, enabled |-> items[n].enabled, secret |-> items[n].secret]
    BY DEF ImportRules
<1>2. CASE hits = {}
    BY <1>1, <1>2
<1>3. CASE hits # {}
    <2> DEFINE n == CHOOSE n \in hits : TRUE
    <2>1. n \in hits
        BY <1>3
    <2>2. new[i] = [name |-> n, enabled |-> items[n].enabled, secret |-> items[n].secret]
        BY <1>1, <1>3
    <2> QED BY <2>1, <2>2
<1> QED BY <1>2, <1>3

\* A file is a function from some names to a switch and a secret.
LEMMA FileItems ==
    ASSUME NEW items \in ImportFiles
    PROVE  /\ DOMAIN items \subseteq Names
           /\ \A n \in DOMAIN items :
                items[n].enabled \in BOOLEAN /\ items[n].secret \in SecretValues
<1>1. PICK ns \in SUBSET Names : items \in [ns -> [enabled : BOOLEAN, secret : SecretValues]]
    BY DEF ImportFiles
<1> QED BY <1>1

\* An import leaves a well-typed table.
LEMMA ImportType ==
    ASSUME NEW t \in Tables, NEW r \in Requests, NEW items \in ImportFiles,
           NEW replace \in BOOLEAN
    PROVE  ImportRules(t, r, items, replace) \in Tables
<1> DEFINE new == ImportRules(t, r, items, replace)
<1>1. ASSUME NEW i \in Ids PROVE new[i] \in Rules \cup {NoRule}
    <2>1. Base(t, replace)[i] \in Rules \cup {NoRule}
        BY DEF Base, Tables
    <2>2. ASSUME NEW n \in DOMAIN items
          PROVE  [name |-> n, enabled |-> items[n].enabled, secret |-> items[n].secret] \in Rules
        BY FileItems DEF Rules
    <2>3. \/ new[i] = Base(t, replace)[i]
          \/ \E n \in DOMAIN items :
                new[i] = [name |-> n, enabled |-> items[n].enabled, secret |-> items[n].secret]
        BY ImportedRow
    <2> QED BY <2>1, <2>2, <2>3
<1>2. new = [i \in Ids |-> new[i]]
    BY DEF ImportRules
<1> QED BY <1>1, <1>2 DEF Tables

-----------------------------------------------------------------------------
(* Types *)

\* What a reload reads is well typed.
LEMMA ReadType ==
    ASSUME table \in Tables, NEW outcome \in ReloadOutcomes,
           NEW entries \in ReadForEngine(outcome)
    PROVE  entries \subseteq Entries
BY EnabledType DEF ReadForEngine, ReloadOutcomes

\* The secrets a request may be signed with are secrets.
LEMMA ResolveType ==
    ASSUME TypeOK, NEW d \in Deliveries, NEW s \in resolveSecret(d)
    PROVE  s \in SecretValues
BY DEF TypeOK, resolveSecret, SigningSecret, Entries, SecretValues

\* A row with its name and form is well typed.
LEMMA FormType ==
    ASSUME NEW field \in SecretValues \cup {Keep}, NEW s \in SecretValues
    PROVE  ruleSigningSecret(field, s) \in SecretValues
BY DEF ruleSigningSecret

\* The initial state is well typed.
LEMMA InitType == Init => TypeInv
<1> SUFFICES ASSUME Init PROVE TypeInv
    OBVIOUS
<1>1. PICK ns \in SUBSET Names :
        \E f \in [ns -> [enabled : BOOLEAN, secret : SecretValues]] :
          table = [i \in Ids |->
                     IF i[1] = Seed /\ i[2] \in ns
                     THEN [name |-> i[2], enabled |-> f[i[2]].enabled, secret |-> f[i[2]].secret]
                     ELSE NoRule]
    BY DEF Init
<1>2. PICK f \in [ns -> [enabled : BOOLEAN, secret : SecretValues]] :
          table = [i \in Ids |->
                     IF i[1] = Seed /\ i[2] \in ns
                     THEN [name |-> i[2], enabled |-> f[i[2]].enabled, secret |-> f[i[2]].secret]
                     ELSE NoRule]
    BY <1>1
<1>3. table \in Tables
    BY <1>2 DEF Tables, Rules
<1>4. engine \subseteq Entries
    BY <1>3, EnabledType DEF Init
<1> QED BY <1>3, <1>4 DEF Init, TypeInv, TypeOK, Tables, StepsHaveData, ReloadOutcomes

\* Every step keeps the types.
LEMMA NextType == TypeInv /\ [Next]_vars => TypeInv'
<1> SUFFICES ASSUME TypeInv, [Next]_vars PROVE TypeInv'
    OBVIOUS
<1> USE DEF TypeInv
<1>t. table \in Tables
    BY DEF TypeOK, Tables
<1>1. ASSUME NEW r \in Requests, NEW n \in Names, NEW field \in SecretValues \cup {Keep},
             Create(r, n, field)
      PROVE  TypeInv'
    <2>1. [name |-> n, enabled |-> TRUE, secret |-> ruleSigningSecret(field, NoSecret)] \in Rules
        BY FormType DEF Rules, SecretValues
    <2>2. table' \in [Ids -> Rules \cup {NoRule}]
        BY <1>1, <2>1 DEF Create, TypeOK
    <2> QED BY <1>1, <2>2 DEF Create, Begin, TypeOK, StepsHaveData, Goto
<1>2. ASSUME NEW r \in Requests, NEW i \in Ids, NEW n \in Names,
             NEW field \in SecretValues \cup {Keep}, UpdateRead(r, i, n, field)
      PROVE  TypeInv'
    <2>1. table[i] \in Rules
        BY <1>2 DEF UpdateRead, Stored, TypeOK
    <2>2. [name |-> n, enabled |-> table[i].enabled,
           secret |-> ruleSigningSecret(field, table[i].secret)] \in Rules
        BY <2>1, FormType DEF Rules
    <2>3. row'[r] \in Pending
        BY <1>2, <2>2 DEF UpdateRead, Pending, TypeOK
    <2>4. row' \in [Requests -> Pending \cup {NoRow}]
        BY <1>2, <2>3 DEF UpdateRead, TypeOK
    <2> QED BY <1>2, <2>3, <2>4, RuleBookAssumption DEF UpdateRead, Begin, TypeOK, StepsHaveData, Goto
<1>3. ASSUME NEW r \in Requests, NEW i \in Ids, ToggleRead(r, i)
      PROVE  TypeInv'
    <2>1. table[i] \in Rules
        BY <1>3 DEF ToggleRead, Stored, TypeOK
    <2>2. [table[i] EXCEPT !.enabled = ~ @] \in Rules
        BY <2>1 DEF Rules
    <2>3. row'[r] \in Pending
        BY <1>3, <2>2 DEF ToggleRead, Pending, TypeOK
    <2>4. row' \in [Requests -> Pending \cup {NoRow}]
        BY <1>3, <2>3 DEF ToggleRead, TypeOK
    <2> QED BY <1>3, <2>3, <2>4, RuleBookAssumption DEF ToggleRead, Begin, TypeOK, StepsHaveData, Goto
<1>4. ASSUME NEW r \in Requests, NEW i \in Ids, Delete(r, i)
      PROVE  TypeInv'
    BY <1>4 DEF Delete, Begin, TypeOK, StepsHaveData, Goto
<1>5. ASSUME NEW r \in Requests, NEW items \in Files, NEW replace \in BOOLEAN,
             Import(r, items, replace)
      PROVE  TypeInv'
    <2>1. table' \in [Ids -> Rules \cup {NoRule}]
        BY <1>5, <1>t, ImportType, RuleBookAssumption DEF Import, Tables
    <2> QED BY <1>5, <2>1 DEF Import, Begin, TypeOK, StepsHaveData, Goto
<1>6. ASSUME NEW r \in Requests, NEW items \in Files, NEW replace \in BOOLEAN,
             TransferRules(r, items, replace)
      PROVE  TypeInv'
    <2>1. table' \in [Ids -> Rules \cup {NoRule}]
        BY <1>6, <1>t, ImportType, RuleBookAssumption DEF TransferRules, Tables
    <2> QED BY <1>6, <2>1 DEF TransferRules, TypeOK, StepsHaveData, Goto
<1>7. ASSUME NEW r \in Requests, WriteRow(r)
      PROVE  TypeInv'
    <2>1. row[r] \in Pending
        BY <1>7 DEF WriteRow, TypeOK, StepsHaveData
    <2>2. table' \in [Ids -> Rules \cup {NoRule}]
        BY <1>7, <2>1 DEF WriteRow, UpdateRule, Pending, TypeOK
    <2> QED BY <1>7, <2>2 DEF WriteRow, TypeOK, StepsHaveData, Goto
<1>8. ASSUME NEW r \in Requests, ListForEngine(r)
      PROVE  TypeInv'
    <2>1. PICK outcome \in Outcomes \ {"failed"} : \E entries \in ReadForEngine(outcome) :
            listing' = [listing EXCEPT ![r] = [entries |-> entries, outcome |-> outcome]]
        BY <1>8 DEF ListForEngine
    <2>2. PICK entries \in ReadForEngine(outcome) :
            listing' = [listing EXCEPT ![r] = [entries |-> entries, outcome |-> outcome]]
        BY <2>1
    <2>3. outcome \in {"whole", "cut"} /\ outcome \in ReloadOutcomes
        BY RuleBookAssumption DEF ReloadOutcomes
    <2>4. [entries |-> entries, outcome |-> outcome] \in Listings
        BY <1>t, <2>3, ReadType DEF Listings
    <2>5. listing' \in [Requests -> Listings \cup {NoListing}] /\ listing'[r] \in Listings
        BY <2>2, <2>4 DEF TypeOK
    <2> QED BY <1>8, <2>5, RuleBookAssumption DEF ListForEngine, TypeOK, StepsHaveData, Goto
<1>9. ASSUME NEW r \in Requests, SetRules(r)
      PROVE  TypeInv'
    <2>1. listing[r] \in Listings
        BY <1>9 DEF SetRules, TypeOK, StepsHaveData
    <2>2. engine' \subseteq Entries /\ reload' \in ReloadOutcomes
        BY <1>9, <2>1 DEF SetRules, Listings, ReloadOutcomes
    <2> QED BY <1>9, <2>2 DEF SetRules, TypeOK, StepsHaveData, Goto
<1>10. ASSUME NEW r \in Requests, RequestFails(r)
       PROVE  TypeInv'
    <2>1. reload' \in ReloadOutcomes
        BY <1>10 DEF RequestFails, TypeOK, ReloadOutcomes
    <2> QED BY <1>10, <2>1 DEF RequestFails, TypeOK, StepsHaveData, Goto
<1>11. ASSUME NEW d \in Deliveries, NEW e \in engine, Match(d, e)
       PROVE  TypeInv'
    <2>1. e \in Entries
        BY DEF TypeOK
    <2>2. [state |-> "matched", name |-> e.name,
           signed |-> e.secret # NoSecret, used |-> Unsent] \in DeliveryRows
        BY <2>1 DEF Entries, DeliveryRows
    <2> QED BY <1>11, <2>2 DEF Match, TypeOK, StepsHaveData
<1>12. ASSUME NEW d \in Deliveries, Enqueue(d)
       PROVE  TypeInv'
    <2>1. [deliveries[d] EXCEPT !.state = "pending"] \in DeliveryRows
        BY <1>12 DEF Enqueue, TypeOK, DeliveryRows
    <2>2. deliveries' = [deliveries EXCEPT ![d] = [deliveries[d] EXCEPT !.state = "pending"]]
        BY <1>12 DEF Enqueue, TypeOK
    <2> QED BY <1>12, <2>1, <2>2 DEF Enqueue, TypeOK, StepsHaveData
<1>13. ASSUME NEW d \in Deliveries, Attempt(d)
       PROVE  TypeInv'
    <2>1. PICK secret \in resolveSecret(d), state \in {"pending", "sent"} :
            deliveries' = [deliveries EXCEPT ![d].used = secret, ![d].state = state]
        BY <1>13 DEF Attempt
    <2>2. secret \in SecretValues
        BY ResolveType
    <2>3. [deliveries[d] EXCEPT !.used = secret, !.state = state] \in DeliveryRows
        BY <1>13, <2>2 DEF Attempt, TypeOK, DeliveryRows
    <2>4. deliveries' = [deliveries EXCEPT ![d] =
                           [deliveries[d] EXCEPT !.used = secret, !.state = state]]
        BY <2>1 DEF TypeOK
    <2> QED BY <1>13, <2>3, <2>4 DEF Attempt, TypeOK, StepsHaveData
<1>14. ASSUME NEW d \in Deliveries, AttemptFails(d)
       PROVE  TypeInv'
    <2>1. [deliveries[d] EXCEPT !.state = "failed"] \in DeliveryRows
        BY <1>14 DEF AttemptFails, TypeOK, DeliveryRows
    <2>2. deliveries' = [deliveries EXCEPT ![d] = [deliveries[d] EXCEPT !.state = "failed"]]
        BY <1>14 DEF AttemptFails, TypeOK
    <2> QED BY <1>14, <2>1, <2>2 DEF AttemptFails, TypeOK, StepsHaveData
<1>15. CASE Stop
    BY <1>15 DEF Stop, TypeOK, StepsHaveData
<1>16. CASE Start
    <2>1. PICK outcome \in Outcomes : reload' = outcome /\ engine' \in ReadForEngine(outcome)
        BY <1>16 DEF Start
    <2>2. outcome \in ReloadOutcomes
        BY RuleBookAssumption
    <2>3. engine' \subseteq Entries
        BY <1>t, <2>1, <2>2, ReadType
    <2> QED BY <1>16, <2>1, <2>2, <2>3 DEF Start, TypeOK, StepsHaveData
<1>17. CASE UNCHANGED vars
    BY <1>17 DEF vars, TypeOK, StepsHaveData
<1> QED BY <1>1, <1>2, <1>3, <1>4, <1>5, <1>6, <1>7, <1>8, <1>9, <1>10, <1>11, <1>12,
           <1>13, <1>14, <1>15, <1>16, <1>17, NextIsStep DEF Step

\* The types hold in every reachable state.
LEMMA TypeInvHolds == Spec => []TypeInv
<1> QED BY InitType, NextType, PTL DEF Spec

\* The table, the engine's list, the requests and the deliveries are well typed
\* for every number of requests, names, secrets and deliveries.
THEOREM RuleTypesCorrect == Spec => []TypeOK
<1>1. TypeInv => TypeOK
    BY DEF TypeInv
<1> QED BY <1>1, TypeInvHolds, PTL

-----------------------------------------------------------------------------
(* However edits overlap *)

\* At most one row of each name.
Distinct(t) == \A i, j \in Stored(t) : t[i].name = t[j].name => i = j

\* At most one entry of each name.
Unambiguous(entries) == \A e, f \in entries : e.name = f.name => e = f

\* OneRulePerName, also of the lists that have been read and not yet installed.
NamesInv ==
    /\ Distinct(table)
    /\ Unambiguous(engine)
    /\ \A r \in Requests : listing[r] # NoListing => Unambiguous(listing[r].entries)

\* What a reload reads names every rule once.
LEMMA ReadUnambiguous ==
    ASSUME Distinct(table), NEW outcome \in ReloadOutcomes,
           NEW entries \in ReadForEngine(outcome)
    PROVE  Unambiguous(entries)
<1>1. Unambiguous(Enabled(table))
    BY DEF Enabled, Unambiguous, Distinct
<1>2. entries \subseteq Enabled(table)
    BY DEF ReadForEngine, ReloadOutcomes
<1> QED BY <1>1, <1>2 DEF Unambiguous

\* An update that the UNIQUE constraint lets through keeps names distinct.
LEMMA UpdateDistinct ==
    ASSUME NEW t \in Tables, Distinct(t), NEW i \in Ids, NEW rule \in Rules,
           MayUpdate(t, i, rule.name)
    PROVE  Distinct(UpdateRule(t, i, rule))
<1>1. CASE t[i] = NoRule
    BY <1>1 DEF UpdateRule
<1>2. CASE t[i] # NoRule
    <2> DEFINE new == [t EXCEPT ![i] = rule]
    <2>1. UpdateRule(t, i, rule) = new
        BY <1>2 DEF UpdateRule
    <2>2. Named(t, rule.name) \subseteq {i}
        BY <1>2 DEF MayUpdate
    <2>3. \A j \in Ids : j # i => new[j] = t[j]
        BY DEF Tables
    <2>4. new[i] = rule
        BY DEF Tables
    <2>5. \A j \in Stored(t) : t[j].name = rule.name => j = i
        BY <2>2 DEF Named
    <2>6. \A j \in Stored(new) : j # i => j \in Stored(t)
        BY <2>3 DEF Stored
    <2>7. SUFFICES ASSUME NEW j \in Stored(new), NEW k \in Stored(new), new[j].name = new[k].name
                   PROVE  j = k
        BY <2>1 DEF Distinct
    <2>8. j \in Ids /\ k \in Ids
        BY DEF Stored
    <2> QED BY <2>3, <2>4, <2>5, <2>6, <2>7, <2>8 DEF Distinct
<1> QED BY <1>1, <1>2

\* An import keeps names distinct: a name of the file has one target, and a row
\* that the file does not touch has a name that is not in the file.
LEMMA ImportDistinct ==
    ASSUME NEW t \in Tables, Distinct(t), NEW r \in Requests, NEW items \in ImportFiles,
           NEW replace \in BOOLEAN
    PROVE  Distinct(ImportRules(t, r, items, replace))
<1> DEFINE base == Base(t, replace)
           new == ImportRules(t, r, items, replace)
<1>1. Distinct(base)
    BY DEF Distinct, Base, Stored
<1>2. \A i \in Ids :
        \/ /\ new[i] = base[i]
           /\ \A n \in DOMAIN items : i \notin Target(base, r, n)
        \/ \E n \in DOMAIN items : i \in Target(base, r, n) /\ new[i].name = n
    <2> SUFFICES ASSUME NEW i \in Ids
                 PROVE  \/ /\ new[i] = base[i]
                           /\ \A n \in DOMAIN items : i \notin Target(base, r, n)
                        \/ \E n \in DOMAIN items : i \in Target(base, r, n) /\ new[i].name = n
        OBVIOUS
    <2>1. \/ /\ new[i] = base[i]
             /\ \A n \in DOMAIN items : i \notin Target(base, r, n)
          \/ \E n \in DOMAIN items :
                /\ i \in Target(base, r, n)
                /\ new[i] = [name |-> n, enabled |-> items[n].enabled, secret |-> items[n].secret]
        BY ImportedRow
    <2>2. ASSUME NEW n \in DOMAIN items, i \in Target(base, r, n),
                 new[i] = [name |-> n, enabled |-> items[n].enabled, secret |-> items[n].secret]
          PROVE  new[i].name = n
        <3> HIDE DEF base, new
        <3> QED BY <2>2
    <2> HIDE DEF base, new
    <2> QED BY <2>1, <2>2
<1>3. \A n \in DOMAIN items : \A i, j \in Target(base, r, n) : i = j
    BY <1>1 DEF Target, Named, Distinct
<1>4. \A i \in Stored(base) : i \in Target(base, r, base[i].name)
    BY DEF Target, Named
<1> HIDE DEF base, new
<1>5. SUFFICES ASSUME NEW i \in Stored(new), NEW j \in Stored(new), new[i].name = new[j].name
               PROVE  i = j
    BY DEF Distinct, new
<1>6. i \in Ids /\ j \in Ids /\ new[i] # NoRule /\ new[j] # NoRule
    BY DEF Stored
<1>7. CASE \E n \in DOMAIN items : i \in Target(base, r, n) /\ new[i].name = n
    <2>1. new[i].name \in DOMAIN items /\ i \in Target(base, r, new[i].name)
        BY <1>7
    <2>2. CASE new[j] = base[j] /\ \A n \in DOMAIN items : j \notin Target(base, r, n)
        <3>1. j \in Stored(base)
            BY <1>6, <2>2 DEF Stored
        <3> QED BY <1>4, <1>5, <2>1, <2>2, <3>1
    <2>3. CASE \E n \in DOMAIN items : j \in Target(base, r, n) /\ new[j].name = n
        BY <1>3, <1>5, <2>1, <2>3
    <2> QED BY <1>2, <1>6, <2>2, <2>3
<1>8. CASE new[i] = base[i] /\ \A n \in DOMAIN items : i \notin Target(base, r, n)
    <2>1. i \in Stored(base)
        BY <1>6, <1>8 DEF Stored
    <2>2. CASE new[j] = base[j]
        <3>1. j \in Stored(base)
            BY <1>6, <2>2 DEF Stored
        <3> QED BY <1>1, <1>5, <1>8, <2>1, <2>2, <3>1 DEF Distinct
    <2>3. CASE \E n \in DOMAIN items : j \in Target(base, r, n) /\ new[j].name = n
        BY <1>4, <1>5, <1>8, <2>1, <2>3
    <2> QED BY <1>2, <1>6, <2>2, <2>3
<1> QED BY <1>2, <1>6, <1>7, <1>8

\* Every step keeps names distinct.
LEMMA NextNames == TypeInv /\ NamesInv /\ [Next]_vars => NamesInv'
<1> SUFFICES ASSUME TypeInv, NamesInv, [Next]_vars PROVE NamesInv'
    OBVIOUS
<1>t. table \in Tables
    BY DEF TypeInv, TypeOK, Tables
<1>1. ASSUME NEW r \in Requests, NEW n \in Names, NEW field \in SecretValues \cup {Keep},
             Create(r, n, field)
      PROVE  NamesInv'
    <2>1. <<r, n>> \in Ids
        BY DEF Ids
    <2>2. Distinct(table')
        BY <1>1, <1>t, <2>1 DEF Create, Named, Stored, Distinct, NamesInv, Tables
    <2> QED BY <1>1, <2>2 DEF Create, NamesInv, Unambiguous
<1>2. ASSUME NEW r \in Requests, NEW i \in Ids, Delete(r, i)
      PROVE  NamesInv'
    <2>1. Distinct(table')
        BY <1>2, <1>t DEF Delete, Stored, Distinct, NamesInv, Tables
    <2> QED BY <1>2, <2>1 DEF Delete, NamesInv, Unambiguous
<1>3. ASSUME NEW r \in Requests, NEW items \in Files, NEW replace \in BOOLEAN,
             Import(r, items, replace) \/ TransferRules(r, items, replace)
      PROVE  NamesInv'
    <2>1. Distinct(table')
        BY <1>3, <1>t, ImportDistinct, RuleBookAssumption DEF Import, TransferRules, NamesInv
    <2> QED BY <1>3, <2>1 DEF Import, TransferRules, NamesInv, Unambiguous
<1>4. ASSUME NEW r \in Requests, WriteRow(r)
      PROVE  NamesInv'
    <2>1. row[r].id \in Ids /\ row[r].rule \in Rules
        BY <1>4 DEF WriteRow, TypeInv, TypeOK, StepsHaveData, Pending
    <2>2. Distinct(table')
        BY <1>4, <1>t, <2>1, UpdateDistinct DEF WriteRow, NamesInv
    <2> QED BY <1>4, <2>2 DEF WriteRow, NamesInv, Unambiguous
<1>5. ASSUME NEW r \in Requests, ListForEngine(r)
      PROVE  NamesInv'
    <2>1. PICK outcome \in Outcomes \ {"failed"} : \E entries \in ReadForEngine(outcome) :
            listing' = [listing EXCEPT ![r] = [entries |-> entries, outcome |-> outcome]]
        BY <1>5 DEF ListForEngine
    <2>2. PICK entries \in ReadForEngine(outcome) :
            listing' = [listing EXCEPT ![r] = [entries |-> entries, outcome |-> outcome]]
        BY <2>1
    <2>3. Unambiguous(entries)
        BY RuleBookAssumption, ReadUnambiguous DEF NamesInv
    <2>4. listing'[r].entries = entries
        BY <2>2 DEF TypeInv, TypeOK
    <2>5. \A q \in Requests : q # r => listing'[q] = listing[q]
        BY <2>2 DEF TypeInv, TypeOK
    <2>6. \A q \in Requests : listing'[q] # NoListing => Unambiguous(listing'[q].entries)
        BY <2>3, <2>4, <2>5 DEF NamesInv
    <2> QED BY <1>5, <2>6 DEF ListForEngine, NamesInv, Unambiguous
<1>6. ASSUME NEW r \in Requests, SetRules(r)
      PROVE  NamesInv'
    <2>1. Unambiguous(engine')
        BY <1>6 DEF SetRules, NamesInv, TypeInv, StepsHaveData
    <2>2. \A q \in Requests : listing'[q] # NoListing => Unambiguous(listing'[q].entries)
        BY <1>6 DEF SetRules, NamesInv, TypeInv, TypeOK
    <2> QED BY <1>6, <2>1, <2>2 DEF SetRules, NamesInv, Unambiguous
<1>7. CASE Stop
    BY <1>7 DEF Stop, NamesInv, Unambiguous
<1>8. CASE Start
    <2>1. PICK outcome \in Outcomes : reload' = outcome /\ engine' \in ReadForEngine(outcome)
        BY <1>8 DEF Start
    <2>2. Unambiguous(engine')
        BY <2>1, RuleBookAssumption, ReadUnambiguous DEF NamesInv
    <2> QED BY <1>8, <2>2 DEF Start, NamesInv, Unambiguous
<1>9. CASE UNCHANGED <<table, engine, listing>>
    BY <1>9 DEF NamesInv, Unambiguous
<1>10. ASSUME Step, ~ Stop, ~ Start,
              \A r \in Requests : ~ (WriteRow(r) \/ ListForEngine(r) \/ SetRules(r)),
              \A r \in Requests, n \in Names, field \in SecretValues \cup {Keep} :
                 ~ Create(r, n, field),
              \A r \in Requests, i \in Ids : ~ Delete(r, i),
              \A r \in Requests, items \in Files, replace \in BOOLEAN :
                 ~ (Import(r, items, replace) \/ TransferRules(r, items, replace))
       PROVE  UNCHANGED <<table, engine, listing>>
    BY <1>10 DEF Step, UpdateRead, ToggleRead, RequestFails, Match, Enqueue, Attempt, AttemptFails
<1> QED BY <1>1, <1>2, <1>3, <1>4, <1>5, <1>6, <1>7, <1>8, <1>9, <1>10, NextIsStep DEF vars

\* The rules that are there at the beginning have distinct names.
LEMMA InitNames == Init => NamesInv
<1> SUFFICES ASSUME Init PROVE NamesInv
    OBVIOUS
<1>1. Distinct(table)
    BY DEF Init, Distinct, Stored, Ids
<1>2. Unambiguous(engine)
    BY <1>1, ReadUnambiguous DEF Init, ReadForEngine, ReloadOutcomes
<1> QED BY <1>1, <1>2 DEF Init, NamesInv

\* A name means one rule, in the table and in the engine, however edits overlap.
THEOREM NamesStayUnique == Spec => []OneRulePerName
<1>1. NamesInv => OneRulePerName
    BY DEF NamesInv, OneRulePerName, Distinct, Unambiguous
<1> QED BY <1>1, InitNames, NextNames, TypeInvHolds, PTL DEF Spec

\* A delivery that was signed when enqueued is never sent unsigned, however its
\* rule is edited, renamed, disabled, deleted or reloaded meanwhile.
THEOREM SignedStaysSigned == Spec => []NeverUnsigned
<1>1. Init => NeverUnsigned
    BY DEF Init, NeverUnsigned
<1>2. TypeInv /\ NeverUnsigned /\ [Next]_vars => NeverUnsigned'
    <2> SUFFICES ASSUME TypeInv, NeverUnsigned, [Next]_vars PROVE NeverUnsigned'
        OBVIOUS
    <2>1. ASSUME NEW d \in Deliveries, NEW e \in engine, Match(d, e)
          PROVE  NeverUnsigned'
        BY <2>1 DEF Match, NeverUnsigned, TypeInv, TypeOK
    <2>2. ASSUME NEW d \in Deliveries, Enqueue(d) \/ AttemptFails(d)
          PROVE  NeverUnsigned'
        BY <2>2 DEF Enqueue, AttemptFails, NeverUnsigned, TypeInv, TypeOK, DeliveryRows
    <2>3. ASSUME NEW d \in Deliveries, Attempt(d)
          PROVE  NeverUnsigned'
        <3>1. PICK secret \in resolveSecret(d), state \in {"pending", "sent"} :
                deliveries' = [deliveries EXCEPT ![d].used = secret, ![d].state = state]
            BY <2>3 DEF Attempt
        <3>2. deliveries[d] \in DeliveryRows
            BY <2>3 DEF Attempt, TypeInv, TypeOK
        <3>3. deliveries[d].signed <=> secret # NoSecret
            BY <3>2 DEF resolveSecret, DeliveryRows
        <3>4. deliveries'[d].used = secret /\ deliveries'[d].signed = deliveries[d].signed
            BY <3>1, <3>2 DEF TypeInv, TypeOK, DeliveryRows
        <3>5. \A c \in Deliveries : c # d => deliveries'[c] = deliveries[c]
            BY <3>1 DEF TypeInv, TypeOK
        <3> QED BY <3>3, <3>4, <3>5 DEF NeverUnsigned
    <2>4. CASE Stop
        BY <2>4 DEF Stop, NeverUnsigned
    <2>5. CASE UNCHANGED deliveries
        BY <2>5 DEF NeverUnsigned
    <2>6. ASSUME Step, ~ Stop,
                 \A d \in Deliveries : ~ (Enqueue(d) \/ AttemptFails(d) \/ Attempt(d)),
                 \A d \in Deliveries : \A e \in engine : ~ Match(d, e)
          PROVE  UNCHANGED deliveries
        BY <2>6 DEF Step, Create, UpdateRead, ToggleRead, Delete, Import, TransferRules,
                    WriteRow, ListForEngine, SetRules, RequestFails, Start
    <2> QED BY <2>1, <2>2, <2>3, <2>4, <2>5, <2>6, NextIsStep DEF vars
<1> QED BY <1>1, <1>2, TypeInvHolds, PTL DEF Spec

\* A rule that was deleted does not come back through an edit or a toggle that
\* had read it before: a row appears only by the request that drew its id.
THEOREM RulesStayDeleted == Spec => DeletedStaysDeleted
<1> DEFINE Created(i) == i[1] \in Requests /\ pc[i[1]] = "idle"
           Appears(i) == table[i] = NoRule /\ table'[i] # NoRule
<1>1. TypeInv /\ [Next]_vars => [\A i \in Ids : Appears(i) => Created(i)]_vars
    <2> SUFFICES ASSUME TypeInv, [Next]_vars, NEW i \in Ids, Appears(i) PROVE Created(i)
        OBVIOUS
    <2>t. table \in Tables
        BY DEF TypeInv, TypeOK, Tables
    <2>1. ASSUME NEW r \in Requests, NEW n \in Names, NEW field \in SecretValues \cup {Keep},
                 Create(r, n, field)
          PROVE  Created(i)
        <3>1. i = <<r, n>>
            BY <2>1, <2>t DEF Create, Tables
        <3> QED BY <2>1, <3>1 DEF Create, Begin
    <2>2. ASSUME NEW r \in Requests, NEW items \in Files, NEW replace \in BOOLEAN,
                 Import(r, items, replace) \/ TransferRules(r, items, replace)
          PROVE  Created(i)
        <3>1. table' = ImportRules(table, r, items, replace) /\ pc[r] = "idle"
            BY <2>2 DEF Import, TransferRules, Begin
        <3>2. Base(table, replace)[i] = NoRule
            BY DEF Base
        <3>3. PICK n \in DOMAIN items : i \in Target(Base(table, replace), r, n)
            BY <2>t, <3>1, <3>2, ImportedRow, RuleBookAssumption
        <3>4. i = <<r, n>>
            BY <3>2, <3>3 DEF Target, Named, Stored
        <3> QED BY <3>1, <3>4
    <2>3. ASSUME NEW r \in Requests, NEW j \in Ids, Delete(r, j)
          PROVE  FALSE
        BY <2>3, <2>t DEF Delete, Tables
    <2>4. ASSUME NEW r \in Requests, WriteRow(r)
          PROVE  FALSE
        BY <2>4, <2>t DEF WriteRow, UpdateRule, Tables
    <2>5. ASSUME Step,
                 \A r \in Requests, n \in Names, field \in SecretValues \cup {Keep} :
                    ~ Create(r, n, field),
                 \A r \in Requests, items \in Files, replace \in BOOLEAN :
                    ~ (Import(r, items, replace) \/ TransferRules(r, items, replace)),
                 \A r \in Requests, j \in Ids : ~ Delete(r, j),
                 \A r \in Requests : ~ WriteRow(r)
          PROVE  UNCHANGED table
        BY <2>5 DEF Step, UpdateRead, ToggleRead, ListForEngine, SetRules, RequestFails,
                    Match, Enqueue, Attempt, AttemptFails, Stop, Start
    <2>6. ~ UNCHANGED table
        OBVIOUS
    <2> QED BY <2>1, <2>2, <2>3, <2>4, <2>5, <2>6, NextIsStep DEF vars
<1> QED BY <1>1, TypeInvHolds, PTL DEF Spec, DeletedStaysDeleted

-----------------------------------------------------------------------------
(* As long as edits do not overlap *)

Open(r) == pc[r] \notin {"idle", "done"}

\* Without overlap, what a request has read is still so when it uses it, and the
\* engine lags behind the table only while a request is about to reload.
SerialParts ==
    /\ \A r, q \in Requests : Open(r) /\ Open(q) => r = q
    /\ \A r \in Requests :
         pc[r] = "write" /\ row[r].keeps /\ table[row[r].id] # NoRule =>
            row[r].rule.secret = table[row[r].id].secret
    /\ \A r \in Requests :
         pc[r] = "install" /\ listing[r].outcome = "whole" => listing[r].entries = Enabled(table)
    /\ up /\ reload = "whole" /\ (\A r \in Requests : pc[r] \notin {"list", "install"}) =>
         engine = Enabled(table)

\* No request survives the process.
DownIsClosed == ~ up => Closed

SerialInv == DownIsClosed /\ (~ overlapped => SerialParts)

\* The initial state satisfies the invariant.
LEMMA InitSerial == Init => SerialInv
BY DEF Init, SerialInv, DownIsClosed, SerialParts, Open, Closed

\* Every step keeps requests within the life of the process.
LEMMA NextDown ==
    ASSUME TypeInv, DownIsClosed, [Next]_vars
    PROVE  DownIsClosed'
<1>1. ASSUME NEW r \in Requests,
             WriteRow(r) \/ ListForEngine(r) \/ SetRules(r) \/ RequestFails(r)
      PROVE  up'
    BY <1>1 DEF WriteRow, ListForEngine, SetRules, RequestFails, DownIsClosed, Closed
<1>2. ASSUME NEW r \in Requests, NEW items \in Files, NEW replace \in BOOLEAN,
             TransferRules(r, items, replace)
      PROVE  DownIsClosed'
    BY <1>2 DEF TransferRules, Goto, DownIsClosed, Closed, TypeInv, TypeOK
<1>3. CASE Stop
    BY <1>3 DEF Stop, DownIsClosed, Closed
<1>4. CASE Start
    BY <1>4 DEF Start, DownIsClosed
<1>5. CASE UNCHANGED <<up, pc>>
    BY <1>5 DEF DownIsClosed, Closed
<1>6. ASSUME NEW r \in Requests, Begin(r), UNCHANGED up
      PROVE  up'
    BY <1>6 DEF Begin
<1>8. ASSUME Step, ~ Stop, ~ Start,
             \A r \in Requests :
                ~ (WriteRow(r) \/ ListForEngine(r) \/ SetRules(r) \/ RequestFails(r)),
             \A r \in Requests, items \in Files, replace \in BOOLEAN :
                ~ TransferRules(r, items, replace)
      PROVE  (\E r \in Requests : Begin(r) /\ UNCHANGED up) \/ UNCHANGED <<up, pc>>
    BY <1>8 DEF Step, Create, UpdateRead, ToggleRead, Delete, Import, Match, Enqueue,
                Attempt, AttemptFails
<1>7. up' => DownIsClosed'
    BY DEF DownIsClosed
<1> QED BY <1>1, <1>2, <1>3, <1>4, <1>5, <1>6, <1>7, <1>8, NextIsStep DEF vars

\* An edit that begins alone and changes the table leaves only itself open.
LEMMA BeginsAlone ==
    ASSUME TypeInv, SerialParts, NEW r \in Requests, Begin(r), ~ overlapped', Goto(r, "list"),
           UNCHANGED <<up, engine, reload>>
    PROVE  SerialParts'
<1>1. \A q \in Requests : q # r => pc'[q] \in {"idle", "done"}
    BY DEF Begin, Closed, Goto, TypeInv, TypeOK
<1>2. pc'[r] = "list" /\ up'
    BY DEF Begin, Goto, TypeInv, TypeOK
<1> QED BY <1>1, <1>2 DEF SerialParts, Open, Closed

\* A request that begins alone with reading a row.
LEMMA ReadsAlone ==
    ASSUME TypeInv, SerialParts, NEW r \in Requests, Begin(r), ~ overlapped', Goto(r, "write"),
           UNCHANGED <<table, up, engine, reload>>,
           row'[r].keeps => row'[r].rule.secret = table[row'[r].id].secret
    PROVE  SerialParts'
<1>1. \A q \in Requests : pc[q] \in {"idle", "done"}
    BY DEF Begin, Closed
<1>2. \A q \in Requests : q # r => pc'[q] \in {"idle", "done"}
    BY <1>1 DEF Goto, TypeInv, TypeOK
<1>3. pc'[r] = "write" /\ up'
    BY DEF Begin, Goto, TypeInv, TypeOK
<1>4. reload' = "whole" => engine' = Enabled(table')
    BY <1>1, <1>3 DEF SerialParts
<1> QED BY <1>2, <1>3, <1>4 DEF SerialParts, Open, Closed

\* Every step without overlap keeps the invariant.
LEMMA NextSerial ==
    ASSUME TypeInv, SerialInv, [Next]_vars
    PROVE  SerialInv'
<1>down. DownIsClosed /\ DownIsClosed'
    BY NextDown DEF SerialInv
<1> SUFFICES ASSUME ~ overlapped' PROVE SerialParts'
    BY <1>down DEF SerialInv
<1>0. ~ Start => ~ overlapped /\ SerialParts
    <2>1. ASSUME Step, ~ Start PROVE ~ overlapped
        BY <2>1 DEF Step, Begin, Create, UpdateRead, ToggleRead, Delete, Import, TransferRules,
                    WriteRow, ListForEngine, SetRules, RequestFails, Match, Enqueue, Attempt,
                    AttemptFails, Stop
    <2> QED BY <2>1, NextIsStep DEF vars, SerialInv
<1>start. CASE Start
    <2>1. reload' = "whole" => engine' = Enabled(table')
        BY <1>start DEF Start, ReadForEngine
    <2>2. \A q \in Requests : pc'[q] \in {"idle", "done"}
        BY <1>start, <1>down DEF Start, DownIsClosed, Closed
    <2> QED BY <2>1, <2>2 DEF SerialParts, Open, Closed
<1> SUFFICES ASSUME ~ Start, SerialParts PROVE SerialParts'
    BY <1>0, <1>start
<1>1. ASSUME NEW r \in Requests, NEW n \in Names, NEW field \in SecretValues \cup {Keep},
             Create(r, n, field)
      PROVE  SerialParts'
    BY <1>1, BeginsAlone DEF Create
<1>2. ASSUME NEW r \in Requests, NEW i \in Ids, Delete(r, i)
      PROVE  SerialParts'
    BY <1>2, BeginsAlone DEF Delete
<1>3. ASSUME NEW r \in Requests, NEW items \in Files, NEW replace \in BOOLEAN,
             Import(r, items, replace)
      PROVE  SerialParts'
    BY <1>3, BeginsAlone DEF Import
<1>4. ASSUME NEW r \in Requests, NEW items \in Files, NEW replace \in BOOLEAN,
             TransferRules(r, items, replace)
      PROVE  SerialParts'
    <2>1. \A q \in Requests : pc'[q] \in {"idle", "done"}
        BY <1>4, <1>down DEF TransferRules, Goto, DownIsClosed, Closed, TypeInv, TypeOK
    <2> QED BY <1>4, <2>1 DEF TransferRules, SerialParts, Open, Closed
<1>5. ASSUME NEW r \in Requests, NEW i \in Ids, NEW n \in Names,
             NEW field \in SecretValues \cup {Keep}, UpdateRead(r, i, n, field)
      PROVE  SerialParts'
    <2>1. row'[r].keeps => row'[r].rule.secret = table[row'[r].id].secret
        BY <1>5 DEF UpdateRead, ruleSigningSecret, TypeInv, TypeOK
    <2> QED BY <1>5, <2>1, ReadsAlone DEF UpdateRead
<1>6. ASSUME NEW r \in Requests, NEW i \in Ids, ToggleRead(r, i)
      PROVE  SerialParts'
    <2>1. table[i] \in Rules
        BY <1>6 DEF ToggleRead, Stored, TypeInv, TypeOK
    <2>2. row'[r].rule = [table[i] EXCEPT !.enabled = ~ @] /\ row'[r].id = i
        BY <1>6 DEF ToggleRead, TypeInv, TypeOK
    <2>3. row'[r].rule.secret = table[row'[r].id].secret
        BY <2>1, <2>2 DEF Rules
    <2> QED BY <1>6, <2>3, ReadsAlone DEF ToggleRead
<1>7. ASSUME NEW r \in Requests, WriteRow(r)
      PROVE  SerialParts'
    <2>1. \A q \in Requests : q # r => pc'[q] = pc[q] /\ pc[q] \in {"idle", "done"}
        BY <1>7 DEF WriteRow, Goto, SerialParts, Open, TypeInv, TypeOK
    <2>2. pc'[r] = "list" /\ up'
        BY <1>7, <1>down DEF WriteRow, Goto, DownIsClosed, Closed, TypeInv, TypeOK
    <2> QED BY <1>7, <2>1, <2>2 DEF SerialParts, Open, Closed
<1>8. ASSUME NEW r \in Requests, ListForEngine(r)
      PROVE  SerialParts'
    <2>1. \A q \in Requests : q # r => pc'[q] = pc[q] /\ pc[q] \in {"idle", "done"}
        BY <1>8 DEF ListForEngine, Goto, SerialParts, Open, TypeInv, TypeOK
    <2>2. pc'[r] = "install" /\ up'
        BY <1>8, <1>down DEF ListForEngine, Goto, DownIsClosed, Closed, TypeInv, TypeOK
    <2>3. listing'[r].outcome = "whole" => listing'[r].entries = Enabled(table)
        BY <1>8 DEF ListForEngine, ReadForEngine, TypeInv, TypeOK
    <2>4. table' = table
        BY <1>8 DEF ListForEngine
    <2> QED BY <2>1, <2>2, <2>3, <2>4 DEF SerialParts, Open, Closed
<1>9. ASSUME NEW r \in Requests, SetRules(r)
      PROVE  SerialParts'
    <2>1. \A q \in Requests : pc'[q] \in {"idle", "done"}
        BY <1>9 DEF SetRules, Goto, SerialParts, Open, TypeInv, TypeOK
    <2>2. reload' = "whole" => engine' = Enabled(table')
        BY <1>9 DEF SetRules, SerialParts
    <2> QED BY <2>1, <2>2 DEF SerialParts, Open, Closed
<1>10. ASSUME NEW r \in Requests, RequestFails(r)
       PROVE  SerialParts'
    <2>1. \A q \in Requests : q # r => pc[q] \in {"idle", "done"}
        BY <1>10 DEF RequestFails, SerialParts, Open
    <2>2. \A q \in Requests : pc'[q] \in {"idle", "done"}
        BY <1>10, <2>1 DEF RequestFails, Goto, TypeInv, TypeOK
    <2>3. up' /\ reload' = "whole" => engine' = Enabled(table')
        BY <1>10, <2>1 DEF RequestFails, SerialParts
    <2> QED BY <2>2, <2>3 DEF SerialParts, Open, Closed
<1>11. CASE Stop
    BY <1>11 DEF Stop, SerialParts, Open, Closed, TypeInv, TypeOK
<1>13. CASE UNCHANGED <<table, engine, up, pc, row, listing, reload>>
    BY <1>13 DEF SerialParts, Open, Closed
<1>14. ASSUME NEW d \in Deliveries,
              (\E e \in engine : Match(d, e)) \/ Enqueue(d) \/ Attempt(d) \/ AttemptFails(d)
       PROVE  UNCHANGED <<table, engine, up, pc, row, listing, reload>>
    BY <1>14 DEF Match, Enqueue, Attempt, AttemptFails
<1> QED BY <1>1, <1>2, <1>3, <1>4, <1>5, <1>6, <1>7, <1>8, <1>9, <1>10, <1>11, <1>13,
           <1>14, NextIsStep DEF Step, vars

\* The invariant holds in every reachable state.
LEMMA SerialInvHolds == Spec => []SerialInv
<1>1. TypeInv /\ SerialInv /\ [Next]_vars => SerialInv'
    BY NextSerial
<1> QED BY <1>1, InitSerial, TypeInvHolds, PTL DEF Spec

\* As long as edits do not overlap, an engine whose latest reload read everything
\* holds exactly the enabled rules of the table, also after edits that failed
\* half way, earlier failed reloads, and restarts.
THEOREM EngineFollowsTable == Spec => []EngineIsCurrent
<1>1. SerialInv => EngineIsCurrent
    BY DEF SerialInv, SerialParts, EngineIsCurrent, EditsTakeEffect, Closed
<1> QED BY <1>1, SerialInvHolds, PTL

\* As long as edits do not overlap, blank edits and toggles keep the secret: a
\* step changes it only for a request that entered or cleared one, or an import.
THEOREM SecretsKept == Spec => SecretsChangeOnPurpose
<1>1. TypeInv /\ SerialInv /\ [Next]_vars =>
        [\A i \in Ids : ~ overlapped /\ SecretChanges(i) => SecretIsMeant]_vars
    <2> SUFFICES ASSUME TypeInv, SerialInv, [Next]_vars, NEW i \in Ids, ~ overlapped,
                        SecretChanges(i)
                 PROVE  SecretIsMeant
        OBVIOUS
    <2>1. ASSUME NEW r \in Requests, Begin(r) \/ pc[r] = "idle",
                 Goto(r, "list") \/ Goto(r, "done")
          PROVE  SecretIsMeant
        BY <2>1 DEF Begin, Goto, SecretIsMeant, TypeInv, TypeOK
    <2>2. ASSUME NEW r \in Requests, WriteRow(r)
          PROVE  SecretIsMeant
        <3>1. i = row[r].id /\ table'[i] = row[r].rule
            BY <2>2 DEF WriteRow, UpdateRule, SecretChanges, TypeInv, TypeOK
        <3>2. ~ row[r].keeps
            BY <2>2, <3>1 DEF WriteRow, SecretChanges, SerialInv, SerialParts
        <3>3. pc[r] = "write" /\ pc'[r] = "list"
            BY <2>2 DEF WriteRow, Goto, TypeInv, TypeOK
        <3> QED BY <3>2, <3>3 DEF SecretIsMeant
    <2>3. ASSUME Step,
                 \A r \in Requests : ~ WriteRow(r),
                 \A r \in Requests : ~ ((Begin(r) \/ pc[r] = "idle")
                                         /\ (Goto(r, "list") \/ Goto(r, "done")))
          PROVE  UNCHANGED table
        BY <2>3 DEF Step, Create, Delete, Import, TransferRules, UpdateRead, ToggleRead,
                    ListForEngine, SetRules, RequestFails, Match, Enqueue, Attempt,
                    AttemptFails, Stop, Start
    <2>4. ~ UNCHANGED table
        BY DEF SecretChanges
    <2> QED BY <2>1, <2>2, <2>3, <2>4, NextIsStep DEF vars
<1> QED BY <1>1, TypeInvHolds, SerialInvHolds, PTL DEF Spec, SecretsChangeOnPurpose

\* As long as edits do not overlap, an attempt made while none is open is signed
\* with the secret that the enabled rule of that name has in the table now.
THEOREM RotationApplies == Spec => RotationReachesRetries
<1> DEFINE Sent(d) == SignedAttempt(d) /\ deliveries'[d].state # "failed"
           Signed(d) == \E i \in Named(table, deliveries[d].name) :
                           table[i].enabled /\ table[i].secret = deliveries'[d].used
<1>1. TypeInv /\ SerialInv /\ [Next]_vars => [\A d \in Deliveries : Sent(d) => Signed(d)]_vars
    <2> SUFFICES ASSUME TypeInv, SerialInv, [Next]_vars, NEW d \in Deliveries, Sent(d)
                 PROVE  Signed(d)
        OBVIOUS
    <2>d. deliveries[d] \in DeliveryRows /\ deliveries[d].state = "pending"
          /\ deliveries'[d] # deliveries[d] /\ deliveries[d].signed
        BY DEF SignedAttempt, TypeInv, TypeOK
    <2>1. CASE Attempt(d)
        <3>1. engine = Enabled(table)
            BY <2>1 DEF Attempt, SignedAttempt, Closed, SerialInv, SerialParts
        <3>2. PICK secret \in resolveSecret(d), state \in {"pending", "sent"} :
                deliveries' = [deliveries EXCEPT ![d].used = secret, ![d].state = state]
            BY <2>1 DEF Attempt
        <3>3. deliveries'[d].used = secret
            BY <2>d, <3>2 DEF TypeInv, TypeOK, DeliveryRows
        <3>4. PICK e \in engine : e.name = deliveries[d].name /\ e.secret = secret
            BY <2>d DEF resolveSecret, SigningSecret
        <3>5. PICK i \in Stored(table) :
                table[i].enabled /\ table[i].name = e.name /\ table[i].secret = e.secret
            BY <3>1, <3>4 DEF Enabled
        <3> QED BY <3>3, <3>4, <3>5 DEF Named
    <2>2. ASSUME NEW c \in Deliveries, NEW e \in engine, Match(c, e)
          PROVE  FALSE
        BY <2>2, <2>d, RuleBookAssumption DEF Match, TypeInv, TypeOK
    <2>3. ASSUME NEW c \in Deliveries, Enqueue(c)
          PROVE  FALSE
        BY <2>3, <2>d DEF Enqueue, TypeInv, TypeOK
    <2>4. ASSUME NEW c \in Deliveries, AttemptFails(c)
          PROVE  FALSE
        <3>1. c = d
            BY <2>4, <2>d DEF AttemptFails, TypeInv, TypeOK
        <3>2. deliveries'[d].state = "failed"
            BY <2>4, <2>d, <3>1 DEF AttemptFails, TypeInv, TypeOK, DeliveryRows
        <3> QED BY <3>2
    <2>5. ASSUME NEW c \in Deliveries, Attempt(c), c # d
          PROVE  FALSE
        BY <2>5, <2>d DEF Attempt, TypeInv, TypeOK
    <2>6. CASE Stop
        BY <2>6, <2>d DEF Stop
    <2>7. ASSUME Step, ~ Stop,
                 \A c \in Deliveries : ~ (Enqueue(c) \/ AttemptFails(c) \/ Attempt(c)),
                 \A c \in Deliveries : \A e \in engine : ~ Match(c, e)
          PROVE  UNCHANGED deliveries
        BY <2>7 DEF Step, Create, UpdateRead, ToggleRead, Delete, Import, TransferRules,
                    WriteRow, ListForEngine, SetRules, RequestFails, Start
    <2> QED BY <2>1, <2>2, <2>3, <2>4, <2>5, <2>6, <2>7, <2>d, NextIsStep DEF vars
<1> QED BY <1>1, TypeInvHolds, SerialInvHolds, PTL DEF Spec, RotationReachesRetries
=============================================================================
