------------------------------ MODULE Settings ------------------------------
(***************************************************************************)
(* The settings that can change while mailrelay runs: log level, auth      *)
(* modes, retry policy and retention. A saved form first replaces the      *)
(* configuration in memory, then the row of the settings table, and is     *)
(* then handed to the logger, the SMTP server, the dispatcher and the      *)
(* cleaner, one after the other and under no common lock                   *)
(* (internal/webui/handler.go). At startup the row, if any, overrides the  *)
(* configuration file; the HTTP server already listens while main still    *)
(* passes the retention on (cmd/mailrelay/main.go).                        *)
(*                                                                         *)
(* A configuration is a tag, which stands for log level, auth modes and    *)
(* retry policy, and the retention in days. A form that is not valid       *)
(* changes nothing and is left out.                                        *)
(*                                                                         *)
(* The retention goes through two widths: an int32 on its way to the       *)
(* cleaner, and days * 24 hours as a time.Duration. Both wrap around; they *)
(* are scaled down to Int32Days and MaxDays + 1.                           *)
(***************************************************************************)
EXTENDS Integers

CONSTANTS
    Requests,    \* requests that save a form; each happens at most once
    Configs,     \* configurations that forms, file and environment may hold
    FileConfig,  \* the configuration of file and environment
    Emails,
    NoRow,       \* nothing was saved yet
    NoForm,      \* a request that is not under way
    Gone,        \* an email that was deleted
    Unread,      \* the cleaner waits for its ticker
    MaxDays,     \* the largest number of days that fits a time.Duration
    Int32Days,   \* 2^31
    MaxAge, MaxBoots, MaxFaults   \* bounds

ASSUME SettingsAssumption ==
    /\ \A cfg \in Configs : cfg.days \in Nat
    /\ FileConfig \in Configs
    /\ NoRow \notin Configs /\ NoForm \notin Configs
    /\ Gone \notin Nat
    /\ MaxDays \in Nat /\ Int32Days \in Nat
    /\ MaxDays < Int32Days
    /\ MaxAge \in Nat /\ MaxBoots \in Nat /\ MaxFaults \in Nat

VARIABLES
    up,        \* "down", or how far main has come
    memory,    \* the AppConfig that main and the handler share
    row,       \* table settings
    logLevel, authCfg, retry,   \* what the components run with, as a tag
    retentionDays,              \* the atomic.Int32 in main
    attached,  \* the handler knows retentionDays
    cleaner,   \* the goroutine runCleanup runs
    read,      \* the days of the cleanup in progress
    age,       \* of each email, in days
    pending,   \* emails with unfinished deliveries
    pc, form,  \* of each request: its next step, its form
    saved,     \* configurations that were in force by file or row
    early,     \* forms that came before main passed the retention on
    muddled,   \* saves overlapped, failed or came early since the last clean one
    boots, faults

applied == <<logLevel, authCfg, retry>>
main == <<up, attached, cleaner, boots>>
requests == <<pc, form>>
mail == <<age, pending>>
ghosts == <<saved, early, muddled>>
vars == <<main, memory, row, applied, retentionDays, read, mail, requests, ghosts, faults>>

Started == up \in {"listening", "stored", "attached", "running"}
Active == {r \in Requests : pc[r] \in {"persist", "log", "auth", "retry", "days"}}

\* int32(d).
Int32(d) == ((d + Int32Days) % (2 * Int32Days)) - Int32Days

\* time.Duration(d) * 24 * time.Hour, in days.
RetentionPeriod(d) == ((d + MaxDays + 1) % (2 * (MaxDays + 1))) - (MaxDays + 1)

Init ==
    /\ up = "down" /\ attached = FALSE /\ cleaner = FALSE /\ boots = 0
    /\ memory = FileConfig
    /\ row = NoRow
    /\ logLevel = FileConfig.tag /\ authCfg = FileConfig.tag /\ retry = FileConfig.tag
    /\ retentionDays = 0
    /\ read = Unread
    /\ age = [e \in Emails |-> 0]
    /\ pending = Emails
    /\ pc = [r \in Requests |-> "new"]
    /\ form = [r \in Requests |-> NoForm]
    /\ saved = {FileConfig}
    /\ early = {}
    /\ muddled = FALSE
    /\ faults = 0
-----------------------------------------------------------------------------
\* Faulty variant: applySettings forgets the retry policy.
ApplySettings_NoRetry(cfg) ==
    /\ memory' = cfg
    /\ logLevel' = cfg.tag
    /\ authCfg' = cfg.tag
    /\ retry' = FileConfig.tag

\* applySettings, and the constructors that are given the result.
ApplySettings(cfg) ==
    /\ memory' = cfg
    /\ logLevel' = cfg.tag
    /\ authCfg' = cfg.tag
    /\ retry' = cfg.tag

\* run up to the start of the HTTP server. When the row cannot be read, only a
\* log line tells and the file's configuration is used.
Boot ==
    /\ up = "down"
    /\ boots < MaxBoots
    /\ boots' = boots + 1
    /\ up' = "listening"
    /\ \/ /\ ApplySettings(IF row = NoRow THEN FileConfig ELSE row)
          /\ muddled' = FALSE
          /\ UNCHANGED faults
       \/ /\ faults < MaxFaults
          /\ faults' = faults + 1
          /\ ApplySettings(FileConfig)
          /\ muddled' = TRUE
    /\ UNCHANGED <<attached, cleaner, row, retentionDays, read, mail, requests, saved, early>>

StoreDays ==
    /\ up = "listening"
    /\ up' = "stored"
    /\ retentionDays' = Int32(memory.days)
    /\ UNCHANGED <<attached, cleaner, boots, memory, row, applied, read, mail, requests, ghosts, faults>>

SetRetentionDays ==
    /\ up = "stored"
    /\ up' = "attached"
    /\ attached' = TRUE
    /\ UNCHANGED <<cleaner, boots, memory, row, applied, retentionDays, read, mail, requests, ghosts, faults>>

StartCleaner ==
    /\ up = "attached"
    /\ up' = "running"
    /\ cleaner' = (memory.days > 0)
    /\ UNCHANGED <<attached, boots, memory, row, applied, retentionDays, read, mail, requests, ghosts, faults>>

\* The process ends, with its memory; requests under way are cut off.
Crash ==
    /\ Started
    /\ up' = "down"
    /\ attached' = FALSE /\ cleaner' = FALSE
    /\ read' = Unread
    /\ ApplySettings(FileConfig)
    /\ retentionDays' = 0
    /\ pc' = [r \in Requests |-> IF r \in Active THEN "ended" ELSE pc[r]]
    /\ form' = [r \in Requests |-> NoForm]
    /\ UNCHANGED <<boots, row, mail, ghosts, faults>>
-----------------------------------------------------------------------------
Goto(r, step) == pc' = [pc EXCEPT ![r] = step]

\* handleSettingsSave, up to the unlocking of cfgMu.
SaveMemory(r, cfg) ==
    /\ Started
    /\ pc[r] = "new"
    /\ memory' = cfg
    /\ form' = [form EXCEPT ![r] = cfg]
    /\ Goto(r, "persist")
    /\ muddled' = (Active # {} \/ up # "running")
    /\ early' = IF up = "listening" THEN early \cup {cfg} ELSE early
    /\ UNCHANGED <<main, row, applied, retentionDays, read, mail, saved, faults>>

\* SaveSettings.
Persist(r) ==
    /\ pc[r] = "persist"
    /\ row' = form[r]
    /\ saved' = saved \cup {form[r]}
    /\ Goto(r, "log")
    /\ UNCHANGED <<main, memory, applied, retentionDays, read, mail, form, early, muddled, faults>>

\* Faulty variant: the error is reported, but the request goes on.
PersistFails_GoesOn(r) ==
    /\ pc[r] = "persist"
    /\ faults < MaxFaults
    /\ faults' = faults + 1
    /\ muddled' = TRUE
    /\ Goto(r, "log")
    /\ UNCHANGED <<main, memory, row, applied, retentionDays, read, mail, form, saved, early>>

\* SaveSettings fails: "Failed to save settings." The form stays in memory.
PersistFails(r) ==
    /\ pc[r] = "persist"
    /\ faults < MaxFaults
    /\ faults' = faults + 1
    /\ muddled' = TRUE
    /\ Goto(r, "ended")
    /\ form' = [form EXCEPT ![r] = NoForm]
    /\ UNCHANGED <<main, memory, row, applied, retentionDays, read, mail, saved, early>>

ApplyLog(r) ==
    /\ pc[r] = "log"
    /\ logLevel' = form[r].tag
    /\ Goto(r, "auth")
    /\ UNCHANGED <<main, memory, row, authCfg, retry, retentionDays, read, mail, form, ghosts, faults>>

ApplyAuth(r) ==
    /\ pc[r] = "auth"
    /\ authCfg' = form[r].tag
    /\ Goto(r, "retry")
    /\ UNCHANGED <<main, memory, row, logLevel, retry, retentionDays, read, mail, form, ghosts, faults>>

ApplyRetry(r) ==
    /\ pc[r] = "retry"
    /\ retry' = form[r].tag
    /\ Goto(r, "days")
    /\ UNCHANGED <<main, memory, row, logLevel, authCfg, retentionDays, read, mail, form, ghosts, faults>>

\* The retention is passed on unless main has not attached it yet.
ApplyDays(r) ==
    /\ pc[r] = "days"
    /\ retentionDays' = IF attached THEN Int32(form[r].days) ELSE retentionDays
    /\ Goto(r, "ended")
    /\ form' = [form EXCEPT ![r] = NoForm]
    /\ UNCHANGED <<main, memory, row, applied, read, mail, ghosts, faults>>
-----------------------------------------------------------------------------
\* The ticker of runCleanup fires and the retention is read.
Tick ==
    /\ cleaner
    /\ read = Unread
    /\ read' = retentionDays
    /\ UNCHANGED <<main, memory, row, applied, retentionDays, mail, requests, ghosts, faults>>

\* Faulty variant: zero days are not taken for "keep forever".
Expired_Zero(days) ==
    {e \in Emails \ pending : age[e] # Gone /\ age[e] > RetentionPeriod(days)}

\* Faulty variant: the comparison with the cutoff is turned round.
Expired_Younger(days) ==
    {e \in Emails \ pending : days > 0 /\ age[e] # Gone /\ age[e] < RetentionPeriod(days)}

\* The emails that CleanupExpired deletes.
Expired(days) ==
    {e \in Emails \ pending : days > 0 /\ age[e] # Gone /\ age[e] > RetentionPeriod(days)}

\* cleanupOnce. (Raw files are in MailIntake.)
Cleanup ==
    /\ read # Unread
    /\ read' = Unread
    /\ age' = [e \in Emails |-> IF e \in Expired(read) THEN Gone ELSE age[e]]
    /\ UNCHANGED <<main, memory, row, applied, retentionDays, pending, requests, ghosts, faults>>

\* The deletion fails and is left to the next hour.
CleanupFails ==
    /\ read # Unread
    /\ faults < MaxFaults
    /\ faults' = faults + 1
    /\ read' = Unread
    /\ UNCHANGED <<main, memory, row, applied, retentionDays, mail, requests, ghosts>>

\* A day passes.
Day ==
    /\ \E e \in Emails : age[e] # Gone /\ age[e] < MaxAge
    /\ age' = [e \in Emails |-> IF age[e] # Gone /\ age[e] < MaxAge THEN age[e] + 1 ELSE age[e]]
    /\ UNCHANGED <<main, memory, row, applied, retentionDays, read, pending, requests, ghosts, faults>>

\* The last delivery of an email finishes.
Settle(e) ==
    /\ e \in pending
    /\ pending' = pending \ {e}
    /\ UNCHANGED <<main, memory, row, applied, retentionDays, read, age, requests, ghosts, faults>>

Save(r) ==
    \/ \E cfg \in Configs : SaveMemory(r, cfg)
    \/ Persist(r) \/ PersistFails(r)
    \/ ApplyLog(r) \/ ApplyAuth(r) \/ ApplyRetry(r) \/ ApplyDays(r)

Startup == StoreDays \/ SetRetentionDays \/ StartCleaner

Next ==
    \/ Boot \/ Startup \/ Crash
    \/ \E r \in Requests : Save(r)
    \/ Tick \/ Cleanup \/ CleanupFails
    \/ Day \/ \E e \in Emails : Settle(e)

Spec == Init /\ [][Next]_vars

\* The scheduler runs main and the cleaner, and days pass.
FairSpec ==
    /\ Spec
    /\ WF_vars(Startup)
    /\ WF_vars(Tick)
    /\ WF_vars(Cleanup \/ CleanupFails)
    /\ WF_vars(Day)
-----------------------------------------------------------------------------
\* When no save is under way, and since the last start or the last save no save
\* has overlapped, failed or come during startup, the page, the row and every
\* component agree: such a save or a restart also ends what overlapping saves left
\* behind.
CleanSaveSettlesAll ==
    (up = "running" /\ Active = {} /\ ~muddled) =>
        /\ memory = IF row = NoRow THEN FileConfig ELSE row
        /\ {logLevel, authCfg, retry} = {memory.tag}
        /\ retentionDays = Int32(memory.days)

\* Logger, SMTP server and dispatcher never run with values that were not stored, so
\* that "Failed to save settings." means that they go on as before. The same holds of
\* the cleaner's retention, but for one window: main takes it from memory after the
\* HTTP server has started, and then it may be that of a form whose save still fails.
NothingUnsavedInForce ==
    /\ \A tag \in {logLevel, authCfg, retry} : \E cfg \in saved : cfg.tag = tag
    /\ up \in {"stored", "attached", "running"} =>
         \E cfg \in saved \cup early : retentionDays = Int32(cfg.days)

\* An email is deleted only when its deliveries are finished and it is older than
\* a retention that was stored, other than 0, which keeps emails for ever. A form
\* that comes before main passes the retention on may reach the cleaner without being
\* stored, and more days than fit a time.Duration delete anything.
RetentionHonoured ==
    [][\A e \in Emails : age[e] # Gone /\ age'[e] = Gone =>
          /\ e \notin pending
          /\ \E cfg \in saved \cup early :
               cfg.days > 0 /\ (cfg.days <= MaxDays => age[e] > cfg.days)]_vars

\* While the cleaner runs with a retention that fits, emails do not stay for ever,
\* also when a cleanup fails.
ExpiredAreDeleted ==
    \A e \in Emails :
        <>[](up = "running" /\ cleaner /\ retentionDays \in 1..MaxDays /\ e \notin pending)
            => <>(age[e] = Gone)
=============================================================================
