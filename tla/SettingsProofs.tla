--------------------------- MODULE SettingsProofs ---------------------------
(***************************************************************************)
(* Proofs about Settings, for any sets of requests, configurations and     *)
(* emails and for any widths of the two conversions.                       *)
(***************************************************************************)
EXTENDS Settings, TLAPS

Steps == {"new", "persist", "log", "auth", "retry", "days", "ended"}

\* The types, and what the names of the steps promise: a request under way has
\* a form, and one that is past SaveSettings has stored it.
TypeInv ==
    /\ up \in {"down", "listening", "stored", "attached", "running"}
    /\ memory \in Configs
    /\ row \in Configs \cup {NoRow}
    /\ saved \subseteq Configs
    /\ early \subseteq Configs
    /\ muddled \in BOOLEAN
    /\ pc \in [Requests -> Steps]
    /\ form \in [Requests -> Configs \cup {NoForm}]
    /\ age \in [Emails -> Nat \cup {Gone}]
    /\ \A r \in Active : form[r] \in Configs

\* What logger, SMTP server and dispatcher have was stored: by the file, the row, or
\* a request that is past SaveSettings.
StoredInv ==
    /\ FileConfig \in saved
    /\ row # NoRow => row \in saved
    /\ \A r \in Requests : pc[r] \in {"log", "auth", "retry", "days"} => form[r] \in saved
    /\ \A tag \in {logLevel, authCfg, retry} : \E cfg \in saved : cfg.tag = tag

\* The days that can have reached the cleaner, and zero before main stored them.
DaysInForce == {0} \cup {Int32(cfg.days) : cfg \in saved \cup early}

\* The cleaner runs with days that were stored, or came with a form before main took
\* them from memory.
DaysInv ==
    /\ up \in {"down", "listening"} => memory \in saved \cup early
    /\ retentionDays \in DaysInForce
    /\ up \in {"stored", "attached", "running"} =>
         \E cfg \in saved \cup early : retentionDays = Int32(cfg.days)
    /\ read # Unread => read \in DaysInForce

\* The configuration that the next start would use.
Stored == IF row = NoRow THEN FileConfig ELSE row

\* A request that nothing disturbs has done the steps before its next one.
DoneBefore(r) ==
    /\ memory = form[r]
    /\ pc[r] # "persist" => row = form[r]
    /\ pc[r] \in {"auth", "retry", "days"} => logLevel = form[r].tag
    /\ pc[r] \in {"retry", "days"} => authCfg = form[r].tag
    /\ pc[r] = "days" => retry = form[r].tag

\* Between two requests everything agrees.
AllAgree ==
    /\ memory = Stored
    /\ logLevel = memory.tag /\ authCfg = memory.tag /\ retry = memory.tag
    /\ up # "listening" => retentionDays = Int32(memory.days)

\* As long as nothing was muddled, at most one request is under way, only when
\* everything runs.
SettleInv ==
    /\ up \in {"attached", "running"} => attached
    /\ up = "down" => Active = {}
    /\ ~muddled /\ up # "down" =>
         /\ \A r, q \in Active : r = q
         /\ Active # {} => up = "running"
         /\ \A r \in Active : DoneBefore(r)
         /\ Active = {} => AllAgree

\* The types are kept.
LEMMA TypeStep ==
    ASSUME TypeInv, [Next]_vars
    PROVE  TypeInv'
<1> USE SettingsAssumption DEF TypeInv, Steps, Active, main, applied, requests, mail, ghosts
<1>1. CASE Boot
    BY <1>1 DEF Boot, ApplySettings
<1>2. CASE StoreDays
    BY <1>2 DEF StoreDays
<1>3. CASE SetRetentionDays
    BY <1>3 DEF SetRetentionDays
<1>4. CASE StartCleaner
    BY <1>4 DEF StartCleaner
<1>5. CASE Crash
    BY <1>5 DEF Crash, ApplySettings
<1>6. ASSUME NEW r \in Requests, NEW cfg \in Configs, SaveMemory(r, cfg)
      PROVE  TypeInv'
    BY <1>6 DEF SaveMemory, Goto
<1>7. ASSUME NEW r \in Requests, Persist(r)
      PROVE  TypeInv'
    BY <1>7 DEF Persist, Goto
<1>8. ASSUME NEW r \in Requests, PersistFails(r)
      PROVE  TypeInv'
    BY <1>8 DEF PersistFails, Goto
<1>9. ASSUME NEW r \in Requests, ApplyLog(r)
      PROVE  TypeInv'
    BY <1>9 DEF ApplyLog, Goto
<1>10. ASSUME NEW r \in Requests, ApplyAuth(r)
      PROVE  TypeInv'
    BY <1>10 DEF ApplyAuth, Goto
<1>11. ASSUME NEW r \in Requests, ApplyRetry(r)
      PROVE  TypeInv'
    BY <1>11 DEF ApplyRetry, Goto
<1>12. ASSUME NEW r \in Requests, ApplyDays(r)
      PROVE  TypeInv'
    BY <1>12 DEF ApplyDays, Goto
<1>13. CASE Tick
    BY <1>13 DEF Tick
<1>14. CASE Cleanup
    BY <1>14 DEF Cleanup
<1>15. CASE CleanupFails
    BY <1>15 DEF CleanupFails
<1>16. CASE Day
    BY <1>16 DEF Day
<1>17. ASSUME NEW e \in Emails, Settle(e)
      PROVE  TypeInv'
    BY <1>17 DEF Settle
<1>18. CASE UNCHANGED vars
    BY <1>18 DEF vars, main, applied, requests, mail, ghosts
<1> QED
    BY <1>1, <1>2, <1>3, <1>4, <1>5, <1>6, <1>7, <1>8, <1>9,
       <1>10, <1>11, <1>12, <1>13, <1>14, <1>15, <1>16, <1>17, <1>18 DEF Next, Startup, Save

\* Only what was stored is applied.
LEMMA StoredStep ==
    ASSUME TypeInv, StoredInv, [Next]_vars
    PROVE  StoredInv'
<1> USE SettingsAssumption
    DEF TypeInv, Steps, Active, StoredInv,
        main, applied, requests, mail, ghosts
<1>1. CASE Boot
    BY <1>1 DEF Boot, ApplySettings
<1>2. CASE StoreDays
    BY <1>2 DEF StoreDays
<1>3. CASE SetRetentionDays
    BY <1>3 DEF SetRetentionDays
<1>4. CASE StartCleaner
    BY <1>4 DEF StartCleaner
<1>5. CASE Crash
    BY <1>5 DEF Crash, ApplySettings
<1>6. ASSUME NEW r \in Requests, NEW cfg \in Configs, SaveMemory(r, cfg)
      PROVE  StoredInv'
    BY <1>6 DEF SaveMemory, Goto
<1>7. ASSUME NEW r \in Requests, Persist(r)
      PROVE  StoredInv'
    BY <1>7 DEF Persist, Goto
<1>8. ASSUME NEW r \in Requests, PersistFails(r)
      PROVE  StoredInv'
    BY <1>8 DEF PersistFails, Goto
<1>9. ASSUME NEW r \in Requests, ApplyLog(r)
      PROVE  StoredInv'
    BY <1>9 DEF ApplyLog, Goto
<1>10. ASSUME NEW r \in Requests, ApplyAuth(r)
      PROVE  StoredInv'
    BY <1>10 DEF ApplyAuth, Goto
<1>11. ASSUME NEW r \in Requests, ApplyRetry(r)
      PROVE  StoredInv'
    BY <1>11 DEF ApplyRetry, Goto
<1>12. ASSUME NEW r \in Requests, ApplyDays(r)
      PROVE  StoredInv'
    BY <1>12 DEF ApplyDays, Goto
<1>13. CASE Tick
    BY <1>13 DEF Tick
<1>14. CASE Cleanup
    BY <1>14 DEF Cleanup
<1>15. CASE CleanupFails
    BY <1>15 DEF CleanupFails
<1>16. CASE Day
    BY <1>16 DEF Day
<1>17. ASSUME NEW e \in Emails, Settle(e)
      PROVE  StoredInv'
    BY <1>17 DEF Settle
<1>18. CASE UNCHANGED vars
    BY <1>18 DEF vars, main, applied, requests, mail, ghosts
<1> QED
    BY <1>1, <1>2, <1>3, <1>4, <1>5, <1>6, <1>7, <1>8, <1>9,
       <1>10, <1>11, <1>12, <1>13, <1>14, <1>15, <1>16, <1>17, <1>18 DEF Next, Startup, Save

\* Only days that were stored, or came early, reach the cleaner.
LEMMA DaysStep ==
    ASSUME TypeInv, StoredInv, DaysInv, [Next]_vars
    PROVE  DaysInv'
<1> USE SettingsAssumption
    DEF TypeInv, Steps, Active, StoredInv, DaysInv, DaysInForce,
        main, applied, requests, mail, ghosts
<1>1. CASE Boot
    BY <1>1 DEF Boot, ApplySettings
<1>2. CASE StoreDays
    BY <1>2 DEF StoreDays
<1>3. CASE SetRetentionDays
    BY <1>3 DEF SetRetentionDays
<1>4. CASE StartCleaner
    BY <1>4 DEF StartCleaner
<1>5. CASE Crash
    BY <1>5 DEF Crash, ApplySettings
<1>6. ASSUME NEW r \in Requests, NEW cfg \in Configs, SaveMemory(r, cfg)
      PROVE  DaysInv'
    BY <1>6 DEF SaveMemory, Goto, Started
<1>7. ASSUME NEW r \in Requests, Persist(r)
      PROVE  DaysInv'
    BY <1>7 DEF Persist, Goto
<1>8. ASSUME NEW r \in Requests, PersistFails(r)
      PROVE  DaysInv'
    BY <1>8 DEF PersistFails, Goto
<1>9. ASSUME NEW r \in Requests, ApplyLog(r)
      PROVE  DaysInv'
    BY <1>9 DEF ApplyLog, Goto
<1>10. ASSUME NEW r \in Requests, ApplyAuth(r)
      PROVE  DaysInv'
    BY <1>10 DEF ApplyAuth, Goto
<1>11. ASSUME NEW r \in Requests, ApplyRetry(r)
      PROVE  DaysInv'
    BY <1>11 DEF ApplyRetry, Goto
<1>12. ASSUME NEW r \in Requests, ApplyDays(r)
      PROVE  DaysInv'
    BY <1>12 DEF ApplyDays, Goto
<1>13. CASE Tick
    BY <1>13 DEF Tick
<1>14. CASE Cleanup
    BY <1>14 DEF Cleanup
<1>15. CASE CleanupFails
    BY <1>15 DEF CleanupFails
<1>16. CASE Day
    BY <1>16 DEF Day
<1>17. ASSUME NEW e \in Emails, Settle(e)
      PROVE  DaysInv'
    BY <1>17 DEF Settle
<1>18. CASE UNCHANGED vars
    BY <1>18 DEF vars, main, applied, requests, mail, ghosts
<1> QED
    BY <1>1, <1>2, <1>3, <1>4, <1>5, <1>6, <1>7, <1>8, <1>9,
       <1>10, <1>11, <1>12, <1>13, <1>14, <1>15, <1>16, <1>17, <1>18 DEF Next, Startup, Save

\* A request that nothing disturbs, and a start, make everything agree.
LEMMA SettleStep ==
    ASSUME TypeInv, SettleInv, [Next]_vars
    PROVE  SettleInv'
<1> USE SettingsAssumption
    DEF TypeInv, Steps, Active, SettleInv, DoneBefore, AllAgree, Stored,
        main, applied, requests, mail, ghosts
<1>1. CASE Boot
    BY <1>1 DEF Boot, ApplySettings
<1>2. CASE StoreDays
    BY <1>2 DEF StoreDays
<1>3. CASE SetRetentionDays
    BY <1>3 DEF SetRetentionDays
<1>4. CASE StartCleaner
    BY <1>4 DEF StartCleaner
<1>5. CASE Crash
    BY <1>5 DEF Crash, ApplySettings
<1>6. ASSUME NEW r \in Requests, NEW cfg \in Configs, SaveMemory(r, cfg)
      PROVE  SettleInv'
    BY <1>6 DEF SaveMemory, Goto, Started
<1>7. ASSUME NEW r \in Requests, Persist(r)
      PROVE  SettleInv'
    BY <1>7 DEF Persist, Goto
<1>8. ASSUME NEW r \in Requests, PersistFails(r)
      PROVE  SettleInv'
    BY <1>8 DEF PersistFails, Goto
<1>9. ASSUME NEW r \in Requests, ApplyLog(r)
      PROVE  SettleInv'
    BY <1>9 DEF ApplyLog, Goto
<1>10. ASSUME NEW r \in Requests, ApplyAuth(r)
      PROVE  SettleInv'
    BY <1>10 DEF ApplyAuth, Goto
<1>11. ASSUME NEW r \in Requests, ApplyRetry(r)
      PROVE  SettleInv'
    BY <1>11 DEF ApplyRetry, Goto
<1>12. ASSUME NEW r \in Requests, ApplyDays(r)
      PROVE  SettleInv'
    BY <1>12 DEF ApplyDays, Goto
<1>13. CASE Tick
    BY <1>13 DEF Tick
<1>14. CASE Cleanup
    BY <1>14 DEF Cleanup
<1>15. CASE CleanupFails
    BY <1>15 DEF CleanupFails
<1>16. CASE Day
    BY <1>16 DEF Day
<1>17. ASSUME NEW e \in Emails, Settle(e)
      PROVE  SettleInv'
    BY <1>17 DEF Settle
<1>18. CASE UNCHANGED vars
    BY <1>18 DEF vars, main, applied, requests, mail, ghosts
<1> QED
    BY <1>1, <1>2, <1>3, <1>4, <1>5, <1>6, <1>7, <1>8, <1>9,
       <1>10, <1>11, <1>12, <1>13, <1>14, <1>15, <1>16, <1>17, <1>18 DEF Next, Startup, Save

\* What the settings of mailrelay keep to.
SettingsInv == TypeInv /\ StoredInv /\ DaysInv /\ SettleInv

LEMMA SettingsKept == Spec => []SettingsInv
<1>1. Init => SettingsInv
  <2> SUFFICES ASSUME Init PROVE SettingsInv
    OBVIOUS
  <2> USE SettingsAssumption DEF Init
  <2>1. TypeInv
    BY DEF TypeInv, Steps, Active
  <2>2. StoredInv
    BY DEF StoredInv
  <2>3. DaysInv
    BY DEF DaysInv, DaysInForce
  <2>4. SettleInv
    BY DEF SettleInv, Active
  <2> QED
    BY <2>1, <2>2, <2>3, <2>4 DEF SettingsInv
<1>2. SettingsInv /\ [Next]_vars => SettingsInv'
    BY TypeStep, StoredStep, DaysStep, SettleStep DEF SettingsInv
<1> QED
    BY <1>1, <1>2, PTL DEF Spec

\* Logger, SMTP server and dispatcher never run with values that were not stored
\* (handleSettingsSave returns before it applies anything when SaveSettings fails),
\* and the cleaner only with a retention that main took from memory during startup,
\* however requests overlap, fail and are cut off by crashes.
THEOREM OnlySavedInForce == Spec => []NothingUnsavedInForce
<1>1. SettingsInv => NothingUnsavedInForce
    BY DEF SettingsInv, StoredInv, DaysInv, NothingUnsavedInForce
<1> QED
    BY <1>1, SettingsKept, PTL

\* A save that nothing disturbs, or a start that reads the row, leaves page, row
\* and every component in agreement, whatever overlapping saves left behind.
THEOREM CleanSavesSettle == Spec => []CleanSaveSettlesAll
<1>1. SettingsInv => CleanSaveSettlesAll
    BY DEF SettingsInv, SettleInv, AllAgree, Stored, CleanSaveSettlesAll
<1> QED
    BY <1>1, SettingsKept, PTL

\* A number below its modulus is its own remainder.
LEMMA SmallRemainder ==
    ASSUME NEW n \in Nat, NEW k \in Nat, n < k
    PROVE  n % k = n
    OBVIOUS

\* The two conversions keep what fits.
LEMMA FittingDays ==
    ASSUME NEW d \in Nat
    PROVE  /\ d < Int32Days => Int32(d) = d
           /\ d <= MaxDays => RetentionPeriod(d) = d
<1> USE SettingsAssumption
<1>1. ASSUME d < Int32Days
      PROVE  Int32(d) = d
  <2>1. (d + Int32Days) % (2 * Int32Days) = d + Int32Days
    BY <1>1, SmallRemainder
  <2> QED
    BY <2>1 DEF Int32
<1>2. ASSUME d <= MaxDays
      PROVE  RetentionPeriod(d) = d
  <2>1. (d + MaxDays + 1) % (2 * (MaxDays + 1)) = d + MaxDays + 1
    BY <1>2, SmallRemainder
  <2> QED
    BY <2>1 DEF RetentionPeriod
<1> QED
    BY <1>1, <1>2

\* Days in force that are positive come from a retention that is positive, and,
\* if it fits, that is as long.
LEMMA PositiveDays ==
    ASSUME SettingsInv, NEW d \in DaysInForce, d > 0
    PROVE  \E cfg \in saved \cup early :
               cfg.days > 0 /\ (cfg.days <= MaxDays => RetentionPeriod(d) = cfg.days)
<1>1. PICK cfg \in saved \cup early : d = Int32(cfg.days)
    BY DEF DaysInForce
<1>2. cfg.days \in Nat
    BY SettingsAssumption DEF SettingsInv, TypeInv
<1>3. cfg.days > 0
    BY <1>1, <1>2, FittingDays, SettingsAssumption
<1>4. cfg.days <= MaxDays => RetentionPeriod(d) = cfg.days
    BY <1>1, <1>2, FittingDays, SettingsAssumption
<1> QED
    BY <1>3, <1>4

\* The hourly cleanup deletes only finished emails that are older than a
\* retention somebody stored (or sent before main passed it on) and that fits
\* (runCleanup, CleanupExpired), for every width of int32 and time.Duration.
THEOREM RetentionIsHonoured == Spec => RetentionHonoured
<1> DEFINE Honoured ==
        \A e \in Emails : age[e] # Gone /\ age'[e] = Gone =>
            /\ e \notin pending
            /\ \E cfg \in saved \cup early :
                 cfg.days > 0 /\ (cfg.days <= MaxDays => age[e] > cfg.days)
<1>1. SettingsInv /\ [Next]_vars => [Honoured]_vars
  <2> SUFFICES ASSUME SettingsInv, [Next]_vars, NEW e \in Emails,
                      age[e] # Gone, age'[e] = Gone
               PROVE  /\ e \notin pending
                      /\ \E cfg \in saved \cup early :
                           cfg.days > 0 /\ (cfg.days <= MaxDays => age[e] > cfg.days)
    OBVIOUS
  <2>1. age[e] \in Nat
    BY DEF SettingsInv, TypeInv
  <2>2. CASE Cleanup
    <3>1. e \in Expired(read) /\ read \in DaysInForce
      BY <2>2 DEF Cleanup, SettingsInv, DaysInv
    <3>2. e \notin pending /\ read > 0 /\ age[e] > RetentionPeriod(read)
      BY <3>1 DEF Expired
    <3> QED
      BY <3>1, <3>2, PositiveDays
  <2>3. CASE Day
    BY <2>1, <2>3, SettingsAssumption DEF Day
  <2>4. UNCHANGED age => FALSE
    OBVIOUS
  <2> QED
    BY <2>2, <2>3, <2>4
       DEF Next, Startup, Save, Boot, StoreDays, SetRetentionDays, StartCleaner, Crash,
           SaveMemory, Persist, PersistFails, ApplyLog, ApplyAuth, ApplyRetry, ApplyDays,
           Tick, CleanupFails, Settle, vars, mail
<1> QED
    BY <1>1, SettingsKept, PTL DEF Spec, RetentionHonoured
=============================================================================
