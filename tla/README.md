# mailrelay: verification project

mailrelay accepts email over SMTP, checks the sender's authentication, matches the
message against rules and sends one webhook request per matching rule, with
retries from a durable queue in SQLite; a web page shows what arrived, and a script turns
the repository's Markdown into a documentation site. This directory holds TLA+ models of that
code, the TLC runs that check them on small instances and TLAPS proofs for all
instances. `PROJECT.json` maps every definition to the source lines it models and
lists runs, mutants, hazards, findings and theorems.

## The system

| Part | State | Operations | Interacts with |
| --- | --- | --- | --- |
| SMTP session (`internal/smtp/server.go`, `parser.go`) | envelope of the current message, shared auth settings | MAIL, RCPT, DATA, RSET, shutdown | auth check, intake handler |
| Sender authentication (`internal/smtp/auth.go`) | none | `VerifyAuth`: SPF, DKIM, DMARC, ARC verdicts | SMTP session |
| Intake handler (`cmd/mailrelay/main.go`) | none of its own | save email, write raw file, match, enqueue or drop | store, engine, dispatcher, event bus |
| Rules engine and rule book (`internal/rules`, `internal/storage`, `internal/webui`) | table `rules`; the engine's list of enabled rules | create, update, toggle, delete, import, reload; match; secret lookup | intake, queue workers |
| Delivery queue (`internal/webhook/queue.go`, `internal/storage/queue.go`) | tables `deliveries`, `delivery_queue`, `emails`; worker goroutines; stop and done channels; the workers' context | enqueue, claim, send, decide, finish, recover, stop, shut down | store, receivers, rules engine |
| Retry policy and direct dispatch (`internal/webhook/dispatcher.go`) | retry settings | `dispatchOne`, `send`, `backoff` | receivers |
| Store (`internal/storage/store.go`) | the SQLite database, one connection | emails, rules, settings, retention | everything |
| Settings (`internal/webui/handler.go`) | configuration behind a mutex; table `settings` | save, apply to SMTP server, dispatcher, retention | SMTP, queue, cleanup |
| Retention and raw files (`main.go`, `handler.go`) | the `.eml` directory | hourly cleanup, delete, delete all | store |
| Event bus and live page (`internal/webui/handler.go`, `templates/list.html`) | subscribed channels of capacity 1; stream, timers and requests of a tab | subscribe, notify, unsubscribe; connect, pause, hide, refresh | everything that changes emails; browsers (SSE) |
| Documentation site (`site/scripts/sync-docs.mjs`, `site/astro.config.mjs`) | content folder, public folder, the built site | list, empty, write pages, copy, build | the repository, `docs.yml` |
| Web login and CSRF (`internal/httpauth`, `internal/httpcsrf`) | cookies | login, callback, logout, token check | browsers |

What is hardest in this system is the queue: worker goroutines, the SMTP handler, the
web interface and the hourly cleanup change the same rows in transactions of their
own; a delivery outlives the process that started it; shutdown has a grace period
and then cancels requests; and storage can fail after the receiver has answered. The same
kind of trouble, on a smaller scale, is in the other parts: mail is stored, filed and queued
in three steps, settings are applied in five, files and rows are deleted separately, and the
page learns of changes through two lossy buffers.
The properties that make each part correct:

* **queue** - no row is sent by two workers; nothing is lost or stranded; an email is
  received exactly while work is unfinished and afterwards shows the outcome of its
  latest batch; the number of requests is bounded; shutdown ends;
* **retry policy** - both retry paths decide alike and wait exponentially;
* **rule book** - the engine ends up with what the database holds; a signed delivery is
  never sent unsigned; no edit loses another edit's secret;
* **intake** - 250 means that the message was dropped by the rules or is queued; a message is
  queued twice only when a 250 was not heard; envelopes do not mix; raw files live as long as
  their email;
* **settings** - what is saved, shown and applied agree; retention deletes what has expired
  and nothing else;
* **authentication** - logging predicts enforcement, forwarding does not spoil preserved
  results, better credentials never cause a rejection;
* **event bus** - a change is shown although events are dropped; no send on a closed channel;
* **site** - pages mirror the repository, links lead where they led there, and the published
  site catches up.

## Modules

| Module | Models |
| --- | --- |
| `RetryPolicy` | judgement of one answer, `backoff` with the width of `time.Duration` |
| `RetryPaths` | `runQueued` and `dispatchOne` answered by the same receiver |
| `RetryPathsProofs` | both paths agree, and what the loop of `backoff` computes |
| `DeliveryLedger` | abstract specification: what the queue promises |
| `DeliveryQueue` | tables, workers, handlers, web operations, shutdown, crash, recovery |
| `DeliveryQueueProofs` | claims, statuses of emails, requests a receiver sees, final results; `DeliveryQueue` implements `DeliveryLedger` |
| `RuleBook` | table of rules, the engine's list, overlapping edits, reloads, signing of queued deliveries |
| `RuleBookProofs` | what holds however edits overlap, and what holds when they do not |
| `MailIntake` | SMTP sessions, intake and rejection handlers, raw files, deletion, cleanup, replay, shutdown |
| `MailIntakeProofs` | no accepted mail is lost, what is queued twice, raw files |
| `AuthCheck` | `VerifyAuth`: ARC, SPF, DKIM, DMARC, modes and enforcement |
| `AuthCheckProofs` | what the verdict depends on, for every mail |
| `Settings` | saving and applying settings, startup, the hourly cleaner and its arithmetic |
| `SettingsProofs` | what can be in force, what a clean save reaches, retention |
| `EventBus` | event bus, SSE handlers, the script of the list page |
| `EventBusProofs` | channels and streams, for any number of tabs |
| `DocPages` | how one Markdown text becomes a page: links, alerts, titles |
| `SiteSync` | the run of `sync-docs.mjs` and the build, on a repository that is edited meanwhile |
| `SiteSyncProofs` | what the content folder holds after a sync, where links lead, what becomes of alerts |
| `MCDeliveryQueue`, `MCRetryPaths`, `MCRuleBook`, `MCMailIntake`, `MCAuthCheck`, `MCSettings`, `MCEventBus`, `MCSiteSync` | instances for TLC |

### DeliveryQueue and the code

`deliveries` is the join of the tables `deliveries` and `delivery_queue`; `emails` holds
status and `delivery_batch`. Every store call is one SQL transaction on the only
connection (`SetMaxOpenConns(1)`), hence one action. Batch ids are uuids in the code; the
model numbers them, uses only equality in the actions, and lets the proofs use that a
later batch has a larger number.

A worker (`pc[w]`) follows `work` and `runQueued`: `loop` (check `q.stop`), `claim`
(`ClaimDelivery`), `claimed` (recheck `q.stop`: give the row back, fail to prepare, or
send), `sending` (`send`), `finish` (`FinishDelivery`), `wait` (ticker or stop). `job[w]` is
the row as `ClaimDelivery` read it; the row in the table may be deleted while the worker
holds it, and `FinishDelivery` then updates nothing. `result[w]` is decided when the
request ends, and saved in a later step.

`SaveEmail`, `HandlerEnqueue`, `HandlerDrop` and `HandlerFails` are the two database calls of
`buildHandler`; `Replay`, `ReplayDrop`, `DeleteByUser` and `CleanupExpired` are the operations
of the web interface and of the hourly cleanup. `StopQueue`, `GraceExpires` and `Exit` are the
shutdown sequence of `run`; `Crash` loses everything but the tables; `StartQueue` recovers.

Abstractions. A snapshot is its retry settings: payload and target do not influence the
queue. Which emails are old enough for the cleanup, which rules match and what a receiver
answers are left open. Reasons why a request cannot be prepared are one action. Which of
several rows with the same due time is claimed is open, as in SQL. Operations that fail
without changing anything (a replay of a deleted email, a failed recovery) are no steps.

History variables `sends`, `refusals` and `lost` record what a receiver saw and which results
this process could not save; no guard reads them.

### RetryPolicy and RetryPaths

A duration is an integer of at most `MaxDuration`; the conversion from `float64` of a larger
value yields `Overflow`, which is the largest duration on arm64 and the smallest on amd64
(the Go specification leaves it to the implementation, and both are release targets); the
run takes amd64.
Answers are grouped by how the code treats them; everything that is not a 2xx or 4xx
response, a refusal by the network guard, a timeout or a cancellation is `server_error`.

### RuleBook and the code

`table` is the table `rules`; a rule is its name, its switch and its secret, because
conditions, target, position and the rest of `webhook_config` are read and written with
the secret. `engine` is `Engine.rules`, the list of enabled rules. Ids are uuids; the model
names an id after the request that draws it and the name it is drawn for.

A request (`pc[r]`) is one call of a handler: it reads a row if it is an edit or a toggle
(`UpdateRead`, `ToggleRead`), writes (`Create`, `WriteRow`, `Delete`, `Import`), reads the enabled
rules (`ListForEngine`) and installs them (`SetRules`). Each is one statement or transaction,
and other requests run in between. `row[r]` is the whole row that `UpdateRule` will write,
computed from what was read and from the form. A listing may be cut: `ListEnabledRules` does
not ask `rows.Err`, so that reading that ends early looks like success; which rows come first
is a matter of positions, hence any part of the list. `TransferRules` is the command line
import, done while the service is stopped, as documented. `Start` is `LoadRules` at startup.

A delivery takes from its rule the name and whether it was signed; every attempt looks the
secret up by name (`resolveSecret`). `id` in an engine entry, `keeps` in a row, `reload`
and `overlapped` are history: no guard reads them.

Abstractions. Which rules match an email is open. A form or file that is refused changes
nothing and is no step. The code does not keep edits from overlapping; `overlapped` records
whether they did, so that what holds without overlap (one administrator who waits for each
answer) can be told from what always holds. `Files` and `Outcomes` choose which files are
imported and what reloads meet in an instance.

### MailIntake and the code

A session walks through `Mail`, `Rcpt`, `Data`, then either the calls of `buildHandler`
(`SaveEmail`, `WriteFile`, then `Drop`, `Enqueue` or `EnqueueFails`) or those of
`buildRejectionHandler` (`SaveRejected`, `WriteFile`), and ends with the reply, which may be
lost. `session.Mail` has no guard: a second MAIL before DATA replaces the sender and keeps the
recipients, and so it is in the model. Each store or file call is one action; a removal of
files takes those that can be removed and keeps the others, as the code only logs the error.
`emails[n]` is the row of the n-th DATA command with its envelope and whether it has unfinished
deliveries; `files` are the raw files. `named[n]` is history: the recipients accepted on the
session since its last `Reset`.
A client sends a message again unless it heard 250 or 550. Beside the sessions run one
deletion (`deleting`), one delete-all (`clearing`) and the cleaner (`cleaning`), each between
its call on rows and its call on files; `Cleanup(E)` takes any set of emails for expired.
After `Signal` the handlers' context is cancelled: database calls with it fail, file calls do
not. `log[n]` is history that only the properties read. What a queue does with
unfinished deliveries is `DeliveryQueue`; here `Finish` ends them.

### AuthCheck and the code

`VerifyAuth` is one function of the modes and of a mail; the state machine switches the modes
as the settings page does and looks at the same mail again. A mail carries the results of
the libraries: what SPF says of the client and whether its address is known, which signatures
verify, the ARC headers and the DMARC record. Domains are sequences of labels, so that `orgDomain` is the code's "last two
labels". ARC seals are not verified by the code, and not in the model.

### Settings and the code

`SaveMemory`, `Persist`, `ApplyLog`, `ApplyAuth`, `ApplyRetry`, `ApplyDays` are the statements of
`handleSettingsSave` after validation. `Boot`, `StoreDays`, `SetRetentionDays`, `StartCleaner`
are those of `run`; the HTTP server listens from `Boot` on. A configuration is a tag (log
level, auth modes, retry policy) and the retention; the two narrowings of the retention are
modelled with `Int32Days` and `MaxDays`. `saved`, `early` and `muddled` are history.

### EventBus and the code

A writer commits, then calls `Notify`, which visits channel after channel under the lock.
A stream is a request for `/api/events` with its channel. `slot` and `next` are htmx's rule for
requests of one element (htmx 2.0.4 as vendored: both calls of `refreshContent` and the one of
`openModal` use the body): one in flight, of the others the last. `missed` is history: since the
last refresh a request for the table failed, or `openModal` took its place. `owed[c]` is history: the last change committed while
`c` was subscribed. Pings change nothing and are left out. Only one tab is modelled: tabs
meet in the bus only, and a tab that leaves and returns has several streams there.

### DocPages, SiteSync and the code

Lines are what the regular expressions of `sync-docs.mjs` tell apart; a line holds at most
one link, and a line that marks an alert none (the expression for alerts matches the whole
line). Paths are sequences of segments, normalised by `RepoPath`, one `PathStep` for each.
`Pushed` and `After` are one iteration of the outer loop of `convertAlerts`: what it pushes and
where the next one starts; `Asides` says the same without a loop. `SyncPage` reads and
writes one page; `FailPage` is the error for a missing title or file, which ends the script
after the content folder was emptied, and `FailStatic` the one of `readdirSync` when the last
screenshot is gone. The author edits at any moment; `dirty` records that an edit fell into the
build, `cut` that the last build was stopped. Of astro it is only used that the sidebar's slugs must exist.

## Runs

| Run | Instance | Shows |
| --- | --- | --- |
| `queue_safety` | 1 email, 2 deliveries, 2 workers, 1 restart, 1 storage failure, one policy with a retry and one without that does not retry timeouts | all invariants, both action properties and `ImplementsLedger` |
| `queue_live` | 2 deliveries, 1 worker, 1 restart, 1 failure, `SchedulerSpec` | `EveryDeliverySettles`, `ShutdownTerminates` |
| `queue_orphan` | 1 delivery | `ReceivedIsQueued` is violated (finding) |
| `retry_paths` | 20 wait combinations, retries 0 to 5, amd64 | `PathsAgree`, `WaitIsExponential` |
| `rule_edits` | 2 requests, 2 names, 2 secrets, 1 delivery, reloads may fail or be cut, any number of restarts | `OneRulePerName`, `NeverUnsigned`, `DeletedStaysDeleted`; and without overlap `EngineIsCurrent`, `SecretsChangeOnPurpose`, `RotationReachesRetries` |
| `rules_stale_reload` | 2 overlapping requests, every call succeeds | `EditsTakeEffect` is violated (finding) |
| `mail_intake` | 1 session, 2 messages, 2 DATA commands, 2 mishaps, 1 replay | `EnvelopeIsOneTransaction`, `AcceptedIsNotLost`, `QueuedTwiceOnlyIfUnheard`, `KeptEmailsKeepFiles`, `FilesGoWithEmails` |
| `auth_check` | 9000 mails under all 27 choices of modes | `LogPredictsEnforce`, `ForwardingKeepsVerdict`, `CredentialsNeverHurt` |
| `arc_dkim` | the same | `OriginalDKIMSurvives` is violated (finding) |
| `settings` | 2 saves, 3 configurations, restarts, faults, `FairSpec` | `CleanSaveSettlesAll`, `NothingUnsavedInForce`, `RetentionHonoured`, `ExpiredAreDeleted` |
| `event_bus` | 1 writer and a silent one, 2 changes, 1 tab with 2 streams, `FairSpec` | `NoSendOnClosed`, `OneStreamPerTab`, `LiveTableCatchesUp` |
| `site_sync` | 3 files, 1 screenshot, every arrangement of quotes and alerts, every kind of link, edits and interruptions, `FairSpec` | `ContentMirrorsRepo`, `AlertsBecomeAsides`, `LinksLeadToTheirFile`, `SiteCatchesUp` |

Bounds. `MaxRestarts` limits how often the process stops or crashes, `MaxFaults` how often a
storage call fails; ids are finite because they are never reused. Two deliveries make
one batch of two or two overlapping batches, and two workers make every race between
claims, results, deletion and shutdown (in `queue_live` one worker is enough: a worker ends
whatever the others do, and `Shutdown` waits for each). Emails interact only through the workers they
share, so that one email reaches the states of the status properties; the proofs cover any
number. Symmetry is used in safety runs only. In RuleBook every request happens at most once,
so that the number of requests bounds everything; two of them, from any initial table, make
every race between two reads and two writes. The clock moves only while a row waits, which
bounds it by the waits. In MailIntake, `MaxSends` bounds DATA commands and `MaxMishaps` everything
that goes wrong, removals of files included: two of each allow a message that is sent again
after a failure or a lost reply, and a failure during a shutdown. Sessions share nothing but the tables, and every step
of a deleter races with every step of the one session. In Settings, two saves make every
overlap, `MaxBoots` and `MaxFaults` bound restarts and failing calls, `MaxAge` lies beyond the
longest retention that fits. In EventBus, two changes fill a channel and drop an event
(`MaxUnread`: a connection that is not read blocks its handler), `MaxTimers` bounds reconnects
that are pending; a tab waits for a free stream when both are still on the bus. In SiteSync,
`MaxEdits` and `MaxStops` bound edits and interruptions and `MaxLines` the lines below a title.

Fairness. `SchedulerSpec`: goroutines run, store calls return, net/http ends a request
whose context is cancelled, the timer of `Shutdown`'s context fires. `ServiceFairness`, the
premise of `EveryDeliverySettles`, adds that requests end by themselves (true with a positive `retry.timeout`; with 0 the code waits
without limit and promises nothing), that time passes and that a service manager starts
the process again. Receivers are never assumed to answer well.

The conclusion of `EveryDeliverySettles` excepts rows whose result could not be saved: the code
leaves them in progress until the next start ("startup recovery retries it").

Settings: main and the cleaner get to run and days pass; nobody has to save, and a cleanup may
fail as long as faults last. EventBus: Notify goes on, handlers pass events on, the browser
reads them, and a request is answered or fails; nobody has to change anything, and streams
may end at any time. htmx sets no timeout of its own, so a server that never answers would
stop the page. SiteSync: a build starts when one is due (`docs.yml` starts one for each push)
and ends (`docs.yml` stops it after ten minutes). A build that was stopped is not started
again by itself.

The properties say where they stop, and the code does not go further: `LiveTableCatchesUp`
excepts streams that end and refreshes that fail or are discarded; `FilesGoWithEmails` names
the five cases in which a file outlives its email; `RetentionHonoured` excepts retentions that
do not fit; `SiteCatchesUp` excepts a last build that was stopped.

## Findings

* `ReceivedIsQueued`: `buildHandler` stores an email as received and enqueues it in a second
  transaction. A crash, a signal that cancels the handler's context or a failing store in
  between leaves an email that is shown as received ("Accepted and queued") for ever.
* `EditsTakeEffect`: edits may overlap, and of two reloads the one that read first may
  install last. Both edits succeed and the engine keeps the older list.
* `OriginalDKIMSurvives`: `checkARCChain` reads the original DKIM result and nothing uses it.
  A signature that the forwarder broke fails, though the README says that ARC lets the original
  SPF/DKIM results survive. `ForwardingKeepsVerdict` says what does survive: SPF and DMARC.

What the conditions of the passing properties leave out, for whoever changes this code:

* `backoff` converts before it caps: on amd64 a wait beyond 2^63 nanoseconds becomes negative
  and the retry is sent at once (`Fits` in `WaitIsExponential`).
* When edits overlap, a blank edit or a toggle writes back the secret it read, over one that
  was rotated, cleared or imported meanwhile (`overlapped` in `SecretsChangeOnPurpose`).
* `ListEnabledRules` does not ask `rows.Err`: a listing that ends early is installed without
  any report (`reload` in `EngineIsCurrent`).
* Secrets are looked up by name among enabled rules: disabling or renaming a rule fails its
  pending signed deliveries for good, and a rule that takes over the name signs them
  (`RotationReachesRetries` speaks of attempts that do not fail).
* A failed save leaves the form in memory, where the page shows it; a settings row that cannot
  be read at startup is ignored until the next start (`muddled` in `CleanSaveSettlesAll`). A form
  that comes while `main` is between starting the HTTP server and storing the retention gives
  the cleaner its retention even if it is never saved (`early` in `NothingUnsavedInForce`).
* A client that sends MAIL twice without RSET gets the recipients of the first for the second
  (`named` in `EnvelopeIsOneTransaction`).
* A raw file that cannot be removed is only logged, and a cleanup that fails after rows were
  deleted forgets their files; nothing looks for files without emails ("leaked" in
  `FilesGoWithEmails`).
* A row clicked while a request of the page is in flight takes the place of the waiting table
  refresh, which comes back with the next event only (`missed` in `LiveTableCatchesUp`).
* Of two quick refreshes of the list page the statistics of the second are dropped and stay
  stale until the next event; the table does not. Changes between two streams, and those
  nobody announces (retention, mail that could not be queued), appear with the next event.
* With a list page open, shutdown takes its full 30 seconds, because streams do not end.
* A documentation build that is stopped is not repeated until the next push, and removing the
  last screenshot makes the build fail, because git keeps no empty directory (`cut` and
  `Buildable` in `SiteCatchesUp`).
* An alert of the kind `[!constructor]`, or any other name of `Object.prototype`, would count as
  an alert in `convertAlerts`; the kinds of lines in `DocPages` leave such names out.
* `sync-docs.mjs` links pages with other characters than `[\w-]` in their name to GitHub, never
  empties `public/`, and writes "undefined" when README.md has no tagline.

## Proofs

A property is seldom inductive by itself; each module of proofs states the invariant that is,
as a conjunction of named parts, and TLC checked it on the instances above before it was
proved. Every theorem holds for all values of the constants that satisfy the assumptions named.

`DeliveryQueueProofs`, for any sets of emails, deliveries and workers, any retry settings with
natural numbers and any bounds (`DurationAssumption`, `QueueAssumption`, `NullAssumption`:
numbers are numbers, and the null values differ from what they stand for). The invariant is
`QueueInv`, with the parts:

* `ClaimInv` - a held row that still exists is in progress and as the worker read it
  (`HeldIsCurrent`); a lost row stays in progress, so that nobody claims it; a result is final
  exactly when it has no next attempt. Without `HeldIsCurrent` a claim could take a row that
  another worker holds. Gives `ClaimsAreExclusive`, `NothingStranded`, `AlwaysScheduled`.
* `StatusInv` - a batch belongs to one email, is not later than that email's latest batch,
  and the latest batch is not empty (`BatchesAreOwned`), with `HeldHasEmail`: a held row
  disappears only together with its email. Without it a late `FinishDelivery` of a deleted row
  could give a verdict. Gives `StaysReceived`, `StatusIsTrue`.
* `SendInv` - the attempts on record account for the requests sent, up to `Slack`: one
  request for each earlier life of the process, and one for this life after cancellation or
  a crash. Gives `SendsAreBounded`, `GivingUpIsEarned`; with `ClaimInv`, `SettledDeliveriesStay`.
* `QueueImplementsLedger` - claims, attempts, retries, crashes and recovery are stuttering
  steps of the ledger, each other step is one of its actions; the verdict of
  `FinishDelivery` is the ledger's (`VerdictRefines`).

`RuleBookProofs`, for any sets of requests, names, secrets and deliveries
(`RuleBookAssumption`: the special values differ from ordinary ones):

* `NamesStayUnique` needs `NamesInv`, which adds the lists that were read and not yet
  installed; its core is that an import has one target for each name (`ImportDistinct`).
  `SignedStaysSigned` and `RulesStayDeleted` follow from the types alone.
* `EngineFollowsTable`, `SecretsKept` and `RotationApplies` rest on
  `SerialInv`: as long as edits have not overlapped, at most one request is open, what it has
  read is still so, and the engine lags behind the table only while a request is about to
  reload.

`EventBusProofs`, for any sets of writers and streams (`BusAssumption`):

* `NotifyIsSafe` needs `LockInv`: channels on the bus are open, a round of `Notify` visits
  channels on the bus only, and there is no round while nobody holds the lock. The last part
  is why a handler that unsubscribes cannot meet a round half done.
* `TabsHaveOneStream` needs `TabInv`, which adds the types of the tab's variables.

`AuthCheckProofs`, for any set of mails and domains (`MailsAssumption`: a mail has its eight
fields), from `VerdictInv`, that the verdict is the one of the modes in force:

* `LoggingPredicts` - a check looks only at whether a mode is "off" (`WatchingSeesTheSame`).
* `ForwardingIsHarmless` - the preserved results are used before address and record are, and
  signatures count only for DKIM and, without a preserved DMARC result, for alignment.
* `CredentialsHelp` - SPF, DKIM and alignment are monotone in address and signatures; "DMARC
  fails" is antitone in alignment, and rejection needs a failing check (`Rejection`).

`RetryPathsProofs`, for any retry settings with natural numbers (`DurationAssumption`,
`PathsAssumption`):

* `TwoPathsAgree` - `PathsInv` adds to it what the queue's row holds, and that its last wait
  is that of `backoff`.
* `WaitsAreExponential` - the recursion `ExpectedWait` has one solution, the closed form
  `ClosedWait` (the initial wait times a power of two, cut at the longest wait), and `backoff`
  computes that as long as its product fits into a `time.Duration`. Induction is by the least counterexample (`LeastNumber`), and 2^(n+1) = 2 * 2^n
  comes from counting the subsets of a set with n + 1 elements.

`SettingsProofs`, for any requests, configurations and emails and any widths of the two
conversions (`SettingsAssumption`: days are numbers, null values differ from others, and the
cleaner's arithmetic is narrower than the conversion to 32 bits). The invariant is `SettingsInv`:

* `StoredInv` - log level, modes and retry policy in force came from the file, the row or a
  request past `SaveSettings`.
* `DaysInv` - the days the cleaner uses, and those it has read and not yet used, were stored
  or came with a form while the program started. With `StoredInv` it gives `OnlySavedInForce`,
  alone `RetentionIsHonoured`, an action property.
* `SettleInv` - as long as no two saves overlapped, at most one request is under way, the steps
  before its next one have taken effect (`DoneBefore`), and between requests everything agrees.
  Gives `CleanSavesSettle`.

`MailIntakeProofs`, for any sets of sessions and messages and any bounds (`IntakeAssumption`).
A step is first reduced to its effect on sessions, log, emails and files (`StepEffects`); then
each part of `MailInv` has one lemma for each kind of effect:

* `SessionInv` - what a session holds in each of its states, that its recipients are those
  accepted since the last `Reset`, and that two sessions never have the same message or
  number. Gives `EnvelopesAreOneTransaction`.
* `FreshInv` - a number that is not yet stored has no history. Without it a new email could
  inherit the log of another.
* `PromiseInv` - an accepted email is there and unfinished, or its log says what ended it.
  Gives `NoAcceptedMailIsLost`.
* `QueueInv` - a client whose message was queued once is done with it, or waits for the 250
  that is about to be sent. Gives `HeardMailIsQueuedOnce`.
* `FileInv` - the deletions and cleanups under way concern emails that are gone. Gives
  `KeptEmailsHaveFiles` and `FilesAreNotLeaked`.

`SiteSyncProofs`, for any repository, texts of any length and any edits and interruptions.
`SiteAssumption`: the sidebar names files of `docs/`, and none is called index.
`TextsAssumption`: texts consist of `SourceLines`, and the absence of a link is no link.
`StringsAssumption`: the names written in quotes are strings, which the provers do not know.
The inductive invariant is `SyncedInv`:

* `SiteInv` - pages written so far are those of the list and not still to do, and the list is
  the one of the repository until the author edits. Gives `SyncedContentMirrorsRepo`.
* `TextInv` - the repository holds texts of `SourceLines`, whatever the author does.
* `PageInv` - while nobody edits, the pages written so far are the ones made from the texts as
  they still are. Without it nothing relates a page to its source once the step that wrote it
  is over.

`LinksReachTheirFile` and `AlertsAreAsides` follow from `PageInv` and from what the operators of
`DocPages` compute. A recursion has exactly one solution (`Recursion`, `RecursionDown`), and an
induction over it is one over the set of indexes where the claim holds (`CountUp`,
`CountDown`), so no induction rule with an operator as parameter is needed. For links:
`DestinationIs` (what `rewriteTarget` answers leads to the file that the path names) and
`KeptLinks` (`convertAlerts` loses no link and adds none). For alerts: `ConvertIsAsides` compares
the parts that the loop pushes, one for each iteration (`ConvertWoven`), with the parts of
`Asides`, one for each line (`AsidesChain`); an iteration stands for a stretch of lines
(`Stretch`), and iterations that start outside of asides cover the text (`Weave`).

Only model-checked is liveness (`EveryDeliverySettles`, `ShutdownTerminates`,
`ExpiredAreDeleted`, `LiveTableCatchesUp`, `SiteCatchesUp`), because TLAPS does not reason about
fairness here.

## Not modelled

MIME parsing and decoding, payload templates, HTML and statistics (text processing and
read-only queries), metrics, configuration loading, the address table of the network guard,
TLS and timeouts of the SMTP library, the cryptography of signatures and sessions. Web login
and CSRF (a second login tab replaces the state cookie of the first, which has to be started
again): state cookies and tokens are compared by single requests; what is delicate about
them is cryptography, discovery and cookie attributes of libraries. Vendored scripts
(`tailwindcdn.js`, htmx, idiomorph) are third-party code.

## Plan

Every safety property of the passing runs is proved. What remains is upkeep: shorter proofs
for `DeliveryQueueProofs` and `SiteSyncProofs`, and the steps of liveness arguments that are
not temporal (that an enabled fair action makes progress), which can be stated as lemmas.
