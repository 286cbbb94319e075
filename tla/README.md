# VPS Reality Master: TLA+ models and proofs

Master is one Go process that sets up VPS ("Slaves") over SSH, keeps servers,
users and their VPN links in `master.json`, and keeps the client records on the
Slaves in step with it over HTTPS. The models below are translated from the Go
code and the panel's `app.js`; every definition that stands for code is listed
with its lines in `PROJECT.json` under `map`.

## Inventory

| component | state it keeps | operations | correct when |
| --- | --- | --- | --- |
| state document, `model.go` | servers, users, per user a link to each server | the callbacks given to `Store.Update` | links lead to existing users and servers; profile names, addresses and domains are unique |
| store, `store.go` | `state` in memory, `master.json` | `Snapshot`, `Update` (`saveLocked`: temporary file, sync, rename, chmod) | memory is what the last accepted update left; what was acknowledged is on disk after a restart |
| operations, `operations.go` | local variables of one goroutine per job, `operationMu` | provision, clean up, create, retry, delete, uninstall or forget, full sync | one at a time; a job that reports no warning did what it promises on every Slave; no deletion is undone |
| HTTP handlers, `server.go` | none | checks, start of jobs, rename (without `operationMu`), job and subscription reads | a rename is not lost; a job never acts on a target that is gone |
| Slave client, `slave.go` | none; the Slave keeps the records | `/register`, `/list`, `/remove`, 25 s time-out | a late or repeated call does no harm that a later sync does not see |
| SSH, `ssh.go` | none | setup, credentials, uninstall scripts; no time-out | a script that hangs holds up only what waits for it |
| jobs, `jobs.go` | per job status, event log, subscribers; the last 100 jobs | start, log, warn, finish, subscribe, poll | a follower sees every event once, in order, and learns the final status |
| subscription, `mihomo.go` | none | profile, proxy provider, rules | only ready links, complete, in the order of the servers; a client can tell the proxies apart |
| panel, `web/assets/app.js` | the job it follows, what its two dialogs offer | start jobs, follow one by SSE, fall back to polling, offer retry and clean-up | the dialog tells of the job in its title and can be closed in the end; it offers a clean-up only of what failed |
| lifecycle, `main.go`, `register-initd.sh` | the process, `master.pid`, the port | start, stop, restart | one process that serves and saves; the pid file names it; what the script says is so |
| configuration, `config.go`; parsing, `util.go` | none | read `.env`; ids, look-ups, normalization | pure functions |

How they interact: a handler starts a job and answers at once. The job waits
for `operationMu`, takes a snapshot, and then calls Slaves, scripts and
`Store.Update` one after the other, so its view of the store grows old while it
works. Handlers read the store at any time, and one of them
(`handleUpdateServer`) writes it without `operationMu`. The Slaves are a second
store without transactions: Master learns of it by `/list` and the answers to
its calls, and a call that timed out may still be carried out. The panel knows
a job by its id only, follows it by a stream that may break, and keeps what it
may offer next in variables that all its callbacks share. Master and the init
script write one pid file, and Masters that overlap write one `master.json`.

What is hard here: the order of queued jobs and what they saw before they
queued; renames between two updates of a job; saves that fail before or after
the rename of the file; calls whose answer never came; a restart between a call
and the update that records it; a power failure before the directory is on
disk; waiting behind a script without a time-out; a stream that ends without
the verdict; a Master that is stopped while another one starts. The full list, at its lines, is `PROJECT.json` `hazards`.

## Modules

- **MasterState**: the document and the callbacks as pure functions of it, and
  what makes a document `Consistent`. A table maps each id that may be drawn to
  its entry or to "no entry"; the order of the code's slices is not kept.
- **ControlPlane**: operations, handlers, store and Slaves. `mem` and `disk` are
  `Store.state` and `master.json`; `slave` has per address whether a Slave is
  installed and its records; `run[j]` holds the local variables of the job in
  slot `j` with `pc`, the place it stands at; `holder` is `operationMu`;
  `lateRegister` and `lateRemove` are timed-out calls; `offered` is where the
  panel shows the clean-up button. `stray`, `gone` and `shown` are history for
  the properties and guard nothing, except that an id is never drawn twice.
- **MCControlPlane**: small documents, Slaves and request sets for TLC.
- **ControlPlaneProofs**, **ConsistencyProofs**, **SlaveProofs**: theorems about
  ControlPlane, each building on the one before.
- **JobLife**: what Master promises of a job, its status and whether anything
  warned. The abstract specification of Jobs.
- **Jobs**: the job manager, each job's goroutine and log, the goroutines that
  read a script's output, and the requests that follow a job. `job[j]` is the
  `Job` with the place its goroutine stands at; `stream[f]` is one request to
  `/api/jobs/{id}/events` with its channel; `known` and `order` are the
  manager's map and list. **MCJobs** gives `after`, the number a client says
  it has seen, its values for TLC. **JobsProofs**: theorems about Jobs.
- **Places**: some entries of a sequence by their places, for the loops that
  skip entries (what a stream is sent of a log, who is on a list of proxies).
- **AtomicStore**: what `Store` promises of `master.json`, as sets of updates.
- **MasterStore**: `NewStore`, `Snapshot`, `Update` and `saveLocked`, one step
  per system call. `mem` is `Store.state`, `save` is the `Update` that holds
  `Store.mu` with the place it stands at, `temp` is the temporary file, `file`
  is what `master.json` shows to the system, `entry` what it would be after a
  power failure, `phase` whether Master runs. It implements AtomicStore under
  the mapping `memory <- mem` (what the disk has while Master is down),
  `disk <- file.doc`. **MasterStoreProofs**: theorems about it.
- **Subscription**, **MCSubscription**: the list of proxies as a function of the
  document, and the operations that change the document.
  **SubscriptionProofs**: theorems about it.
- **Lifecycle**, **MCLifecycle**: the processes that run `main`, the pid file,
  and calls of the init script. `proc[p]` is how far `main` has come,
  `memory[p]` and `disk` are versions of the document, `cmd`, `pc`, `pid` and
  `said` belong to a call of the script. `happened` is history.
  **LifecycleProofs**: theorems about it.
- **Panel**: the page as one operator uses it. `request[j]` is a POST,
  `follower[j]` is the `EventSource` or the polling that listens to its job,
  `dialog` is `job-dialog`, `form` is `server-dialog`, `input` is
  `state.retryServerInput`. `hurried` is history. **PanelProofs**: theorems
  about it.

ControlPlane and Jobs meet at the goroutine of a job: ControlPlane has what it
does to the store and the Slaves and only whether it warned, Jobs has what it
logs and how it ends, with the work itself left open (any events, any scripts,
either end). ControlPlane and MasterStore meet at `Update`: `Save` and `Crash`
of ControlPlane are the steps of AtomicStore (done and acknowledged; failed with
the disk untouched or already written; restart), which MasterStore implements.
Panel and Jobs meet at the event stream: Jobs has what a stream carries and
when it ends, Panel takes it as a stream that brings the verdict or breaks.
Subscription and ControlPlane meet at the document, of which Subscription keeps
the order of the servers and the URIs that ControlPlane leaves out. Lifecycle
takes the store as one version number.

ControlPlane:

| code | actions |
| --- | --- |
| handlers that start jobs | `Submit` (with the look-ups two of them make first), then `Begin*`, which takes `operationMu` and the job's first snapshot |
| `handleUpdateServer` | `Rename` |
| `createUser`, `retryUser` | `BeginCreate`/`BeginRetry`, `StoreUser`, then `ensureUserOnServer` for each server |
| `ensureUserOnServer` | `Registered`, or `Conflict` then `Adopt`, or `RegisterFails`; then `SetUserLink` |
| `deleteUser` | `BeginDelete`, `DropUser`, per server `Listed`/`ListFails`, `Removed`/`RemoveFails`, `RemoveDone` |
| `fullSync` | `BeginSync`; per server `Listed`/`ListFails`; per user `SyncUser` and its duplicates, or `ensureUserOnServer`; `EnsureDone` collects the extras; `SetServerStatus` |
| `provisionServer` | `BeginProvision`, `SetUp`/`SetupFails`, `StoreServer`, `ensureUserOnServer` per user, `SetServerStatus` |
| `cleanupFailedServer` | `BeginCleanup`, `TornDown`/`TeardownFails` |
| `deleteServer` | `BeginDrop`, `TornDown`/`TeardownFails`, `DropServer` |
| deferred `Unlock`, end of the goroutine | `Unlock` |
| kill and start | `Crash` |

Jobs:

| code | actions |
| --- | --- |
| `JobManager.Start` | `Start`, then `Begin` in the goroutine |
| `JobReporter.Log`, `Warning`, `Job.append` | `Log`, with `Report` for what `append` does under the lock |
| `runSSHCommand`, `streamSSHOutput` | `RunScript`, `ReadLine`, `ReaderFails`, `ReaderEnds`, `ScriptEnds` |
| `success` | `Succeed` (the look at `hasWarnings`), then `Conclude` (`finish`) |
| `fail` | `Fail` |
| `handleJobEvents`, `Subscribe`, its `cancel` | `Find`, `Subscribe`, `WritePast`, `WriteNew`, `EndStream`, `Leave` |

MasterStore:

| code | actions |
| --- | --- |
| `NewStore` | `Load` |
| `Snapshot` | `Snapshot` |
| `Update` | `Update` (takes `Store.mu`, the callback on a clone), `Rejected`, `Commit`, `Answer` |
| `saveLocked` | `Create`, `Encode`, `SyncAndClose`, `Rename`, then `Commit`; `Abort` where a call fails, `HalfDone` when the `chmod` fails |
| the system | `WriteBack` of directory entries, in any order with the data of files that were not synced; `Kill`; `PowerCut` |

Subscription:

| code | definitions |
| --- | --- |
| `buildMihomoProvider` | `Provider`, with `ListAfter` for its loop, `List` for the loop's body and `Number` for `usedNames` |
| `serverDisplayName` | `DisplayName` |
| `parseVLESSReality`, `writeMihomoProxy` | `Parses` (no error), `Proxy` (what is written, with its defaults) |
| operations on the document | `CreateUser`, `DeleteUser`, `ProvisionServer`, `ForgetServer`, `RenameServer`, `SetLink` |

Lifecycle:

| code | actions |
| --- | --- |
| `main` | `Load` (which saves a first document where there is none), `Listen`, `EmptyPid` and `WritePid` (`os.WriteFile` empties the file first), `Serve`, `Close` (`Shutdown`), `RemovePid` (the deferred `Remove`), `Exit`; `Save` by its handlers and jobs at any time |
| `is_running` | `ReadPid`, `Check` |
| `start` | `Fork`, `ScriptWritesPid`, `Started` one second later |
| `stop` | `Terminate`, `Wait` (the process has ended, or `kill -9`), `ScriptRemovesPid`, which is all where nothing runs; what it prints ("stopped", "not running") is `StopEnds`, and `restart` goes on with `start` |
| `case` at the end of the script | `Run`, also while another call is at work: the script takes no lock |
| everything else | `Kill`, `Reboot`, `HandStart` (the binary without the script), `Reuse` (of a process id) |

Panel:

| code | actions |
| --- | --- |
| `openNewServerDialog`, `openServerRetryDialog` | `OpenNew`, `Retry` |
| `submitServer`, `cleanupFailedServer` up to the await | `SubmitServer`, `CleanUp` |
| `submitUser`, `retryUser`, `deleteUser`, `performServerDelete`, `syncAll` | `AskOther` |
| the answer or the failure of a POST | `Answer` (with `followJob`), `CallFails` (with the `catch` of `cleanupFailedServer`) |
| `onmessage` with a status, `finishJob` | `StreamEnds` |
| `onerror`, `pollJob` | `OnError`; `PollEnds`, `PollFails` |
| closing buttons, Esc | `CloseForm`, `CloseJob` |
| Master and the network | `Begin`, `End`, `Restart`, `Break` |

Each critical section of `job.mu` is a step, and each event a stream writes.
Texts, redaction, time stamps and keep-alives are left out; an event is its
number and its kind.

Each call to a Slave, each script and each `Store.Update` is a step of its own;
what a goroutine does between two of them touches nothing shared and belongs to
the step before. `Update` tries the callback on the current document and ends in
`Save`: done, failed with nothing changed, or failed (or killed) after the
rename with the new document on disk only ("limbo": the `chmod` at
`store.go:107`, or death before the assignment).

Abstractions. Requests arrive normalized and valid. Loops take their elements
in any order, and `Adopt` any matching record for the first of `/list`. A client
asks for the clean-up only where the panel offers it (`CleanupShown`);
`handleCleanupServer` itself would take it at any time, from any client. Keys, tokens, passwords, URIs, time stamps, texts and the
progress log are left out; a record on a Slave is a number and a name, and a
smaller number is older. A Slave answers `/register` with 409 for a name that
matches up to case, and setting up a VPS again keeps its records. Two identical
calls on their way at once count as one. `Fresh` draws an id no entry and no
deleted entry ever had: the ids are 128 random bits.

## Runs

The runs of ControlPlane use two operations at once or one operation beside renames, and a
finite pool of ids, whose exhaustion is a failing `randomID` (`NoId`). TLC
explores every reachable state of the instance; nothing but `MaxClients`
(records the Slaves give out) and `MaxLate` (calls on their way) cuts
behaviours off, and both only make the Slave fail more often or time out less.

| run | question | instance |
| --- | --- | --- |
| `users` | Does a job without warnings keep its promise, and does a job queued behind a deletion bring a client back? | 2 jobs, 2 user ids, 1 server, two spellings of one name, failing saves, one late call |
| `sync` | Is a full sync without warnings authoritative? | 2 jobs; a Slave with a duplicate older than the linked record and a foreign client; late calls, crashes |
| `saves` | Is a rename ever lost, and does any job remove a client a ready link points to, when saves fail on either side of the rename of the file? | 1 job, 1 user, the same Slave, 2 server ids, 2 names, every save fault, crashes |
| `servers` | Do the documents stay consistent, is the lock held by one job, do deletions last? | 2 jobs, 2 VPS that ask for one domain, 2 server ids, limbo saves, crashes |
| `live` | Does every job get `operationMu` and end? | 2 jobs, failing saves, crashes; `FairSpec` |
| `cleanup` | Does the clean-up of a failed installation spare registered servers? (violated) | 2 jobs, 1 VPS |
| `sync_unsaved` | The question of `sync` with failing saves (violated) | as `sync`, `save` faults |
| `jobs` | Does a follower see every event once and in order, with the status last? Do jobs implement JobLife? Do the manager's tables agree? Does every stream of an ended job end? | 2 jobs, a manager for 1, logs of 2 events, a channel with 1 slot, 3 events per job before its status; `FairSpec` of Jobs |
| `store` | Does the save protocol implement AtomicStore, is `master.json` always whole, what does a power failure take back, does Master come up again? | 3 updates, failing system calls, kills, power failures; `FairSpec` of MasterStore |
| `subscription` | Is the list what its definition says, complete and with distinct names? Whose proxies does a change move? | 3 servers, names with one that looks like a numbered name, 12 links to one server that are odd each in its own way |
| `lifecycle` | Can two Masters save over each other, does the pid file tell the truth, is what the script says so? | Whom does a call take for Master? | 2 calls of the script, in a row or at once, 3 processes, 2 saves, at most 3 of: kills, reboots, starts by hand, reused ids, overlapping calls |
| `panel` | Does the dialog tell of its own job, what does it offer, can it always be closed in the end? | 2 requests, 2 servers, failing calls, broken streams, restarts; `FairSpec` of Panel |

In `jobs` the capacities 100, 2000 and 64 are 1, 2 and 1, so that eviction,
trimming and a full channel all happen within the `MaxEvents` events a job may
log; nothing in the code depends on the numbers. `after` is a negative number,
one inside the log and one beyond every event: `handleJobEvents` takes any
`int64` (`server.go:274`), uses it to pick among the events that are kept and
not for those that come through the channel. So `FollowersMissNothing` counts as
seen (`Seen`) what lies between 0 and the last event there was when the stream
subscribed, and a client that names a later event gets it nevertheless.

In ControlPlane two jobs are enough for what one job does to another, because only one is past
`operationMu` and the other has kept nothing but its request; two ids let an
entry be deleted and another take its place; two records of one name are the
smallest duplicate; one late call is the smallest one that can land at every
moment. Larger pools repeat these situations.

In `store` three updates let one succeed, one fail and one be under way. In
`subscription` three servers are what the numbering needs (two namesakes and a
third between or beside them), and a broken link before, between and after
them. In `lifecycle` a start and a restart bring up two Masters, one of which
ends while the other begins, and a third process is left for one that is
started by hand; the first document and one update after it tell an old
memory from a new one. `MaxTroubles` bounds how many kinds of trouble one run
has: any three of the five, each as often as the processes allow. Every property
has a condition on some of the kinds or concerns one process that starts beside
another, and `LifecycleProofs` shows all of them for any number. In `panel` two
requests are two followers of one dialog; `PanelProofs` shows the invariants
for any number.

Five properties of `lifecycle` and two of `panel` have a condition, kept as a
history variable, because the code promises no more:

- `Undisturbed`: Master has been started by the script alone, by one call after
  the other, and no call has read the pid file just when `main` was writing it.
  A Master that somebody starts by hand while `stop` is at work may lose its pid
  file: `stop` removes the file whatever is in it by then
  (`register-initd.sh:78`, `:91`), and so does the Master that is ending
  (`main.go:46`). Two calls of `start` at once may both find nothing and run the
  binary; the one whose process finds the port taken removes the pid file of the
  other (`:69`). And a call that comes when `os.WriteFile` has emptied the file
  (`main.go:42`) finds no Master and does the same. In each case the script then
  says of a Master that serves that it is not running. `PidFileKept` and
  `TypeOK` have no condition. `StartSucceeds` also leaves out that somebody kills
  the Master that has just been started.
- `Orderly`, for `StrangersSpared`: besides, no Master was killed and the machine
  did not reboot; process ids are used again all the same. A killed Master leaves
  its pid file behind, and when the system gives its number to another program,
  `start` says "already running" (`is_running` looks for any process, `:55`) and
  `stop` ends that program. `StrangersSpared` shows that this is the only way:
  after every orderly stop, also one that had to kill Master after twenty
  seconds, no pid file is left that could name a stranger. It speaks of whom a
  call finds; a process id that is used again during those twenty seconds is
  beyond the script (`:88-89`).
- `~hurried` (the operator has waited for answers and has not pressed Esc on a
  dialog whose buttons are disabled). An operator who closes the dialog with
  Esc while a clean-up is being requested, starts another installation, and
  whose clean-up request then fails, is offered the clean-up of the
  installation that is running (`app.js:214` shows the button in whatever the
  dialog shows by then, and it sends what `state.retryServerInput` holds by
  then). `NeverStuck` has no condition.

`NamesDistinct` leaves out one case: with servers named A, A and "A (2)" the
list has two proxies "A (2)", because `usedNames` counts display names and not
the names that are written (`mihomo.go:571`).

Deadlock is checked in every run of ControlPlane: in each state some step can
be taken (an operator may always submit, a waiting job gets a free lock), and in
`store`, `subscription` and `panel`. It is not checked in Jobs and Lifecycle,
whose finite pools of jobs, requests, calls and processes may all be used up.

### Fairness

`FairSpec` assumes weak fairness of `Work(j)`: a goroutine that can go on does,
each call to a Slave ends within its 25 s time-out (`slave.go:36`), the store is
local I/O. It assumes strong fairness of `BeginJob(j)`: other jobs may take
`operationMu` again and again while `j` waits, and `sync.Mutex` hands over in
order once a waiter has waited 1 ms. Nothing is assumed of scripts over SSH:
`runSSHCommand` has no time-out, so `JobsEnd` has the exception "or a script
hangs for ever". Nothing is assumed of operators, late
calls or crashes.

`FairSpec` of Jobs assumes weak fairness of each handler (`Handle(f)`: it writes
what it has, and returns when its channel is closed and empty). Nothing is
assumed of jobs, scripts or clients, so `StreamsEnd` begins where a job has
ended.

`FairSpec` of MasterStore assumes weak fairness of `Load` (whoever runs Master
starts it again after a kill or a power failure) and of `SaveStep` (a thread
inside `saveLocked` goes on: its calls return). Nothing is assumed of updates,
faults or the write-back.

`FairSpec` of Panel assumes weak fairness of each handler of the page and of
`Begin` (Master takes up a request that reached it). No job has to end and no
operator to act, so `NeverStuck` speaks of dialogs whose job does not run.

### What the violated runs show

- `cleanup`: `cleanupFailedServer` does not look whether the address belongs to
  a registered server. A second request for a registered VPS fails with
  "already exists", the panel takes that for a failed installation and offers
  the clean-up, and the clean-up uninstalls the Slave of the registered server.
- `sync_unsaved`: `fullSync` drops the error of `setUserLink` (`operations.go:410`).
  The job ends in success while the link does not name the record it kept.

## Proofs

Everything in `ControlPlaneProofs` holds for every value of the constants that
satisfies the ASSUMEs of `MasterState` and `ControlPlane`: any number of jobs,
users, servers and Slaves, any requests, any combination of faults.

- `TypeCorrect`: `TypeOK` in every state. `TypeOK` alone is not inductive: a
  step looks a name or an address up in the job's snapshot, which has a value of
  the right type only if the target is an entry of that snapshot. `Sound` says
  so for each place a job may stand at, and `TypeInv` is `TypeOK` with `Sound`
  of every frame.
- `MutualExclusion`: the job past `operationMu.Lock` is the holder. Every step
  other than `Begin*`, `Unlock` and `Crash` leaves the holder and the other
  jobs' frames alone (`WorkKeepsLock`).

`ConsistencyProofs` builds on that:

- `Consistency`: both documents are `Consistent` in every state. A job works
  from an old snapshot, so its updates must be right on documents it has never
  seen. Each step either leaves the documents, or reloads memory from disk, or
  applies one of the seven edits of MasterState to memory (`StepEdits`), and
  each edit keeps a consistent document consistent. Only `setUserLink` does not
  look whether its server still exists; that it does follows from mutual
  exclusion, because only the holder of `operationMu` removes servers and it
  took its snapshot after it got the lock (`KnownInv`).
- `DeletionsLast`: a deleted id is in neither document again. No edit adds an
  id except those of `Fresh`, which are neither in a document nor deleted, and a
  deletion is acknowledged only when both documents have it.
- `RenamesLast`: the names an operator may expect cover those in both
  documents, since every edit but the rename and the new entry keeps the name
  that the current document has.

`SlaveProofs` says what jobs leave on the Slaves. A job works from a snapshot, a
list and answers that are all out of date, beside late calls, renames, failing
saves and crashes. What it may still rely on is that no other job is past
`operationMu`. The inductive invariant has four layers:

1. `SnapshotInv`: the users and the addresses of the servers in the job's
   snapshot are those of memory, but for what the job itself has changed, and
   `Course` says which loop it is in and what is left of it.
2. `LinkInv`: record numbers are unique, a ready link leads to a record of its
   user if to any (in both documents: memory may be reloaded), the record a job
   is about to link is its user's, what a full sync has listed is what the Slave
   has under those numbers, and no record a job is about to remove is linked.
3. `PromiseInv`: every pair a create, retry or provision was asked for is still
   to do or served, as long as nothing was warned of; every server a delete has
   behind it has no record of the profile left.
4. `SyncInv`: how far a full sync is with the server it is at, and that the ones
   behind it have the linked records and no others.

- `NoStrays` (from layer 1): a job never registers anybody for a user or on a
  server that a deletion has taken away, though it was queued behind the
  deletion.
- `LiveClientsStay` (layer 2): no job removes a record a ready link leads to.
  Without the second document in `LinkInv` a crash would break it, and without
  `VictimsUnlinked` the sync that goes on after a failed `setUserLink`.
- `QuietJobsKeepTheirWord`, `DeletesAreComplete` (layer 3).
- `SyncsAreAuthoritative` (layer 4) has the hypothesis that saves of the
  document succeed: `fullSync` ignores a failed `setUserLink`, and the run
  `sync_unsaved` shows that the conclusion is then false. It allows late calls,
  unreachable Slaves, renames and crashes.

`SlaveProofs` needs that the initial documents and Slaves are such as Master
leaves behind, which `InitialAssumption` of ControlPlane states: numbers of
records are unique and below the next one, and a ready link leads to a record of
its user, if to any. The instances with Slaves that are not empty satisfy it.

`JobsProofs` holds for any number of jobs and streams and any capacities:

- `JobsImplementLife`: `Spec => LifeSpec`. A step changes one job, and only as
  JobLife allows (`Moves`). The invariant `JobSound` ties the status to the
  place of the goroutine; what it is needed for is that no reader of a script
  is left when the goroutine looks for warnings, so that none is logged between
  the look and the status.
- `ManagerTables`: `ManagerAgrees` in every state, because an id is listed only
  once it was started (`Started`) and is started once.
- `StreamsMissNothing` (whatever integer a client names as `after`),
  `StreamsKeepOrder`, `StatusEndsStreams`, `JobTypes`. Their invariant `StreamInv` says of a log that its events are the job's last ones
  (all of them, until it is trimmed) with the status at the end, if there is one
  (`LogSound`), and of a stream that what it has written, has copied and has in
  its channel make one sequence that goes up to the job's last event, without a
  gap unless an event was lost to a full channel (`DueSound`).

`MasterStoreProofs` holds for any set of updates and any faults:

- `NeverTorn`: `master.json` is whole for the system and after a power failure.
  What the directory can name is the old file or one that was synced and closed
  before the rename.
- `SeenStays`, `StoreIsAtomic`: `Spec => AtomicSpec`. The invariant says for
  each place in `saveLocked` what the temporary file, the file and memory hold;
  the interesting step is `Rename`, which maps to `Write`, while `Commit` maps
  to `Acknowledge`.
- `NeverAGap`: what a power failure leaves on disk is one of the documents that
  the disk has held since the last one (`past`), and each of them has, with an
  update that succeeded, those that had succeeded before it (`before`).

`LifecycleProofs` holds for any number of processes and calls:

- `LifecycleTypes`, `PidFileStays` hold whatever happens: one process has the
  port, and a process takes the pid file only after the port.
- `SavesAreFresh`, `PidFileNames`, `StopMeansStopped`, `StartsComeUp` under
  `Undisturbed`. The invariant `Inv` gives, for each place a call
  of the script may stand at, what it knows (`Where`): which Masters can live
  and what the pid file holds. There is never more than one Master
  (`OneMaster`), because `start` runs the binary only where none lives, and
  `stop` goes on only when the one it told to end is gone. `Going` adds that the
  Master a start has begun comes up.
- `OnlyMastersFound`: `StrangersSpared`, under `Orderly`. The invariant `Tidy`
  adds to `Inv` that the pid file names a living Master or none, except while a
  call is about to remove it. It needs `Going`: a start that has given up would
  leave the number of a process that has ended.

`PanelProofs` holds for any number of requests and servers and any faults:
`PanelTypes`, and under `~hurried` `VerdictIsTrue` and `OfferIsTrue`. The
verdict and the offer are written into one dialog by whichever follower ends.
What makes them true is that a follower has the dialog to itself (`Alone`): it
is open under its job's title, nothing in it can be pressed, and no request
waits. `Pending` says the same of a clean-up that has been asked for.

`SubscriptionProofs` holds for any number of users and servers, any names and
any links:

- `DocumentTypes`: servers are listed once, and links lead from users to servers
  that exist.
- `ListIsAsDefined`: the loop gives what the definition without a loop says. The
  loop is a recursive function of the number of servers it has read, so this is
  an induction over data. It rests on `LeastNumber` (every set of numbers has a
  least one) in place of an induction rule that takes a predicate: `ListDefined`
  shows that the recursion has a solution, `CollectedMore` that the loop's body
  takes what n servers give to what n+1 give, and `ListCollects` joins them.
- `NamesTellServersApart`, `ListIsComplete` follow from the definition: namesakes
  have different numbers (`NamesakesDiffer`), and a number can be told from a
  name (`NumbersTellApart`).
- `OnlyNamesakesAreRenumbered`: `OnlyNamesakesMove`. The servers that stay keep
  their order (`OrderKept`), untouched ones keep their namesakes
  (`EntriesKept`), and what keeps an order keeps the numbers of the places
  (`Renumbered`).

Model-checked only: liveness (`JobsEnd`, `StreamsEnd`, `ComesUp`, `NeverStuck`),
because ENABLED and fairness are out of the prover's reach. Everything else the
passing runs check is also a theorem.

## Plan

All components that keep state are modelled, and every safety property a run
checks is proved. What is left, most useful first:

1. A specification of `Store` with one step per `Update`, which AtomicStore
   implements and whose steps ControlPlane's `Save` and `Crash` are, in place of
   the correspondence described above.
2. The event stream as Panel sees it (it brings the verdict or breaks), as an
   abstraction that Jobs implements.

## Not modelled

- `config.go` reads the environment and `.env` once, before anything else runs;
  all it can do is to stop `main`.
- `util.go`: the parsing of addresses, domains and fingerprints is pure string
  functions; requests enter the models normalized. Random ids are fresh values.
- `mihomo.go`: the profile around the provider and the rule lists are constant
  text. How a URI is parsed into its parts is `net/url`; which parts are
  accepted is modelled.
- TLS pinning, SSH key handling and fingerprints: cryptography.
- `server.go`: routing, decoding of requests, the overview and the poll of a
  job, which only read. `register-initd.sh`: the installation of the script
  itself, and `status`, which only reads.
- The panel's rendering, the rename dialog and the clipboard, which start no
  job.
- Files `.master.json.*` that a kill between `CreateTemp` and `Rename` leaves
  behind: nothing reads them.
- `scripts/build.sh`, `go.mod`: packaging.
