# A verification of the download manager's headless service

This directory holds TLA+ modules for the Python service in
`headless/src/hermes_downloads/`, the part of the repository that owns
downloads: configurations that check the modules with TLC on small instances,
and theorems about them that TLAPS proves for all instances. `PROJECT.json`
lists components, runs, hazards, theorems, and for every definition the lines
of code it stands for. Paths below are relative to the repository; `store.py`
means `headless/src/hermes_downloads/store.py`, and so on.

1. The system
2. What is hard
3. Modules and how they correspond to the code
4. Runs
5. Bounds, symmetry, fairness
6. Proofs
7. Disagreements met while modelling
8. Not modelled, and abstractions
9. What could come next

## 1. The system

A worker process serves commands on a Unix socket, keeps all durable state in
one SQLite database, drives aria2 engines over RPC, and turns a verified
partial file into a final file by `link()`. It may be killed at any moment; the
next worker continues from the database, the files and, possibly, an aria2
process that survived.

| Component | State it keeps | Operations | Talks to | What makes it correct |
|---|---|---|---|---|
| Durable store, direct path (`store.py`) | jobs and their materialized rows, queue gate, worker epoch, dispatch receipts, publication attempts, staged and final bindings, engine claim, cleanup claim | one SQLite transaction per operation | called by the worker's main thread only | no plan outlives the row, receipt or epoch it was made for; one body at a time; completion only with proof; answers stand |
| Worker loop and observer (`worker.py`) | `_DirectOwner`: controller, active plans, permit, cancel flag, the observer thread, the process-wide observer lane | serve one request, poll: reap an observation, launch the next | store, aria2 controller, paths | what it acknowledged is true of engine and files; nothing at work is untracked; it never waits for ever |
| Publication of files (`paths.py`) | partial, final and marker files; creation permit | `prepare_publication_payload`, `publish`, revalidation | observer thread and main thread share the permit | a final name is never created after a stop was acknowledged |
| aria2 controller (`direct.py`) | engine process and capability, GIDs | activate, add paused, resume, observe, close | worker | an engine always has a durable trace |
| Cleanup of published partials (`paths.py`, `worker.py`) | cleanup claim phases, unlink permits | remove aliases, partial, marker | store, observer | every intermediate directory is resumable; a replacement is never unlinked |
| Target dispatch (`store.py`, `worker.py`) | target authorizations, cohorts, rounds, preemption records | authorize, dispatch members, withdraw | several owners | a control between two members withdraws the rest |
| Retry authority (`retry.py`) | retry budget, audit trail | decide, pause, reopen, fence | store | attempts are neither lost nor counted twice; old generations decide nothing |
| Notification outbox (`store.py`, `plugin.js`) | outbox rows, claims, 30 s leases | claim, presented, released | dashboard consumers | presented at most once per live claim; nothing is lost |
| Command receipts (`store.py`, `ipc.py`) | command rows, request digests | apply command, replay | every client | a retried command has its first answer and no second effect |
| Bandwidth (`bandwidth.py`, `worker.py`) | desired and applied shares | allocate, apply | all owners | shares never sum above the limit |
| Process supervision (`processes.py`) | process identities | start, probe, terminate | aria2 controller | never signals a process it did not start |
| Worker lease, endpoint (`worker.py`, `endpoint_ownership.py`) | lease file, endpoint record, socket | preflight, reclaim, publish, clear | other worker processes | one worker at a time; only an attributed socket is unlinked |
| Legacy queue (`queue.py`) | in-memory jobs | add, control, gate | early tests | gate and hold respected |
| Edits, source replacement, purge, continuations | job specification, saved continuation | fenced edits | store, worker | an edit is not lost and not applied to a moving transfer |
| Legacy publication reconciliation | rows of older databases | bind, reconcile | store, paths | only proven payloads are completed |
| Network, models (`network.py`, `models.py`) | none | validation | everything | - |
| MCP server, CLI, dashboard plug-in, service | none of their own | translate to IPC commands | IPC | - |
| Installer (`headless/scripts/install.py`) | staged copies, previous installation | stage, swap, roll back | file system | interrupted installs roll back |
| macOS application (`Sources/`) | its own queue and segments | Swift download controller | browser extensions | segments cover the file once |
| Native host, browser extensions | none | forward a link | application | - |

How a direct download goes through the modelled parts:

1. `job_add` stores a queued job; `start_now` authorizes it.
2. `direct_engine_activate` writes a fence, launches aria2, records the process
   and then its capability: four steps with a crash possible between any two.
3. `direct_job_dispatch` admits the job under a fresh request (job `resolving`,
   receipt `pending`), adds the transfer paused, advances the job to
   `downloading`, resumes the engine, and settles the receipt as `started`.
4. The poll at the end of each loop turn launches one observer thread at a
   time: terminal readback, then `FinalizeTerminal` (`finalizing`); staging
   check, then the partial's inode is bound; hashing, then a publication attempt
   is reserved; `link()` and verification, then `complete_direct_publication`.
5. Pause, removal, queue pause and shutdown contain the transfer: revoke the
   permit, stop the engine, commit, clear the claim.
6. After a stop in the middle of a publication the attempt may survive as
   `eligible`; a later dispatch request recovers it without any engine.
7. A cold start raises the epoch, pauses the gate and every open job, raises
   their generation and revision, and carries or closes the attempts.

## 2. What is hard

* **Interleaving.** The main thread and one observer thread share the permit,
  the cancel flag and the result queue; aria2 and other programs change files
  under both. Commands arrive between launching an observation and reaping it.
* **Fencing.** Plans are captured by (generation, revision, state) and used
  after RPCs, hashes and other commands; pointers from attempts to rows must be
  moved by every transaction that moves a row.
* **Partial failure.** A containment kills the engine before it knows whether
  its transaction commits; a refused recovery needs a second transaction.
* **Crash and restart** between any two transactions, with the engine alive.
* **Liveness.** A publication whose observation fails, is revoked or is
  outrun must still end.
* **Boundaries.** Counters saturate at `_MAX_COUNTER` and must refuse before
  they write.

`PROJECT.json` lists the hazards, each at its line and with the properties
that cover it, or the reason why none does.

## 3. Modules and how they correspond to the code

| Module | Role |
|---|---|
| `DirectStore` | the tables a direct transfer touches; one action per transaction; callers arbitrary |
| `DirectWorker` | extends it with the owner, observer, engine, files, shutdown, crash, cold start |
| `DownloadPromise` | what a user is promised about a job and its final name |
| `WorkerEndpoint` | lease, socket, endpoint record and epoch of several worker processes |
| `EngineClaim` | the durable claims of aria2 daemons, singleton and private, from reservation to cold recovery |
| `RetryBudget` | the audited retry budget of a job and every transaction that reads or replaces it |
| `AuthorizationRounds` | target commands, heads, rounds, captured starts, completion events |
| `CommandReceipts` | the receipt registries of all command surfaces and their replay |
| `NotificationDelivery` | outbox claims and leases, and the Desktop window that shows an event |
| `CleanupClaim` | removal of retained aliases, partial and marker after a completion |
| `Bandwidth` | allocation of the global limit and its redistribution, call by call |
| `SavedResume` | checkpoints of a stopped body, the preparation of its continuation, edits |
| `DirectWorkerProofs` | of the store: types, row lemmas, hold, one body, publication authority, fences, answers, completion, what backs the work; of the worker: it takes the store's transactions only; engine, body, link; the refinement of `DownloadPromise` |
| `LeaseProofs` | of `WorkerEndpoint`: one owner, reachable server, certifiable record; of `NotificationDelivery`: an event is shown under the claim that marks it, claims stand |
| `CleanupClaimProofs` | claim and names agree, removals are authorized |
| `EngineClaimProofs` | claims are exact, daemons fit |
| `BudgetProofs` | of `RetryBudget`: work has an open budget, retries wait their turn and are bounded, every audit proves its budget; of `Bandwidth`: allocations are fair, engines stay within a limit in force |
| `SavedResumeProofs` | the sealed bytes survive, no operation of a preparation comes after a control |
| `AuthorizationRoundsProofs` | rows can be read, completions are announced once, captured starts yield |
| `CommandReceiptsProofs` | one effect and one answer per command, destinations shared only by an edit, fenced edits |
| `MC*` | instances, command and cohort definitions, symmetry sets for TLC |

`DirectWorker` extends `DirectStore` and composes it with the worker; it
implements `DownloadPromise`. The other modules are each a component with its
callers in one module: what they need of another component is one of their
actions, named below, so that they can be checked with bounds of their own.

### DirectStore

Every transaction runs under `BEGIN IMMEDIATE` on one connection and commits
whole or rolls back; so each is one action, and a refusal that writes nothing is
a disabled action. A refusal that does write (a `blocked` or `stale` receipt) is
`RefuseDispatch`.

| Variable | Table or setting |
|---|---|
| `job` | `jobs` joined with `materialized_jobs`: generation, revision, state, `authorized`/`start_now_requested` as `auth`, user hold as `hold` |
| `gate`, `epoch` | settings `queue_gate`, `worker_epoch` |
| `receipt` | `direct_dispatch_commands`: status and the (generation, revision, state) of its answer |
| `attempt`, `retired` | `direct_publication_attempts`, `closed_direct_publication_attempts` |
| `staged`, `published` | the inodes bound for the partial and the final file |
| `claim` | activation fence, engine record, recovery capability, in the order they are written |
| `cleanup` | `direct_cleanup_claims`, its phase and activation epoch |

`auth` is one flag: both columns are set together by `start_now` and read
together by `prepare_direct_dispatch`. `AdvancePointers` is
`_advance_publication_pointer`, which every transaction that moves a row must
call: controls, the gate, `pause_active_direct_job` and the cold start.

### DirectWorker

`pc` is what the worker thread is doing. At `main` it may serve one request; at
`poll` it reaps or launches. A handler with several transactions has pc values
of its own (`fenced`, `bound`; `resolved`, `added`, `advanced`, `resumed`;
`unrecover`; `withdraw`, the abort of another job's recovery when a controller is
closed; `retire`; `stopping`, `stopped`), so that observer, engine, file
system and crash can fall between them while no other command can: the loop is
single-threaded. `own` is the `_DirectOwner`; `obs` the observer thread with its
result; `engine` the aria2 process; `disk` the two names of each job.

A step conjoins at most one `DirectStore` action, which is how the worker is
shown to use the store: `DirectWorker` has no other way to change a table.

| Actions | Code |
|---|---|
| `ServeContainedControl`, `ServeGatePause`, `CloseOwned`, `Retire`, `RetireAfterObserver` | `job_control`, `queue_gate`, `close_owned_direct_controller` |
| `RefuseInFlight`, `Revoked`, `Withdrawn`, `Recoverable` | `revoke_publication` and the creation permit of `paths.py` |
| `Activate*` | `direct_engine_activate` and its callbacks |
| `ServeDispatch`, `Dispatch*`, `ServeRecovery*` | `direct_job_dispatch`, `execute_prepared_dispatch` |
| `Launch*`, `Reap*`, `PollIdle` | `poll_direct_terminal` |
| `Observe*`, `Publish*` | the observer thread's functions in `direct.py` and `paths.py` |
| `Shutdown*`, `Die`, `Crash`, `ColdStart`, `RecoverEngine` | `shutdown`, exceptions that leave `run_worker`, `_recover_cold_direct_engine` |

`link()` is two steps, `PublishEnter` (the permit is taken) and `PublishLink`,
with everything else allowed between: this is the window in which
`revoke_publication` refuses a command. `NoRow` is Python's `None`:
`NoRowIsNoRecord` and `WorkerAssumption` say that it is no plan, publication,
permit, observer, body or job.

### DownloadPromise

It sees only `stage` (absent, open, removed, completed) and `final` (none,
ours, foreign) of a job. The service may create a final file only for an open
job and only where there is none, may report completion only while its file is
there, and removed and completed are final; anybody else may change the final
name, but not create *our* file. `DirectWorker!KeepsPromise` is the refinement,
with `StageOf` and `FinalOf` as the mapping. "Ours" means the very inode that
was bound to the job, so completing over a foreign or replaced file is not a
step of the promise.

### WorkerEndpoint

`DirectWorker` assumes one worker at a time; this module shows where that comes
from. Each process walks through `run_worker`: preflight without the lease in
three readings (`ReadRecord`, `ReadSocket`, `ReadEpoch`), the `flock`, the
repeated certification and `Reclaim`, `ColdStart`, `Bind`, `Identify`, `Publish`,
then `Close`, `Clear`, `Release`; `Kill` can fall anywhere, and a process that
only boots (`worker.main`) goes from the lease straight to its cold start. Socket
inodes are reused after an unlink. `ColdStart` is `DirectStore!RecoverCold` seen
from outside; the two modules share no state.

A start may be refused for good: after a worker was killed between its cold
start and the publication of its record, the old record, if there was one, names
an earlier epoch, and after a kill between bind and publication there is a socket
no record describes. `endpoint_ownership.py` calls the second deliberate; the
first, which an interrupted restart or a boot without serving after a kill can
both produce, follows from the same rule. `RecordedIsCertifiable` says
there is no other way for a record to keep a worker out.

### EngineClaim

`DirectWorker` has one engine and one owner. Here every slot (the legacy
singleton, or one job's private engine) has a claim row, an owner's controller
and at most one handler of the owner loop in progress (`act`). `Reserve`,
`Spawn`, `Bind`, `Answer` are the steps of an activation
(`reserve_direct_engine_activation`, `reserve_job_engine`, `on_engine_bound`,
the capability), each of which may fail into `Stop`; `Close` and its callers
stop the group and clear the claim, or leave `closing` when the observer still
runs (`close_after_observer`, `ReapClosing`). `Discard` reaps an engine that
died by itself. The operating system is `eng`: a daemon's group number is
recycled once it is gone, so reading an identity may be `indeterminate`. After
a crash the next worker examines each old claim (`ColdShut`, `ColdRetire`,
`ColdBlock`). A fence without a birth, or a legacy record without a capability,
blocks this worker for its life: that is the code's decision
(`tests/integration/test_recovery.py:555`), and `ClaimsAreExact` says there is
no other reason to be blocked.

### RetryBudget

One job with its budget, its audit and the typed failure of its latest body.
Captured revisions are only compared for equality, so each is the Boolean "is
still the job's own". `Decide` is `RetryAuthority.decide`; `FailBody`,
`DueRetry`, `Pause`, `Resume`, `OpenExplicitRetry`, `ResumeExplicitRetry` and
`ColdStart` are the store's transactions. `Replayed` is
`_validate_retry_audit`: the budget a whole audit proves.

### AuthorizationRounds

Jobs of several creation cohorts with their authorization heads and rounds.
`Target` is `authorize_target` with its per-member `Outcome`; `AcceptStart`
captures a start whose cohorts the poll applies one by one (`ApplyChild`,
`MarkCohort`, `SettleStart`, `BlockStart`), with every other transaction allowed
between two of them. `CloseRound` decides what a member's end announces.
`RoundMarkers` says that no client sends the identifier the store derives for a
captured cohort (`capture:` and a digest).

### CommandReceipts

A command is a record of surface, identifier and arguments. `Add`, `AddBatch`
(with the identifiers the store derives for its entries), `QueueGate`,
`JobControl`, `Dispatch`, `Configure`, `AcceptEdit` each look first for a
receipt to `Replay`. `ApplyEdit` and the settlement of a dispatch are later
transactions. An edit may move the job's destination (`Edited`), which is in force
from then on (`InForce`); nobody else's destination is looked at, whereas an add is
compared with the destinations jobs were added with (`DestinationFree`). Whether a
saved body may be moved along (`MayMove`) is left open. `Restart` raises the epoch between any two. `CommandsAssumption` is
what the decoders of the code guarantee of a command of each surface. The bound on
revisions leaves a pending dispatch room for the revision its settlement raises.

### NotificationDelivery

The store's `Claim` and `Settle` and the window's loop of `plugin.js`: `Wake`,
`ServeClaim`, `Show`, `ServeSettle`, `Settled`. A call may be given up after its
timeout (`GiveUp`), be served later all the same (`ServeLate`) or be lost; a
change of profile or gateway gives the window a new consumer (`Rescope`), whose
predecessor's late calls are a rival consumer. Time is counted in ticks of the
call timeout. `Fresh` is a claim token never used before (`uuid4` in the code);
`TokensSuffice` assumes that there are more of them than the calls the model's
bound allows, so that the choice is never of a used one.

### CleanupClaim

The durable claim, the worker's plan for it, and the observer thread that
unlinks name by name: `Check`, `Enter` (the permit), `Unlink`, `Attest`.
`Activate`, `Launch`, `Acknowledge`, `Settle` are the owner loop's steps;
`Ask`, `Arm`, `Consume` the requests that adopt a cleanup again after it was
interrupted. A second target resume of the same claim in one worker epoch is
refused (`store.py:5763`); a direct request or a new epoch works. Hashing and
directory chains are one fact, whether the final still is the published one.

A control reaches the cleanup in one of two ways. `Control` is a pause or removal of
the completed job, and a queue gate where a direct request completed it: it
withdraws the permits, and is refused before anything is written while an unlink is
in flight. `PauseQueue` is a queue pause where a target command completed the job
(`worker.py:1451-1495`): the gate is committed first, and if the unlink is in flight
or the thread does not join, the command is refused with the owner blocked
(`direct_recovery_blocked`) and what it was to stop kept
(`private_queue_operation`, here `held`). A blocked owner adopts, activates and
launches no cleanup until a pause is repeated with success (`NextPause`) or the
worker restarts. `engine` is one flag for everything `_require_cleanup_plan` and the
owner look at: a controller, the fence, the legacy record, the job's private engine
row (`store.py:5714-5717`).

The module has one owner. `OtherOwners` says whether others are at work beside it,
which matters to one thing only: whether a queue gate tells this owner (`Tells`).

### Bandwidth

`Allocate` is `bandwidth.allocate`: `LastRound` runs its loop (`NextRound` caps those
whom their part would exceed and takes their caps off the rest), the last round
divides what is left, and `Portion` gives the remainder to those who come first in the
worker's list, the candidate last (`Before`). A pass tells the engines one by one, the
lowered and the new ones before the raised ones (`Told`), in the two calls of each
(`SetGlobalLimit`, `SetAllocation`), any of which may fail and cost its transfer.
`Settings` is `apply_settings`, postponed while a stopped transfer is being
checkpointed. The direct-dispatch command (`LegacyDispatch`) never allocates and
runs without a share until the next pass, so `RatesHold` speaks of the transfers
that were given one.

### SavedResume

One job with an expected checksum. A stopped body leaves a payload and a control
file; `Seal` records their facts; `Resume` is a consent bound to that checkpoint;
a preparing thread links the originals under retained names, unlinks the visible
ones and copies them (`Effect`), reporting three phases through a mailbox that
the owner loop records (`PollPhase`); the next body runs on the copies.
Cancellation, deadlines, I/O failures and cold starts may come between any two
steps.

## 4. Runs

`tlc -config X.cfg M` in this directory repeats a run; `PROJECT.json` names
module and configuration of each.

| Run | Instance | Properties | Distinct states |
|---|---|---|---|
| `endpoint` | 3 processes, 2 socket inodes, 4 epochs | `OneOwner`, `ServingIsReachable`, `RecordedIsCertifiable` | 141 K |
| `store` | 1 job, 2 requests, 2 payloads, 9 revisions, 2 epochs | `EligibleIsCurrent`, `CompletedIsProven`, `RowsAreBacked`, `SettledReceiptsStand`, `RowsAreFenced` | 1.26 M |
| `worker_safe` | 1 job, 2 requests, 2 payloads, 6 revisions, 2 epochs, tampering | `NoBodyAfterPause`, `EverythingIsTracked`, `NoLinkAfterStop`, `KeepsPromise` | 3.4 M |
| `worker_live` | 1 job, 2 requests, 7 revisions, 1 epoch, `FairSpec` | `PublicationEnds`, `RecoveryAnswered` | 770 K |
| `retry` | 1 job, small budget and audit | `BudgetHolds`, `WorkHasOpenBudget`, `RetryWaitsItsTurn`, `RetryIsNotForgotten` | 129 K |
| `rounds` | 2 jobs of one batch, 1 target command, 1 captured start, cohorts of one, 2 epochs, 4 revisions | `RoundsAreReadable`, `AnnouncedExactlyOnce`, `StartYieldsToLaterControl`, `StartSettles` | 1.16 M |
| `notify` | 1 event, 1 window with 2 scopes, lease of 3 ticks, 4 tokens | `ShownUnderItsClaim`, `ClaimsStand`, `EventIsPresented` | 68 K |
| `cleanup` | 2 aliases, 2 direct and 2 target requests, 3 epochs, 3 controls, refused pauses, a changed final, 1 owner | `ClaimMatchesNames`, `RemovalIsAuthorized`, `CleanupEnds` | 537 K |
| `claims` | singleton and 2 jobs, 2 daemons, concurrency 2, 2 worker starts | `ClaimsAreExact`, `EnginesFit`, `ClosedIsReleased` | 75 K |
| `receipts` | commands of every surface over shared identifiers, edits that move a destination, 6 revisions, 2 epochs | `CommandsTakeEffectOnce`, `DestinationSharedOnlyByEdit`, `EditKeepsFence` | 82 K |
| `bandwidth` | 2 owners, limits 1, 7, none, caps 3, none, 2 configurations, 3 starts, failing calls | `RatesHold`, `SharesAreFair`, `SettingsAreApplied` | 79 K |
| `saved` | 3 bodies, 2 epochs, 2 resumes, faults, 1 owner | `SealedBytesSurvive`, `QuietAfterControl`, `SavedWorkSettles` | 270 K |

Several properties are conjunctions of named parts, each with its own comment
in its module: `RowsAreBacked` (`TypeOK`, `ActiveIsBacked`, `HeldIsIdle`,
`OriginalUsedOnce`), `EverythingIsTracked` (types, engine, recovery and activity
tracked), `BudgetHolds` (types, readable, replayed, bounded), and so on. One
type invariant per module is such a part.

What the runs show, beyond their names:

* `store`: with callers in any order at all, even orders the worker never
  produces, an attempt that may publish is always at the job's present row and
  epoch, so the "stale pointer" refusals of `_read_publication_attempt` cannot be
  met by a user; a job at work always has the receipt that its next step needs,
  so a transfer cannot strand between two states; an original request authorizes
  one attempt only; an answer once settled stands, even against a late abort.
* `worker_safe`: after an acknowledged pause or removal no engine transfers a
  body, except by a worker that has declared itself blocked over an engine it
  inherited; no engine exists without a durable claim; no final name appears for a
  job already paused or removed; and the whole implements the promise, crash and
  tampering included.
* `retry`: nothing a control, an explicit retry or a restart does leaves a budget
  that a later restore would refuse, or work on a closed budget.
* `rounds`: a head always names a round that exists, a pause or removal between
  two cohorts of a start wins over it, a start ends, and a completion is
  announced exactly once except under a start that was cut off by a restart
  (section 7).
* `notify`: an event marked presented was shown under the claim that marked it.
  It is not shown twice while an earlier showing counts, by the same window.
* `cleanup`: at every instant the names on disk are ones from which the next
  cleanup can go on, and a refused queue pause is held for the very claim with which
  its repetition is compared, so that it does not wedge the owner.
* `receipts`: two jobs share a destination only where an edit put one of them.
* `claims`: reading an identity may fail at any time, and still no daemon is
  forgotten.
* `bandwidth`: between any two calls of a redistribution the confirmed rates of
  the running transfers are within a limit that was desired since the last pass.
* `saved`: the sealed originals, visible or retained, exist at every step.

Each property of a passing run has a mutant in `PROJECT.json`: an operator
ending in `_Faulty` beside the definition it replaces, with which TLC finds the
property violated. They are plausible mistakes (a fence that forgets the
revision, a permit that is not waited for, a share raised before another is
lowered) and belong to no specification.

Differently shaped instances that are kept beside the runs and also hold:
`MCDirectWorker_two` (two jobs and a shared lane), `MCNotificationDelivery_two` (two
windows), `MCSavedResume_slots` (two owners).

## 5. Bounds, symmetry, fairness

* `MaxRevision` of `DirectStore` is `_MAX_COUNTER` made small. Raising a revision
  past it fails as the `OverflowError` of the code does, so the bound is also a
  boundary case that the runs visit. 9 revisions are enough for a dispatch (2), a
  finalization, a pause, a start, a second dispatch and finalization with a second
  attempt; 6 for one complete transfer with a pause and a recovery on the way.
* `MaxEpoch` bounds cold starts. Two epochs are one restart in the middle of
  anything; nothing compares epochs other than for equality or order with the
  current one.
* Two requests are the least with which one can be replayed, refused or stale
  while another runs. Two payloads distinguish "the inode that was bound" from
  another one. Two aliases make "between two names of one kind" happen.
* One job suffices for the properties of one job's rows, which read no other
  job's row except through `OtherBody`. Rounds, claims, shares and destinations
  are about several, and have two or three.
* Three processes in `endpoint`: one that serves, one with a preflight from
  before, one that starts or only boots between them.
* `AuditCapacity` and `MaxOrdinaryAttempts` are the code's 256 and its attempt
  limit made small, so that the audit runs full.
* A tick of `NotificationDelivery` is the 5 s call timeout; a lease of 3 ticks
  leaves room for a call that times out inside the lease and one that outlives it.
* `Bandwidth`'s limit 1 is below one unit per engine, 7 does not divide by 2,
  and cap 3 is below half of it.
* `Tampering`, `SharedLane`, `OtherOwners`, `Faults`, `LostAnswers`, `Legacy` switch
  on other programs, the lane's other users, other owners, failing calls, lost answers
  and the older command.
* Symmetry is used for safety only, and where no definition orders a member.
  The two-window instance also has a `VIEW` without history variables that no
  property of it reads.
* `CHECK_DEADLOCK FALSE`: at the bounds, or with everything finished and all
  identifiers used, the system really may have nothing left to do.

Fairness. `DirectWorker!FairSpec`: weak fairness of `Continue` (a handler that
has begun goes on: straight-line code whose RPCs have timeouts), `Poll` (each
turn of the main loop ends in `poll_direct_terminal`), `Observe` (an observer's
RPCs are bounded and it reads finite files) and `Stop`. `RetryBudget`: time
passes and the loop polls due retries. `AuthorizationRounds`: the poll applies
one cohort per turn. `EngineClaim`: observers end by their own deadlines, handlers take
their steps; strong fairness of `ReapClosing`, since each poll visits every
owner and other commands only take turns with it. `CleanupClaim`: owner,
observer and containment run, a user who wants the directory clean asks
again whenever the worker is free, and who was refused a queue pause repeats it
(weak fairness of `NextPause`): the refusal is reported and the repetition is what
the code expects (`tests/integration/test_target_scheduler.py:586-642`), but nothing in
the worker does it by itself, so without it the cleanup waits for a restart.
`NotificationDelivery`: timers
run, and a call made again and again is at last answered in time and accepted by
the host, the least under which delivery can be promised at all. `Bandwidth`:
the loop and the exit of a checkpoint's thread. `SavedResume`: threads, loop and
body start weakly; dispatching, applying an edit and stopping strongly, as their
polls come round while other work is served.

Nothing is assumed of users (except where said), of engines, crashes or
restarts, so nothing is promised about a transfer ever finishing. The ways out
that liveness properties name are the code's: a command refused during `link()`
has voided the observation, an owner is blocked or wedged for good, a process
went down.

## 6. Proofs

TLAPS checks 45 theorems and the lemmas under them. The only assumptions are the
named ones on constants; TLC evaluates them on each run. None bounds the number
of jobs, requests, payloads, commands, events, windows, processes, daemons,
aliases, epochs or engines, but for the one job of `EverythingOwned`. Nine theorems
have a hypothesis of their own: `LinkYields`, `PromiseKept`, `RecoveriesOwned`,
`BodiesOwned` and `EverythingOwned` that the lane has no other user (`~SharedLane`,
disagreement 12), the last of them also that there is one job (`OneJob`, disagreement
13), `NoLateOperation` that no two owners prepare the same pair (`[]OnePreparation`,
disagreement 11), `OneOwnerIsQuiet` a configured concurrency of one, from which
that follows, `RatesAreHeld` that a call which failed had no effect
(`~LostAnswers`, disagreement 8), and `RemovalAuthorized` that no other owner is at
work (`~OtherOwners`, disagreement 15).

| Theorem | Property | Argument |
|---|---|---|
| `DirectWorkerProofs!TypeCorrect` | `TypeOK` | inductive; `CanMove` is what keeps revisions in range |
| `DirectWorkerProofs!HoldKept` | `HeldIsIdle` | inductive with `TypeOK`, from what a step can do to one row |
| `DirectWorkerProofs!OneBodyOnly` | `OneBody` | inductive: only `AdmitDispatch` creates a body, under `OtherBody` |
| `DirectWorkerProofs!AuthorityCurrent` | `EligibleIsCurrent` | inductive with `TypeOK` |
| `DirectWorkerProofs!RowsFenced` | `RowsAreFenced` | from the row lemmas and `EligibleIsCurrent` |
| `DirectWorkerProofs!BindingsFinal` | `BindingsWriteOnce` | from `CanBind` and `CompletePublication`'s test |
| `DirectWorkerProofs!AnswersStand` | `SettledReceiptsStand` | from `EligibleIsCurrent` |
| `DirectWorkerProofs!CompletionProven` | `CompletedIsProven` | inductive on top of `TypeOK` and `EligibleIsCurrent` |
| `DirectWorkerProofs!WorkBacked` | `ActiveIsBacked` | inductive: what makes a job active writes its receipt, and nothing else touches that receipt while the row stands |
| `DirectWorkerProofs!RowsBacked` | `RowsAreBacked` | with `AttemptIsBacked` and `RetiredIsEarlier` |
| `DirectWorkerProofs!WorkerKeepsStore` | refines `StoreSpec` | each worker step is one transaction or none, on `BaseInv` |
| `DirectWorkerProofs!WorkerTypes`, `EngineClaimed` | parts of `EverythingIsTracked` | `BaseInv`; `EngineOK` |
| `DirectWorkerProofs!NoBodyLeft` | `NoBodyAfterPause` | inductive as `BodyOK` |
| `DirectWorkerProofs!LinkYields` | `NoLinkAfterStop` | inductive as `LaneOK` and `LinkOK` |
| `DirectWorkerProofs!PromiseKept` | `KeepsPromise` | step simulation, on all of these and `FilesOK` |
| `DirectWorkerProofs!RecoveriesOwned`, `BodiesOwned` | `PendingRecoveryIsOwned` of an unblocked owner, the body states of `ActiveIsTracked`, for any jobs | inductive as `TrackOK`, on `BaseInv`, `HeldIsIdle` and `LaneOK` |
| `DirectWorkerProofs!EverythingOwned` | `EverythingIsTracked` | `TrackOK` with its clauses about one job |
| `LeaseProofs!OwnerUnique`, `ServingReachable`, `RecordedCertifiable` | `OneOwner`, `ServingIsReachable`, `RecordedIsCertifiable` | inductive together with `StageInv` |
| `CleanupClaimProofs!ClaimAndNamesAgree`, `RemovalAuthorized` | `ClaimMatchesNames`, `RemovalIsAuthorized` | inductive together with `ObserverInv` |
| `EngineClaimProofs!ClaimsExact`, `DaemonsFit` | `ClaimsAreExact`, `EnginesFit` | inductive as `ClaimInv`; an injection of daemons into claims |
| `BudgetProofs!WorkIsBudgeted`, `RetryTurns`, `RetriesBounded` | `WorkHasOpenBudget`, `RetryWaitsItsTurn`, part of `BudgetHolds` | inductive as `RetryInv` |
| `BudgetProofs!BudgetIsSound` | `BudgetHolds` | `AuditInv`, inductive on top of `RetryInv` |
| `BudgetProofs!FairAllocation`, `RatesAreHeld` | `SharesAreFair`, `RatesHold` | inductive as `LoopInv` and `GrantInv`, on `AllocateFits` |
| `SavedResumeProofs!SavedInvariant`, `SealedBytes` | `SealedBytesSurvive` | inductive as `SavedInv` |
| `SavedResumeProofs!NoLateOperation`, `OneOwnerIsQuiet` | `QuietAfterControl` | a live thread implies a queued job, inductive on top of `SavedInv` |
| `LeaseProofs!ShownUnderClaim`, `ClaimsKept` | `ShownUnderItsClaim`, `ClaimsStand` | inductive as `DeliveryInv` |
| `AuthorizationRoundsProofs!RoundsReadable`, `AnnouncedOnce`, `StartYields` | `RoundsAreReadable`, `AnnouncedExactlyOnce`, `StartYieldsToLaterControl` | inductive as `RoundInv` (`RoundInvariant`) |
| `CommandReceiptsProofs!EffectOnce`, `SharedOnlyByEdit`, `EditsAreFenced` | `CommandsTakeEffectOnce`, `DestinationSharedOnlyByEdit`, `EditKeepsFence` | inductive as `CommandInv`, and `MovedOK` on top of it |

`DirectStore`. `RowStep` and `RowChanges` say once, for all actions, what a step
can do to one job's row; hold, one-body and fence theorems then need only the
few actions that change a row. The central invariant is `EligibleIsCurrent`: it
is inductive together with `TypeOK` because every action that moves the row of a
job either advances the attempt's pointer (`AdvancePointers`), finishes the
attempt, or is enabled only in states in which no attempt is eligible. Its clause
about the pending receipt is what makes `AnswersStand` provable: the only
transactions that write a receipt without reading its status do so through an
attempt's `pending` request, which by the invariant names a receipt that is still
pending. `RowsFenced` needs it too: without it a completion could move a
terminal row. `CompletionProven` adds that only `CompletePublication` writes a
completed row, a final binding or a cleanup claim, and that completed rows
never change. `RowsBacked` needs an order between rows that no table states: an
attempt's original request is a started receipt of its job whose recorded revision
is below the attempt's pointer (`AttemptIsBacked`), and every archived request's
is below that of the present attempt (`RetiredIsEarlier`); since revisions only
rise, a request can reserve once.

`DirectWorker`. `WorkerKeepsStore` carries every theorem of the store over to the
running worker; the arguments of a transaction come from the owner's fields, so it
needs their types and what each `pc` knows (`BaseInv`: `ProcessOK`, `StepOK`,
`PlanOK`, `DispatchOK`). `EngineOK` says at which `pc` an engine may be alive and
which claim it then has. `NoBodyAfterPause` is not inductive: that a job is not
paused while its body is active holds because the owner's plan or the running
dispatch is of that very job, which `BodyOK` adds. The link needs most. An open
permit or a `link()` in the kernel (`LinkOpen`) means that the job's plan is still
the owner's and the job has not ceased (`LinkOK`); that the plan is still there is
because a poll that ends with a waiting publication has launched its observer
(`LaneOK`), after which neither an activation nor a dispatch is admitted. This
is where `~SharedLane` is used, and disagreement 12 shows that it cannot be
dropped. `PromiseKept` maps each step: a transaction moves the stage of one job
only (`OneRow`; the cold start moves none), only `ReapPublished` completes a job
and has just read its own payload under both names (`CompletedHere`), only
`PublishLink` creates a final file, of a job that goes on and has a bound
payload (`FilesOK`, without which binding a payload could turn a foreign file
into ours).

Nothing of `EverythingIsTracked` about recoveries and active jobs is inductive, since
it speaks of the main loop only and of the store and the owner at once. `TrackOK` says
it at every `pc`: a pending recovery is the owner's publication or the request
the thread is about to abort (`PendingOK`), and a job with a body is that of the
running dispatch or of the observed transfer (`BodyTracked`). These rest on what keeps
a command or a poll from dropping them. A queue pause drops a recovery only after its
own transaction has settled or is about to abort it, because the owner's copy of its row
is current (`RecoveryAtRow`); a poll does not reap a transfer as stale while its job is
at work, because the plan is at the job's row (`PlanAtRow`); a recovery is not observed a
second time after it was voided (`PublicationFresh`); and no recovery is accepted
beside a plan that has spent its publication (`Spent`, `AfterMain`). Of a single
job, a finalizing row has its staging, its preparation or its publication
(`FinalTracked`), and no recovery is on meanwhile (`RecoveryRests`); a blocked owner,
too, keeps its recovery. TLC checked the nine clauses on the instance of
`worker_safe` and on one with two jobs, and found what is false of two jobs
(disagreement 13), before they were proved.

`WorkerEndpoint`. The three properties are inductive together with what the
holder of the lease relies on at each stage (`StageInv`): the name is free from
the reclaim to the bind, a listening worker's socket is the one under the name,
and until its publication the record is of an earlier epoch.

`CleanupClaim`. `ClaimMatchesNames` alone is not inductive: an unlink must be of
a name its claim's phase allows. `ObserverInv` says that an observation works on
the stored claim, that an acknowledgement stands for the aliases, that an answered
control leaves no permit that can be entered, and that a look at the final
precedes every name. The clause about controls holds while every control tells this
owner (`~OtherOwners`); `ClaimAndNamesAgree` does not need it. That a held pause stays
current (`HeldIsCurrent`) follows from its own form: what is observed is revoked, so it
moves no claim, and a blocked owner activates nothing.

`EngineClaim`. `ClaimInv` relates three views: the claims, the daemons
(`DaemonsAreCovered`) and what the owners believe (`ModesHold`: a worker that is
not blocked owns exactly what is claimed, and keeps the handle of every daemon
that exists), with how far the handler in progress has come (`HandlersHold`).
That daemons fit the concurrency follows by mapping each to its job's claim.

`RetryBudget`. `FloorHolds` (the due time covers backoff and Retry-After; it
needs only that a power of two is a natural number, which is a lemma over the
cardinality of power sets), `CountsHold` and `ReopenHolds` (a consent that still
waits for its resume waits on an open budget) make the properties inductive.
`BudgetIsSound` is about data: the audit is the proof of the budget, read back event
by event. The reading is a recursive function on the length of the audit, and that it
is one (`ProofUnfolds`) is proved without an induction scheme: two readings that
differed would differ at a least event (`LeastNat`, from the well-foundedness of
`<`), and the same argument gives that a longer audit reads its first events as
the shorter one did (`ProofsAgree`, `ProofExtends`). Hence one more event needs only
`ReplayedAppend`, and each transaction one lemma: the event it records follows from
the budget it found (`AttemptFollows`, `FenceFollows`, `ReopenFollows`,
`ExplicitFollows`).

`Bandwidth`. A sum of shares is the number of units it gives out (`Units`), so that what
the proofs need of sums are facts of finite sets: `TotalGrows`, `TotalSplit`, and
`AheadCounts` for the remainder, which goes to as many as come first (`PortionsSum`:
the portions add up to what was left). The rounds are a recursive function, unfolded
with the least number two runs could differ at (`RunsExist`). Each round keeps `RoundOK`:
what was given away and what is left are the limit, the quotient does not fall, and
nobody was capped above it; a round that caps somebody has fewer left, so after as many
rounds as there are owners nobody is capped any more (`LastRoundOK`). From these
`AllocateFits` has all of `SharesFit`, for any caps and limit: within the limit and the
caps, using the limit up, equal up to the remainder, never zero when there are as many
units as owners; and the loop makes sure that there are (`PlanFits`: `Excess` stops, and
`Dispatch` keeps out, who is beyond the slots). `LoopInv` carries that through a pass,
with the fact that who was told has its share. `GrantInv` says that the confirmed shares
of the running engines are within one of the limits in force. While somebody is still to
be lowered a call only shrinks the sum (`GrantsShrink`, within the old limit); when the
first raised one is told, the shares of all the others are at most their new ones
(`GrantsFit`, within the new limit): the sort is what the proof turns on. An engine
started by the legacy command has no share to count, but it is alone until a pass
includes it, which is a clause of `GrantInv`. An engine obeys at most its confirmed
share (`RateAtMost`), provided that what failed had no effect.

`NotificationDelivery`. `DeliveryInv` says that what anybody knows of a token
agrees with the claim recorded for it: the event's row (`RowOK`), each window's
call and retained settlement (`WindowOK`), each call still under way (`LateOK`).
A token in use is never issued again (`Fresh` is outside `InUse`, which
`TokensSuffice` keeps smaller than `Tokens`); without that a late call could
settle somebody else's claim. A window about to show an event carries the fact
that no showing of its own still counts, which is `RepeatOnlyAfterExpiry` one step
before it matters.

`SavedResume`. `SavedInv` is an inventory of names: earlier bodies lie under their
retained names; of the last body nothing is retained until a continuation is
consented to, then each original is under a visible or a retained name, and a copy
appears only when both originals are retained (`FilesOK`). It survives a step of the
preparing thread because at most one thread lives and what it checked is still so
when it acts (`ThreadsOK`): `Checked` says it for each of the nine effects, and whatever
could falsify it needs the thread to be gone. It survives a new consent because a report
`ready` is taken by the loop before the job can be sealed or consented to again
(`MailOK`). `SealedBytes` reads the property off: a seal is true of the inodes it names
(`SealsOK`), and those keep a name. `NoLateOperation` adds that a live thread's job is
queued; a control that moves the job cancels and drains the thread of the one owner
that matches, and this is where `OnePreparation` is needed.

`CommandReceipts`. `CommandInv` ties the two histories to the tables: what a
command did, and what its sender was told, is in the registry entry of its
identifier (`CommandOK`), and an entry is never given to another command
(`ReceiptOK`, `DispatchOK`). The exception, an edit and a dispatch that share an
identifier (disagreement 7), is a clause of `DispatchOK`. The destinations jobs were
added with are apart (a clause of `CommandInv`); `MovedOK` adds that the destination a
job was moved to is that of an edit which took effect, and stays its witness because
effects are never undone (`EffectsStay`) and only an edit moves (`OnlyEditsMove`).

`AuthorizationRounds`. The three properties speak of every row and of a history,
and none is inductive. `RoundInv` rests on `NewOwns`: a job is given new authority by
one command only and its head names that command from then on, so that the rounds
and the captured starts partition the managed jobs. With it a round is terminal
exactly when all its members are over (`RoundsOK`), a start is closed exactly when it
is applied and all members of all its cohorts are over (`ClosedOK`), and the outbox
is at every moment the events that jobs, rounds and starts call for (`OutboxOK`): an
event is added in the step that makes it due, and what is due stays so because what
is over does not change. That each event has one source then gives "at most once", and
that each completed job has a source "at least once". A captured start yields because
whatever moves a job moves its revision beyond the captured one (`CapturedOK`). The
size of the captured cohorts needs the rank of a job in a finite set to be a
bijection onto the numbers below its count (`RanksCount`, `GroupedRows`). TLC checked
`RoundInv` on the instance of run `rounds` and, by simulation, with three jobs, two
targets and two starts before it was proved.

Model-checked only: liveness (`PublicationEnds`, `RecoveryAnswered`,
`RetryIsNotForgotten`, `StartSettles`, `EventIsPresented`, `CleanupEnds`,
`ClosedIsReleased`, `SettingsAreApplied`, `SavedWorkSettles`), because temporal
reasoning under fairness and ENABLED are beyond the installed provers. Every
invariant and every action property of the runs is a theorem, with the hypotheses
named above.

## 7. Disagreements met while modelling

Each has a configuration under which TLC shows the code doing what the quoted
line rules out; the configurations are not among the runs of section 4. They
state one property each: `tlc -config MCDirectWorker_pause.cfg MCDirectWorker`.

1. `PauseClosesAdmission` (worker.py:1450, `MCDirectWorker_pause.cfg`). The
   plan says "Queue pause closes admission synchronously before asynchronous
   cancellation." (Docs/plans/2026-09-12-hermes-download-manager.md:247). With
   one active owner the code does the opposite:
   close_owned_direct_controller(contained_queue) (worker.py:1450) cancels the
   transfer first and writes the gate in the persist callback afterwards. When
   the job's revision moved since the dispatch, as a start_now of the running
   job moves it without touching active_direct_plan, apply_queue_gate refuses
   the stale _contained_direct_job, so the engine is gone, the owner stays
   blocked and queue_gate is still 'running'.
2. `AbsenceContained` (worker.py:852, `MCDirectWorker_lane.cfg`).
   direct_engine_activate guards the discard of an absent engine with "Let the
   pending readback contain/pause this dispatch; absence must not replace a
   controller under its observer." (worker.py:853-854), but tests only
   observation_thread. A poll that could not acquire the process-wide lane,
   held by another owner's observer, leaves observation_thread None while
   active_terminal_plan still waits for its readback. If the engine has died,
   the next activation discards the controller and clears active_direct_plan:
   the job stays 'downloading' in the store, untracked by any owner, until the
   user pauses it or the worker restarts, and counts as the active body that
   keeps every other legacy dispatch out.
3. `ColdStartIsNeverRefused` (store.py:6773, `MCRetryBudget_full.cfg`). The
   plan says "Recovery maps supported direct incomplete jobs to paused"
   (Docs/plans/2026-09-12-hermes-download-manager.md:356). Every cold start
   appends a fenced event to the retry audit of every incomplete job that has a
   budget, a paused one too, and nothing ever shortens an audit. Once it holds
   256 events fence_cold_start raises OverflowError (retry.py:640),
   recover_cold_start rolls its transaction back for all jobs and the worker
   cannot start any more until that job's rows are removed by hand: 255 worker
   starts after one failed download left paused are enough.
4. `CompletionIsAnnounced` (store.py:3137, `MCAuthorizationRounds_cut.cfg`).
   integrations/hermes-downloads/desktop/README.md:20: "Both direct publication
   completion transactions enqueue durably. Original target rounds coalesce
   after every selected original head is terminal, including a final removal;
   only corroborated completed outputs count." The code announces a captured
   start only while its request is applied (store.py:3137), and a request that
   a cold start finds pending becomes blocked (store.py:7444) although some of
   its cohorts are applied (store.py:7449), or applied but not yet marked.
   Their rounds close, _close_captured_completion returns, and the downloads
   they complete produce no completion event.
5. `ShowsAlone` (integrations/hermes-downloads/desktop/plugin.js:176,
   `MCNotificationDelivery_alone.cfg`).
   Docs/plans/2026-09-12-hermes-download-manager.md:386 says "Claim lease
   avoids multiple windows presenting the same event simultaneously". The code
   leases the claim for 30 s and replays a live claim to its consumer with the
   expiry it already had (store.py:9478-9483), and plugin.js:157-176 calls
   host.notify on the answer without comparing lease_expires_at_ms with
   server_now_ms: a window whose claim was left over from a timed-out call gets
   it again just before it expires, the lease runs out before the notify,
   another window claims the event, and both show it.
6. `SignalsOwnGroup` (direct.py:1130, `MCEngineClaim_stray.cfg`). A comment of
   _stop_process_group (direct.py:1630-1631) says "Never signal after this
   point: the numerical process-group ID could have been recycled." When the
   leader has been reaped but the stock reader does not drain, close()
   (direct.py:633-634) keeps _process and _identity, and a retried close() (a
   control or a queue gate on the same owner) calls os.killpg again with that
   number.
7. `OneCommandPerRequest` (store.py:7154, `MCCommandReceipts_reuse.cfg`). A
   test says `test_request_ids_conflict_across_every_real_surface`
   (headless/tests/integration/test_target_authority.py:547). accept_edit looks
   only at direct_edit_requests and _read_command_receipt, which does not read
   direct_dispatch_commands, so an edit whose request_id a direct dispatch
   already holds is accepted (accept_configuration at store.py:7807 does look
   there; accept_source_replacement, accept_control_intent and accept_files
   have the same gap). The test tries add, batch, queue, control, dispatch and
   target only.
8. `AppliedIsEnforced` (worker.py:2129, `MCBandwidth_lost.cfg`).
   apply_allocation skips an engine whose remembered applied_share equals the
   new share, and remembers a share only after both calls were confirmed
   (2150). When a raise takes effect but its answer is lost while a candidate
   is being admitted, only the candidate is contained; the raised engine keeps
   the old, smaller applied_share. A configuration that returns to that share
   skips the engine, and applied_configuration acknowledges while it runs
   above. The plan says "No old-cap process may survive the acknowledgement."
   (Docs/plans/2026-09-12-hermes-download-manager.md:48) With three engines
   `RatesHold` fails in the same way, so it is checked and proved for calls that
   fail without effect.
9. `CapHolds` (worker.py:1153, no configuration: `RatesHold` leaves such
   transfers out). execute_prepared_dispatch allocates only when engine_plan is
   set, which the direct_job_dispatch command never does, and apply_settings
   returns at once at settings revision 0 (2303): a job edited to a limit_bps
   and started by that command runs without it until the first configuration.
   The plan says "each running job has `b_i <= item_cap_i`"
   (Docs/plans/2026-09-12-hermes-download-manager.md:44)
10. `StopDrainedFirst` (worker.py:2265, `MCSavedResume_edit.cfg`). apply_edits
   (and apply_sources, 2276) postpone the change only while active_saved is
   set. A stop whose observer could not be started because another job holds
   the observation lane is only in pending_stop (flush_pending_stop, 1290-1298,
   swallows the refusal); its controller is already gone, so apply_edit runs
   and advances the revision, seal_stopped_direct_body then raises "stopped
   checkpoint stale" (store.py:9785) and poll_direct_terminal drops it: the
   partial of an edited download is left without a checkpoint and its resume is
   refused. The comment at worker.py:691 says "A stop checkpoint has no ongoing
   BODY to revoke. Drain its exact result before another control can release or
   reuse this owner."
11. `OnePreparation` (store.py:4719, `MCSavedResume_twice.cfg`). For a
   continuation in phase intent _prepare_target_dispatch returns the plan
   without recording that it was taken. When its thread has exited before the
   linked phase, _direct_observation_busy retires the lane and the loop polls
   the spare owner (worker.py:2388) before the owner that must reap it (2390):
   the same continuation is prepared twice, and the late links and unlinks of
   the second thread go on after the first failure has paused the job; a pause
   in between is refused because two owners match (2090). The docstring at
   store.py:4644 says "Select and commit one exact private operation before any
   engine exists."
12. `NoLinkAfterStop` with two jobs and `SharedLane` (worker.py:1345, no
   configuration). It is what disagreement 2 leads to. While the publication of
   j1 waits for the lane its engine dies; `ActivateDiscard` clears
   active_direct_plan but not active_publication, whose permit stays open.
   direct_job_dispatch does not look at active_publication either (959-967), so
   j2 is dispatched and becomes the tracked job (1345). A pause or a removal of
   j1 is then applied as that of a job nobody works on (1390), without
   revoke_publication, and when the lane is free the observer links the final
   name of a paused or removed job: `KeepsPromise` breaks with it. The docstring
   of PublicationCreationPermit (paths.py:176-177) says "The future owner must
   gate control acknowledgement on quiescence and discard late results." TLC finds
   it with two jobs, two requests, two payloads, 7 revisions and one epoch when
   its search is confined to runs that dispatch j1 first (48 steps for the
   promise). Without a shared lane neither can happen, whatever the number of
   jobs: that is `LinkYields` and `PromiseKept`.
13. `ActiveIsTracked` with two jobs (worker.py:1345, no configuration). A pause of
   finalizing j1 refused during link() revokes the permit and voids the
   publication; j1 stays finalizing. When its engine dies, `ActivateDiscard`
   clears its plan, and a dispatch of j2 makes j2 the tracked job: j1 is finalizing
   in the store and no shutdown or queue pause will contain it before the next
   start. `PendingRecoveryIsOwned` breaks with two jobs as well (worker.py:1446,
   1459). The recoverable publication of j1 is paused and j2 downloads; start_now of j2
   leaves its plan stale, so a queue pause closes the engine, fails, and leaves the
   owner blocked with its plan. A recovery of j1 is still accepted. The next queue
   pause withdraws it (revoke_publication sets active_recovery to None), raises on the
   stale plan again, and never reaches abort_exact_publication_recovery: the
   request stays pending with no owner, and every other recovery of j1 is refused, until
   its client replays it or the worker restarts. TLC finds it in 56 steps with two
   jobs, three requests and 6 revisions when its search is confined to runs that
   begin so. `EverythingIsTracked` is therefore checked and proved with one job; that
   jobs which transfer a body stay tracked, and that an owner that is not blocked
   forgets no recovery, is proved for any number (`BodiesOwned`, `RecoveriesOwned`).
14. `DestinationsApart` (store.py:7198, `MCCommandReceipts_moved.cfg`). The docstring
   of _ensure_publication_target_is_available says "Reject a destination already owned
   by any materialized projection." (store.py:3836). It is asked by adds only and
   compares what jobs were added with. An edit with a destination patch inserts a
   row of direct_destinations without asking, and _effective_reservation
   (7221-7224) goes by that row from then on: two jobs can come to have one
   destination, by an edit of either. Conversely an add is refused for a destination whose
   job was moved away. Publication still never replaces a final name that exists
   (`KeepsPromise`).
   `DestinationSharedOnlyByEdit` says that there is no other way.
15. `RemovalIsAuthorized` with `OtherOwners` (worker.py:1424,
   `MCCleanupClaim_shared.cfg`). A queue gate for several owners that are not idle is
   committed first and then passed to each (worker.py:2104-2113). Where a direct
   request completed the job that is cleaned up, the owner finds the command's receipt
   and answers from it (1422-1425), without revoke_cleanup: the pause is
   acknowledged, and the cleanup goes on unlinking. With one active owner the same
   command withdraws the permits first. The docstring of revoke_cleanup says
   "Discard late evidence; an entered unlink must settle before ack." (worker.py:1264)

## 8. Not modelled, and abstractions

Across modules:

* A stale or malformed command changes nothing and is only answered: it is no
  step. Commands are modelled with the revision the client must have quoted.
* A crash is the death of the process; loss of power, and with it `fsync`, is
  not modelled. Hashing, stat tuples and directory chains are facts about
  identity. Validation, framing, digests and SQL are data, not control.
* Several `_DirectOwner` instances with observers of their own are in `EngineClaim`
  and `SavedResume` (owners and lane) and in `Bandwidth` (engines), not in
  `DirectWorker`, where other owners are the lane's other users. The completion of
  a recovery in one owner that releases another's lane (`worker.py:1676`) is
  therefore not covered.

By module:

* `DirectStore`, `DirectWorker`: schedules, limits and retry times are one
  nondeterministic flag (`due`) of a dispatch; the state a failure leads to is
  chosen freely from the four that the retry authority can choose. The cancel flag
  that the publishing thread polls before `link()` is read before `PublishEnter`. A
  failing `close()` of a controller, a failing observer start and the separate
  failure of `prepare_direct_stage` are not distinguished from the failures modelled
  beside them. A failed terminal, stage or preparation result drops the owner's
  publication (`PauseTracked`), and a cleared controller drops what was to be prepared
  (`Cleared`), where the code leaves active_publication (`worker.py:1641-1643`,
  `1698-1702`, `1758-1760`) and active_preparation (`625-641`). With one job and one
  owner neither is ever there at that point (TLC, on the instance of `worker_safe`);
  with two jobs the code may keep a publication already voided, whose permit is
  revoked. `ReapPublished` looks at the two names and commits in one step; what another
  program does to them between the look and the commit is not distinguished from what it
  does right after.
* `EngineClaim`: the owner `direct_recovery_blocked` of an owner without a
  controller, and `processes.run_contained`, which has no caller. The concurrency
  (`Capacity`) is constant although it can be configured at run time
  (`worker.py:2306`, `2383`; `store.py:7872`): the loop stops the engines beyond
  a lowered one at its next pass.
* `RetryBudget`: a job that is blocked with neither a failure nor a budget, which a cold
  start leaves as it is (`store.py:6759-6762`). Here a job is blocked only with a budget.
* `AuthorizationRounds`: preemption, collection pause and resume, private dispatch
  causes.
* `CommandReceipts`: an edit's resume authorization, which is a separate
  transaction after the commit; publication recovery on replay of a pending
  dispatch; queue-resume authorizations; the outcome of an edit of a job with a saved
  body, which `MayMove` leaves open. An edit of several jobs is one of each; the destinations it
  may give are any, where the code changes the folder and keeps the file name. The wire codec, the socket server and its
  limits (`ipc.py`). Other surfaces that reuse a dispatch's identifier raise
  rather than answer a conflict, and a child identifier bound to a typed command
  aborts its whole batch: both as in the code.
* `NotificationDelivery`: coalesced payloads, reveal offers; which events are
  enqueued is in `AuthorizationRounds` and `RetryBudget`.
* `CleanupClaim`: other owners, but for `OtherOwners`. With several, another owner
  may consume a target that was armed for the same job and move the claim; a pause that
  is held for the old claim is then refused until the worker restarts. An owner that is
  blocked for another reason (a cold start that cannot be certified, `worker.py:502-514`)
  does no cleanup at all and is not modelled here.
* `Bandwidth`: the number of connections of an engine, which only adds to the
  engines a configuration stops, and a configuration that changes the concurrency
  (`worker.py:2306`), which is constant. A job whose own limit is 0 is not admitted
  (`store.py:6467`) and a running one is not edited (`7175`), so 0 is no cap.
* `SavedResume`: jobs without an expected checksum (their validator probe), source
  replacement, destination moves, purge, reopening by an explicit retry; no other
  program touches the files. After a failed or cancelled preparation, a pause between
  ready and admission, or a crash in mid-preparation the ordinary resume of
  that checkpoint is refused: intended (`tests/integration/test_saved_resume.py:223`).
  An edit applied to a queued job before its preparation starts strands the
  consent (`store.py:4717`) until a control moves the job, and an owner wedged over a thread that
  does not join keeps its job, so that a pause of it is refused (`worker.py:2090`).
  `QuietAfterControl` is checked with one owner: with two, disagreement 11 breaks it.

Components without a module:

* Legacy in-memory queue (`queue.py`): no module of the service imports it.
* Legacy publication reconciliation: reachable only from rows of databases older
  than publication attempts; a finalizing job this version writes has a started
  receipt, which excludes it.
* Network and model validation, MCP server, CLI, dashboard, native host, browser
  extensions: stateless, or translators to the commands modelled here.
* Installer (`headless/scripts/install.py`): one sequential program; a crash in the
  middle leaves its manifest incomplete and rollback is refused, as
  `Docs/download-manager-operations.md:42-45` says.
* The macOS application is a separate Swift program with a queue and an engine of
  its own.

## 9. What could come next

1. Two full owners in `DirectWorker` with private engines and target dispatch,
   which would join `EngineClaim`, `AuthorizationRounds` and `SavedResume` to it.
2. Preemption and collection control in `AuthorizationRounds`; purge, source
   replacement and destination moves beside `SavedResume`.
3. Theorems: with two full owners, what replaces the hypothesis `~SharedLane` of
   `LinkYields`, `PromiseKept` and the three theorems on what is tracked.
