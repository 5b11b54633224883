----------------------------- MODULE DirectStore -----------------------------
(***************************************************************************)
(* The durable state machine of the direct (HTTP) download path: the       *)
(* tables of headless/src/hermes_downloads/store.py that one transfer      *)
(* touches, and one action per SQLite transaction.                         *)
(*                                                                         *)
(* Every transaction runs under BEGIN IMMEDIATE and either commits whole   *)
(* or rolls back, so each is one atomic step, and one that raises changes  *)
(* nothing: a refusal that writes nothing is a disabled action.            *)
(*                                                                         *)
(* In this module the callers are arbitrary: any transaction may be called *)
(* at any time.  DirectWorker restricts the calls to those worker.py makes.*)
(*                                                                         *)
(* Definitions whose names end in _Faulty are plausible mistakes.  Each is *)
(* put in the place of the definition it precedes to see that a property   *)
(* notices; none is part of the specification.                             *)
(***************************************************************************)
EXTENDS Naturals

CONSTANTS
  Jobs,         \* job identifiers
  Requests,     \* request identifiers of explicit direct dispatches
  Payloads,     \* identities (device, inode) of partial files
  MaxRevision,  \* _MAX_COUNTER: a revision never passes it
  MaxEpoch,     \* bound on cold starts
  NoRow         \* an absent row, or NULL in a column

(***************************************************************************)
(* "pausing", "cancelled" and "failed" are named by the schema, but no     *)
(* transaction of this path writes them.                                   *)
(***************************************************************************)
TerminalStates == {"removed", "completed"}
BodyStates     == {"resolving", "downloading"}
ActiveStates   == BodyStates \cup {"finalizing"}
FailureStates  == {"retry_wait", "blocked", "needs_auth", "needs_link"}
JobStates == TerminalStates \cup ActiveStates \cup FailureStates
               \cup {"queued", "paused"}

Revisions == 0..MaxRevision
FenceRow == [gen: Nat, rev: Revisions, state: JobStates]
JobRow == [gen: Nat, rev: Revisions, state: JobStates, auth: BOOLEAN, hold: BOOLEAN]
ReceiptRow ==
  [job: Jobs, status: {"pending", "started", "blocked", "stale"}, at: FenceRow]
AttemptRow ==
  [status: {"eligible", "closed", "finished"}, orig: Requests, at: FenceRow,
   epoch: Nat, pending: Requests \cup {NoRow}]
CleanupRow ==
  [phase: {"pending", "certified", "finished"}, activation: Nat \cup {NoRow}]

ASSUME BoundsAssumption == MaxRevision \in Nat /\ MaxEpoch \in Nat \ {0}
ASSUME NoRowAssumption ==
  /\ NoRow \notin Requests /\ NoRow \notin Payloads /\ NoRow \notin Nat
  /\ NoRow \notin JobRow /\ NoRow \notin ReceiptRow
  /\ NoRow \notin AttemptRow /\ NoRow \notin CleanupRow

VARIABLES
  job,        \* jobs joined with materialized_jobs
  gate,       \* settings 'queue_gate'
  epoch,      \* settings 'worker_epoch'
  receipt,    \* direct_dispatch_commands
  attempt,    \* direct_publication_attempts, at most one row per job
  retired,    \* original requests in closed_direct_publication_attempts
  staged,     \* the bound inode of the verified partial
  published,  \* the bound inode of the final file
  claim,      \* engine activation fence, engine record, recovery capability
  cleanup     \* direct_cleanup_claims

storeVars == <<job, gate, epoch, receipt, attempt, retired, staged, published,
               claim, cleanup>>

\* Schema creation followed by the cold start of the first worker.
StoreInit ==
  /\ job = [j \in Jobs |-> NoRow]
  /\ gate = "paused"
  /\ epoch = 1
  /\ receipt = [r \in Requests |-> NoRow]
  /\ attempt = [j \in Jobs |-> NoRow]
  /\ retired = {}
  /\ staged = [j \in Jobs |-> NoRow]
  /\ published = [j \in Jobs |-> NoRow]
  /\ claim = [kind |-> "none", epoch |-> 0]
  /\ cleanup = [j \in Jobs |-> NoRow]

-----------------------------------------------------------------------------
(* Readbacks shared by the transactions.                                   *)

Stored(j) == job[j] # NoRow
Open_Faulty(j) == Stored(j) /\ job[j].state # "removed"  \* completed jobs as well
Open(j) == Stored(j) /\ job[j].state \notin TerminalStates
Fence(row) == [gen |-> row.gen, rev |-> row.rev, state |-> row.state]
CanMove(j) == job[j].rev < MaxRevision
Moved_Faulty(j, s) == [job[j] EXCEPT !.state = s]  \* revision not raised
Moved(j, s) == [job[j] EXCEPT !.state = s, !.rev = @ + 1]

Pending(r) == receipt[r] # NoRow /\ receipt[r].status = "pending"
Started(r) == receipt[r] # NoRow /\ receipt[r].status = "started"
Settled(r) == receipt[r] # NoRow /\ receipt[r].status # "pending"
Eligible(j) == attempt[j] # NoRow /\ attempt[j].status = "eligible"
EngineReady == claim.kind = "ready" /\ claim.epoch = epoch

\* _publication_predecessor_matches: the attempt's pointer is the job's row.
PointerCurrent(j) ==
  /\ Eligible(j)
  /\ attempt[j].at = Fence(job[j])
  /\ attempt[j].epoch = epoch
  /\ attempt[j].pending # NoRow =>
       receipt[attempt[j].pending] =
         [job |-> j, status |-> "pending", at |-> Fence(job[j])]
Kept(j, recoverable) == IF recoverable /\ PointerCurrent(j) THEN {j} ELSE {}

\* The attempt keeps its status but its pointer stays behind.
Advanced_Faulty(j, keep) ==
  [attempt[j] EXCEPT !.status = IF keep THEN "eligible" ELSE "closed"]
Advanced(j, keep) ==
  [attempt[j] EXCEPT !.status = IF keep THEN "eligible" ELSE "closed",
                     !.at = Fence(job'[j]), !.epoch = epoch', !.pending = NoRow]

(***************************************************************************)
(* _advance_publication_pointer for every job of S, after job' and epoch'  *)
(* are known: an eligible attempt moves to the job's new row and survives  *)
(* only when it is kept and the job is paused; its recovery receipt, if    *)
(* one is pending, settles as blocked.                                     *)
(***************************************************************************)
AdvancePointers(S, kept) ==
  /\ attempt' = [j \in Jobs |->
       IF j \in S /\ Eligible(j)
       THEN Advanced(j, j \in kept /\ job'[j].state = "paused") ELSE attempt[j]]
  /\ receipt' = [r \in Requests |->
       IF Pending(r) /\ receipt[r].job \in S /\ Eligible(receipt[r].job)
            /\ attempt[receipt[r].job].pending = r
       THEN [receipt[r] EXCEPT !.status = "blocked",
                               !.at = Fence(job'[receipt[r].job])]
       ELSE receipt[r]]

-----------------------------------------------------------------------------
(* Commands.                                                               *)

JobAdd(j) ==
  /\ ~Stored(j)
  /\ job' = [job EXCEPT ![j] = [gen |-> 0, rev |-> 0, state |-> "queued",
                                auth |-> FALSE, hold |-> FALSE]]
  /\ UNCHANGED <<gate, epoch, receipt, attempt, retired, staged, published,
                 claim, cleanup>>

\* apply_queue_gate without a contained transfer.
SetGate(g) ==
  /\ gate' = g
  /\ UNCHANGED <<job, epoch, receipt, attempt, retired, staged, published,
                 claim, cleanup>>

\* apply_queue_gate("paused") that also pauses the transfer the worker contained.
SetGateContained(j, recoverable) ==
  /\ Stored(j)
  /\ job[j].state \in {"downloading", "finalizing", "paused"}
  /\ gate' = "paused"
  /\ UNCHANGED <<epoch, retired, staged, published, claim, cleanup>>
  /\ \/ job[j].state = "paused" /\ job' = job
     \/ /\ job[j].state # "paused" /\ CanMove(j)
        /\ job' = [job EXCEPT ![j] = Moved(j, "paused")]
  /\ AdvancePointers({j}, Kept(j, recoverable))

Controlled(row, action) ==
  CASE action = "pause"     -> [row EXCEPT !.hold = TRUE, !.state = "paused"]
    [] action = "resume"    -> [row EXCEPT !.hold = FALSE,
                                 !.state = IF @ = "paused" THEN "queued" ELSE @]
    [] action = "remove"    -> [row EXCEPT !.state = "removed", !.auth = FALSE,
                                           !.hold = TRUE]
    [] action = "start_now" -> [row EXCEPT !.hold = FALSE, !.auth = TRUE,
                                           !.state = "queued"]

\* apply_job_control at the job's current revision; any other outcome is a reply.
JobControl(j, action, contained, recoverable) ==
  LET next    == Controlled(job[j], action)
      changed == next # job[j]
  IN
  /\ Open(j)
  /\ action = "remove" /\ job[j].state \in ActiveStates => contained
  /\ action = "start_now" => gate = "running"
  /\ changed => CanMove(j)
  /\ job' = IF changed THEN [job EXCEPT ![j] = [next EXCEPT !.rev = @ + 1]] ELSE job
  /\ UNCHANGED <<gate, epoch, retired, staged, published, claim, cleanup>>
  /\ AdvancePointers(IF changed \/ (contained /\ action = "pause") THEN {j} ELSE {},
                     Kept(j, action = "pause" /\ recoverable))

-----------------------------------------------------------------------------
(* Explicit dispatch.                                                      *)

\* A job still resolving does not count as a body.
OtherBody_Faulty(j) == \E k \in Jobs \ {j} : Stored(k) /\ job[k].state = "downloading"
OtherBody(j) == \E k \in Jobs \ {j} : Stored(k) /\ job[k].state \in BodyStates

(***************************************************************************)
(* prepare_direct_dispatch of a new request.  exact: the caller's epoch,   *)
(* generation and revision are the current ones.  ready: the controller    *)
(* may launch.  due: schedule, bandwidth limit and retry time allow it.    *)
(***************************************************************************)
DispatchVerdict(j, exact, ready, due) ==
  CASE ~exact -> "stale"
    [] exact /\ job[j].state \in {"finalizing", "paused"} ->
         IF ~Eligible(j) THEN "blocked"
         ELSE IF attempt[j].pending = NoRow THEN "recover" ELSE "error"
    [] exact /\ job[j].state = "queued" ->
         IF /\ ~OtherBody(j)
            /\ ready /\ due
            /\ gate = "running" /\ job[j].auth /\ ~job[j].hold
         THEN "plan" ELSE "blocked"
    [] OTHER -> "blocked"

Receipt(j, status, fence) == [job |-> j, status |-> status, at |-> fence]

RefuseDispatch(r, j, exact, ready, due) ==
  /\ receipt[r] = NoRow /\ Stored(j)
  /\ DispatchVerdict(j, exact, ready, due) \in {"stale", "blocked"}
  /\ receipt' = [receipt EXCEPT ![r] =
       Receipt(j, DispatchVerdict(j, exact, ready, due), Fence(job[j]))]
  /\ UNCHANGED <<job, gate, epoch, attempt, retired, staged, published, claim,
                 cleanup>>

AdmitDispatch(r, j, ready, due) ==
  /\ receipt[r] = NoRow /\ Stored(j) /\ CanMove(j)
  /\ DispatchVerdict(j, TRUE, ready, due) = "plan"
  /\ job' = [job EXCEPT ![j] = Moved(j, "resolving")]
  /\ receipt' = [receipt EXCEPT ![r] = Receipt(j, "pending", Fence(Moved(j, "resolving")))]
  /\ UNCHANGED <<gate, epoch, attempt, retired, staged, published, claim, cleanup>>

\* _prepare_exact_publication_recovery: the attempt itself is the authority.
AdmitRecovery(r, j) ==
  /\ receipt[r] = NoRow /\ Stored(j)
  /\ DispatchVerdict(j, TRUE, FALSE, FALSE) = "recover"
  /\ receipt' = [receipt EXCEPT ![r] = Receipt(j, "pending", Fence(job[j]))]
  /\ attempt' = [attempt EXCEPT ![j].pending = r]
  /\ UNCHANGED <<job, gate, epoch, retired, staged, published, claim, cleanup>>

\* A replay of the attempt's own recovery receipt returns its plan unchanged.
ReplayIsRecovery(r) ==
  Pending(r) /\ Eligible(receipt[r].job) /\ attempt[receipt[r].job].pending = r

\* Any other replayed pending receipt can no longer prove an effect: it settles.
ReplayPending(r) ==
  /\ Pending(r) /\ Stored(receipt[r].job)
  /\ Eligible(receipt[r].job) => attempt[receipt[r].job].pending = NoRow
  /\ receipt' = [receipt EXCEPT ![r] =
       Receipt(@.job, "blocked", Fence(job[@.job]))]
  /\ UNCHANGED <<job, gate, epoch, attempt, retired, staged, published, claim,
                 cleanup>>

\* The receipt's plan was made for the job's present row.
AtRow_Faulty(r) == receipt[r].at.gen = job[receipt[r].job].gen  \* revision ignored
AtRow(r) == receipt[r].at = Fence(job[receipt[r].job])

\* A pending receipt whose plan still owns the job in state s.
OwnsPending(r, s) ==
  /\ Pending(r)
  /\ Stored(receipt[r].job) /\ AtRow(r)
  /\ receipt[r].at.state = s

AdvanceToDownloading(r) ==
  LET j == receipt[r].job IN
  /\ OwnsPending(r, "resolving") /\ CanMove(j)
  /\ job' = [job EXCEPT ![j] = Moved(j, "downloading")]
  /\ receipt' = [receipt EXCEPT ![r].at = Fence(Moved(j, "downloading"))]
  /\ UNCHANGED <<gate, epoch, attempt, retired, staged, published, claim, cleanup>>

FinishDispatch(r) ==
  /\ OwnsPending(r, "downloading")
  /\ receipt' = [receipt EXCEPT ![r].status = "started"]
  /\ UNCHANGED <<job, gate, epoch, attempt, retired, staged, published, claim,
                 cleanup>>

AbortDispatch(r) ==
  LET j == receipt[r].job IN
  /\ Pending(r) /\ receipt[r].at.state \in BodyStates
  /\ Stored(j) /\ job[j].gen = receipt[r].at.gen
  /\ \/ job[j].state = "paused" /\ job' = job
     \/ /\ job[j].state \in BodyStates /\ CanMove(j)
        /\ job' = [job EXCEPT ![j] = Moved(j, "paused")]
  /\ receipt' = [receipt EXCEPT ![r] = Receipt(j, "blocked", Fence(job'[j]))]
  /\ UNCHANGED <<gate, epoch, attempt, retired, staged, published, claim, cleanup>>

-----------------------------------------------------------------------------
(* Terminal observation, staging, publication.                             *)

\* _require_terminal_owner
TerminalOwner(r) ==
  /\ Started(r) /\ Stored(receipt[r].job) /\ AtRow(r)
  /\ receipt[r].at.state = "downloading"
  /\ EngineReady

FinalizeTerminal(r) ==
  LET j == receipt[r].job IN
  /\ TerminalOwner(r) /\ CanMove(j)
  /\ job' = [job EXCEPT ![j] = Moved(j, "finalizing")]
  /\ UNCHANGED <<gate, epoch, receipt, attempt, retired, staged, published, claim,
                 cleanup>>

\* fail_direct_terminal; the retry authority chooses the state.
FailTerminal(r, s) ==
  LET j == receipt[r].job IN
  /\ s \in FailureStates
  /\ TerminalOwner(r) /\ CanMove(j)
  /\ job' = [job EXCEPT ![j] = Moved(j, s)]
  /\ UNCHANGED <<gate, epoch, receipt, attempt, retired, staged, published, claim,
                 cleanup>>

\* The job's row is the one FinalizeTerminal made of the receipt's row.
Finalized(j, at) ==
  Fence(job[j]) = [gen |-> at.gen, rev |-> at.rev + 1, state |-> "finalizing"]

\* _require_direct_stage_authority
StageAuthority(r) ==
  /\ Started(r) /\ Stored(receipt[r].job)
  /\ receipt[r].at.state = "downloading"
  /\ Finalized(receipt[r].job, receipt[r].at)
  /\ EngineReady

CanBind(j, p) == staged[j] \in {NoRow, p}

BindStaged(r, p) ==
  LET j == receipt[r].job IN
  /\ StageAuthority(r)
  /\ CanBind(j, p)
  /\ staged' = [staged EXCEPT ![j] = p]
  /\ UNCHANGED <<job, gate, epoch, receipt, attempt, retired, published, claim,
                 cleanup>>

\* A closed predecessor is archived as proof; it lends no authority.  The code
\* also refuses an original request that is already archived: OriginalUsedOnce
\* shows that this cannot come up.
ReservePublication(r, p) ==
  LET j == receipt[r].job IN
  /\ StageAuthority(r)
  /\ staged[j] = p
  /\ \/ attempt[j] = NoRow /\ retired' = retired
     \/ /\ attempt[j] # NoRow
        /\ attempt[j].status = "closed" /\ attempt[j].at.rev < job[j].rev
        /\ attempt[j].at.gen <= job[j].gen /\ attempt[j].epoch <= epoch
        /\ retired' = retired \cup {attempt[j].orig}
  /\ attempt' = [attempt EXCEPT ![j] =
       [status |-> "eligible", orig |-> r, at |-> Fence(job[j]),
        epoch |-> epoch, pending |-> NoRow]]
  /\ UNCHANGED <<job, gate, epoch, receipt, staged, published, claim, cleanup>>

(***************************************************************************)
(* complete_direct_publication.  live: called with the stage of the        *)
(* running transfer, on the attempt it reserved; otherwise on behalf of    *)
(* the pending recovery receipt.                                           *)
(***************************************************************************)
CompletePublication(j, p, live) ==
  /\ Stored(j) /\ PointerCurrent(j) /\ CanMove(j)
  /\ live <=> attempt[j].pending = NoRow
  /\ live => StageAuthority(attempt[j].orig)
  /\ staged[j] = p /\ published[j] \in {NoRow, p}
  /\ job' = [job EXCEPT ![j] = Moved(j, "completed")]
  /\ published' = [published EXCEPT ![j] = p]
  /\ attempt' = [attempt EXCEPT ![j].status = "finished",
                                ![j].at = Fence(job'[j]), ![j].pending = NoRow]
  /\ receipt' = [r \in Requests |->
       IF r = attempt[j].pending
       THEN Receipt(j, "started", Fence(job'[j])) ELSE receipt[r]]
  /\ cleanup' = [cleanup EXCEPT ![j] = [phase |-> "pending", activation |-> NoRow]]
  /\ UNCHANGED <<gate, epoch, retired, staged, claim>>

Aborted_Faulty(r) == Receipt(receipt[r].job, "blocked", Fence(job[receipt[r].job]))
Aborted(r) ==
  IF Pending(r) THEN Receipt(receipt[r].job, "blocked", Fence(job[receipt[r].job]))
  ELSE receipt[r]

\* abort_exact_publication_recovery
AbortRecovery(r) ==
  LET j == receipt[r].job IN
  /\ receipt[r] # NoRow /\ Stored(j)
  /\ receipt[r].at.state \notin BodyStates   \* r was issued by AdmitRecovery
  /\ receipt' = [receipt EXCEPT ![r] = Aborted(r)]
  /\ attempt' = IF attempt[j] # NoRow /\ attempt[j].pending = r
                THEN [attempt EXCEPT ![j].pending = NoRow] ELSE attempt
  /\ UNCHANGED <<job, gate, epoch, retired, staged, published, claim, cleanup>>

\* pause_active_direct_job at the job's exact generation and revision.
PauseActive(j, recoverable) ==
  /\ Stored(j) /\ job[j].state \in {"downloading", "finalizing"} /\ CanMove(j)
  /\ job' = [job EXCEPT ![j] = Moved(j, "paused")]
  /\ UNCHANGED <<gate, epoch, retired, staged, published, claim, cleanup>>
  /\ AdvancePointers({j}, Kept(j, recoverable))

-----------------------------------------------------------------------------
(* Engine claim, cleanup claim, cold start.                                *)

ClaimOrder == [none |-> "fence", fence |-> "bound", bound |-> "ready"]

\* reserve_direct_engine_activation, bind_..._fence, _bind_..._capability.
AdvanceClaim ==
  /\ claim.kind # "ready"
  /\ claim.kind # "none" => claim.epoch = epoch
  /\ claim' = [kind |-> ClaimOrder[claim.kind], epoch |-> epoch]
  /\ UNCHANGED <<job, gate, epoch, receipt, attempt, retired, staged, published,
                 cleanup>>

\* The three compare-and-clear deletes; a stale or absent claim is a reply.
ClearClaim ==
  /\ claim.kind # "none"
  /\ claim' = [kind |-> "none", epoch |-> 0]
  /\ UNCHANGED <<job, gate, epoch, receipt, attempt, retired, staged, published,
                 cleanup>>

\* activate_direct_cleanup: right after completion, or for a later request q.
ActivateCleanup(j, q) ==
  /\ cleanup[j] # NoRow /\ claim.kind = "none"
  /\ \/ q = NoRow /\ cleanup[j] = [phase |-> "pending", activation |-> NoRow]
          /\ attempt[j].epoch = epoch
     \/ /\ q # NoRow /\ cleanup[j].phase \in {"pending", "certified"}
        /\ receipt[q] = Receipt(j, "blocked", Fence(job[j]))
  /\ cleanup' = [cleanup EXCEPT ![j].activation = epoch]
  /\ UNCHANGED <<job, gate, epoch, receipt, attempt, retired, staged, published,
                 claim>>

CleanupOrder == [pending |-> "certified", certified |-> "finished"]

\* certify_direct_cleanup and finish_direct_cleanup
AdvanceCleanup(j) ==
  /\ cleanup[j] # NoRow /\ claim.kind = "none"
  /\ cleanup[j].phase \in {"pending", "certified"}
  /\ cleanup[j].activation = epoch
  /\ cleanup' = [cleanup EXCEPT ![j].phase = CleanupOrder[@]]
  /\ UNCHANGED <<job, gate, epoch, receipt, attempt, retired, staged, published,
                 claim>>

\* recover_cold_start: a new epoch, a paused gate, every open job fenced.
RecoverCold ==
  /\ epoch < MaxEpoch
  /\ \A j \in Jobs : Open(j) => CanMove(j)
  /\ epoch' = epoch + 1
  /\ gate' = "paused"
  /\ job' = [j \in Jobs |->
       IF Open(j)
       THEN [job[j] EXCEPT !.gen = @ + 1, !.rev = @ + 1, !.state = "paused"]
       ELSE job[j]]
  /\ UNCHANGED <<retired, staged, published, claim, cleanup>>
  /\ AdvancePointers({j \in Jobs : Stored(j)}, {j \in Jobs : PointerCurrent(j)})

-----------------------------------------------------------------------------
Actions == {"pause", "resume", "remove", "start_now"}

StoreNext ==
  \/ \E j \in Jobs : JobAdd(j)
  \/ \E g \in {"paused", "running"} : SetGate(g)
  \/ \E j \in Jobs, recoverable \in BOOLEAN : SetGateContained(j, recoverable)
  \/ \E j \in Jobs, a \in Actions, contained, recoverable \in BOOLEAN :
       JobControl(j, a, contained, recoverable)
  \/ \E r \in Requests, j \in Jobs, exact, ready, due \in BOOLEAN :
       RefuseDispatch(r, j, exact, ready, due)
  \/ \E r \in Requests, j \in Jobs, ready, due \in BOOLEAN :
       AdmitDispatch(r, j, ready, due)
  \/ \E r \in Requests, j \in Jobs : AdmitRecovery(r, j)
  \/ \E r \in Requests : ReplayPending(r)
  \/ \E r \in Requests : AdvanceToDownloading(r)
  \/ \E r \in Requests : FinishDispatch(r)
  \/ \E r \in Requests : AbortDispatch(r)
  \/ \E r \in Requests : FinalizeTerminal(r)
  \/ \E r \in Requests, s \in FailureStates : FailTerminal(r, s)
  \/ \E r \in Requests, p \in Payloads : BindStaged(r, p)
  \/ \E r \in Requests, p \in Payloads : ReservePublication(r, p)
  \/ \E j \in Jobs, p \in Payloads, live \in BOOLEAN : CompletePublication(j, p, live)
  \/ \E r \in Requests : AbortRecovery(r)
  \/ \E j \in Jobs, recoverable \in BOOLEAN : PauseActive(j, recoverable)
  \/ AdvanceClaim
  \/ ClearClaim
  \/ \E j \in Jobs, q \in Requests \cup {NoRow} : ActivateCleanup(j, q)
  \/ \E j \in Jobs : AdvanceCleanup(j)
  \/ RecoverCold

StoreSpec == StoreInit /\ [][StoreNext]_storeVars
-----------------------------------------------------------------------------
(* Properties.                                                             *)

(***************************************************************************)
(* The tables hold rows of their declared shape (the STRICT schemas and    *)
(* CHECKs of store.py).                                                    *)
(***************************************************************************)
TypeOK ==
  /\ job \in [Jobs -> JobRow \cup {NoRow}]
  /\ gate \in {"paused", "running"}
  /\ epoch \in Nat
  /\ receipt \in [Requests -> ReceiptRow \cup {NoRow}]
  /\ attempt \in [Jobs -> AttemptRow \cup {NoRow}]
  /\ retired \subseteq Requests
  /\ staged \in [Jobs -> Payloads \cup {NoRow}]
  /\ published \in [Jobs -> Payloads \cup {NoRow}]
  /\ claim \in [kind: {"none", "fence", "bound", "ready"}, epoch: Nat]
  /\ cleanup \in [Jobs -> CleanupRow \cup {NoRow}]

(***************************************************************************)
(* A publication attempt that may still publish always points at the job's *)
(* present row and at the present worker epoch, whatever controls, gates   *)
(* and cold starts came between: _read_publication_attempt never meets an  *)
(* eligible attempt it has to reject as stale.                             *)
(***************************************************************************)
EligibleIsCurrent ==
  \A j \in Jobs : Eligible(j) =>
    /\ Stored(j) /\ PointerCurrent(j)
    /\ job[j].state \in {"finalizing", "paused"}

(***************************************************************************)
(* A job at work is backed by the receipt of the dispatch that put it      *)
(* there.  A body-capable job has it at exactly its row, not yet answered  *)
(* or answered by a replay; a finalizing job has its started receipt one   *)
(* revision behind, without which the payload could never be staged.       *)
(***************************************************************************)
BackedBy(r, j) ==
  /\ receipt[r] # NoRow /\ receipt[r].job = j
  /\ \/ /\ job[j].state \in BodyStates
        /\ receipt[r].at = Fence(job[j])
        /\ \/ receipt[r].status \in {"pending", "blocked"}
           \/ receipt[r].status = "started" /\ job[j].state = "downloading"
     \/ /\ job[j].state = "finalizing"
        /\ receipt[r].status = "started"
        /\ receipt[r].at = [Fence(job[j]) EXCEPT !.rev = @ - 1, !.state = "downloading"]
ActiveIsBacked ==
  \A j \in Jobs : Stored(j) /\ job[j].state \in ActiveStates =>
    \E r \in Requests : BackedBy(r, j)

(***************************************************************************)
(* At most one job of the store is in a state in which an engine may       *)
(* transfer its body (_has_other_active_direct_dispatch).                  *)
(***************************************************************************)
OneBody ==
  \A j, k \in Jobs :
    /\ Stored(j) /\ job[j].state \in BodyStates
    /\ Stored(k) /\ job[k].state \in BodyStates
    => j = k

(***************************************************************************)
(* A job is completed exactly when its attempt is finished at the          *)
(* completed row, its final binding is the staged inode, and a cleanup     *)
(* claim was minted with it: completion is never recorded without proof.   *)
(***************************************************************************)
CompletedIsProven ==
  \A j \in Jobs :
    /\ Stored(j) /\ job[j].state = "completed" =>
         /\ attempt[j] # NoRow /\ attempt[j].status = "finished"
         /\ attempt[j].at = Fence(job[j])
         /\ staged[j] # NoRow /\ published[j] = staged[j]
         /\ cleanup[j] # NoRow
    /\ published[j] # NoRow \/ cleanup[j] # NoRow
         => Stored(j) /\ job[j].state = "completed"

(***************************************************************************)
(* A user's hold and a job at work exclude each other: no sequence of      *)
(* controls, dispatches and restarts leaves a held job anywhere but        *)
(* paused, removed, or completed by an explicit recovery of its payload.   *)
(***************************************************************************)
HeldIsIdle ==
  \A j \in Jobs : Stored(j) /\ job[j].hold =>
  job[j].state \in {"paused", "removed", "completed"}

(***************************************************************************)
(* A dispatch receipt justifies at most one publication attempt: the       *)
(* original request of the present attempt is never also a retired one     *)
(* (_read_publication_attempt raises "also retired").                      *)
(***************************************************************************)
OriginalUsedOnce == \A j \in Jobs : attempt[j] # NoRow => attempt[j].orig \notin retired

(***************************************************************************)
(* The rows of a job agree with each other: whatever legal sequence led    *)
(* here, what is at work is backed by its receipt, no held job is at work, *)
(* and no receipt is used twice.                                           *)
(***************************************************************************)
RowsAreBacked == TypeOK /\ ActiveIsBacked /\ HeldIsIdle /\ OriginalUsedOnce

\* A settled answer to a dispatch request is the answer for ever.
SettledReceiptsStand ==
  [][\A r \in Requests : Settled(r) => receipt'[r] = receipt[r]]_storeVars

\* The staged and the final inode of a job are bound once.
BindingsWriteOnce ==
  [][\A j \in Jobs :
       /\ staged[j] # NoRow => staged'[j] = staged[j]
       /\ published[j] # NoRow => published'[j] = published[j]]_storeVars

(***************************************************************************)
(* No plan survives the row it was made for: every change of a job's row   *)
(* raises its revision, generations never fall, and a removed or completed *)
(* job never changes again.                                                *)
(***************************************************************************)
RowsAreFenced ==
  [][\A j \in Jobs : Stored(j) /\ job'[j] # job[j] =>
       /\ job[j].state \notin TerminalStates
       /\ job'[j].rev = job[j].rev + 1
       /\ job'[j].gen >= job[j].gen]_storeVars
=============================================================================
