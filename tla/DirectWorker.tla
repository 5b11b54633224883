---------------------------- MODULE DirectWorker ----------------------------
(***************************************************************************)
(* The worker process that owns the direct path: the single-threaded main  *)
(* loop of headless/src/hermes_downloads/worker.py, its observer thread,   *)
(* the aria2 engine, the partial and final files, crash, orderly shutdown  *)
(* and cold start.                                                         *)
(*                                                                         *)
(* A turn of the loop serves at most one request (pc = "main") and then    *)
(* polls the owner (pc = "poll"): the poll reaps an observation that has   *)
(* ended and launches the next one.  A turn without a request is a poll    *)
(* taken at "main".                                                        *)
(*                                                                         *)
(* Durable state and its transactions come from DirectStore: a worker step *)
(* conjoins at most one transaction, so a crash can fall between any two.  *)
(* A handler of several transactions has pc values of its own; nothing     *)
(* else of the worker thread runs until it ends, while the observer, the   *)
(* engine and the file system do.                                          *)
(*                                                                         *)
(* At MaxRevision users issue no further command (the bound of the model), *)
(* while a step the worker takes by itself fails as the code's             *)
(* OverflowError makes it fail.                                            *)
(***************************************************************************)
EXTENDS DirectStore

CONSTANTS
  SharedLane,  \* TRUE: other owners compete for the process-wide observer lane
  Tampering,   \* TRUE: files under the download root change behind the worker
  Foreign      \* a final file that is not ours

ASSUME WorkerAssumption ==
  /\ SharedLane \in BOOLEAN /\ Tampering \in BOOLEAN
  /\ Foreign \notin Payloads /\ Foreign # NoRow
  /\ NoRow \notin Jobs

VARIABLES
  pc,      \* what the worker thread is in the middle of
  disp,    \* request of the dispatch handler that is running
  own,     \* the _DirectOwner
  obs,     \* the observer thread and its result
  engine,  \* the aria2 process and its one transfer
  disk     \* partial and final file of each job

workerVars == <<pc, disp, own, obs, engine, disk>>
vars == <<job, gate, epoch, receipt, attempt, retired, staged, published,
          claim, cleanup, pc, disp, own, obs, engine, disk>>

OrNoRow(S) == S \cup {NoRow}
PlanRow == [job: Jobs, req: Requests, gen: Nat, rev: Revisions]
PublicationRow == [job: Jobs, gen: Nat, rev: Revisions, rec: OrNoRow(Requests),
                   stage: BOOLEAN, seen: BOOLEAN]
PermitRow == [revoked: BOOLEAN, attempted: BOOLEAN, inflight: BOOLEAN]
OwnerRow ==
  [ctl: {"none", "ready", "closed"}, blocked: BOOLEAN, closeAfter: BOOLEAN,
   plan: OrNoRow(PlanRow), work: {"none", "terminal", "stage", "prepare"},
   pay: OrNoRow(Payloads), pub: OrNoRow(PublicationRow), permit: OrNoRow(PermitRow),
   cancel: BOOLEAN]
ObserverStates(kinds, sts) ==
  [kind: kinds, job: Jobs, pay: OrNoRow(Payloads), st: sts,
   res: {"none", "ok", "fail", "stock"}]
ObserverRow == ObserverStates({"publish"}, {"run", "link", "verify", "done"})
  \cup ObserverStates({"terminal", "stage", "prepare", "recover"}, {"run", "done"})
BodyRow == [job: Jobs, gen: Nat, st: {"paused", "active", "complete", "error"}]

ASSUME NoRowIsNoRecord ==
  NoRow \notin PlanRow \cup PublicationRow \cup PermitRow \cup ObserverRow \cup BodyRow

(***************************************************************************)
(* ctl: direct_controller is None ("none"), ready, or closed but kept.     *)
(* plan: active_direct_plan.  work: the active terminal, stage or          *)
(* preparation plan; pay: its verified file identity.  pub:                *)
(* active_publication with its active_recovery (rec), publication_stage    *)
(* (stage) and publication_observed (seen).                                *)
(***************************************************************************)
NewOwner(blocked) ==
  [ctl |-> "none", blocked |-> blocked, closeAfter |-> FALSE, plan |-> NoRow,
   work |-> "none", pay |-> NoRow, pub |-> NoRow, permit |-> NoRow, cancel |-> FALSE]
NoEngine == [live |-> FALSE, body |-> NoRow]
FreshPermit == [revoked |-> FALSE, attempted |-> FALSE, inflight |-> FALSE]

Init ==
  /\ StoreInit
  /\ pc = "main" /\ disp = NoRow /\ own = NewOwner(FALSE) /\ obs = NoRow
  /\ engine = NoEngine
  /\ disk = [partial |-> [j \in Jobs |-> NoRow], final |-> [j \in Jobs |-> NoRow]]

-----------------------------------------------------------------------------
(* What the main loop can do next.                                         *)

ObsDone == obs # NoRow /\ obs.st = "done"
ObsAlive == obs # NoRow /\ obs.st # "done"
PubWaiting == own.pub # NoRow /\ ~own.pub.seen

\* The poll that ends each turn has work for an observer thread.
NeedLaunch ==
  /\ obs = NoRow /\ ~own.closeAfter
  /\ \/ own.work = "prepare" \/ PubWaiting
     \/ own.ctl = "ready" /\ own.work \in {"terminal", "stage"}

Looping == pc \in {"main", "poll"}
Serving == pc = "main"
Served  == Serving /\ pc' = "poll" /\ UNCHANGED <<disp, own, obs, engine, disk>>

\* The job's row is still the one the active plan was made for.
PlanCurrent_Faulty ==
  own.plan # NoRow /\ job[own.plan.job].gen = own.plan.gen
    /\ job[own.plan.job].state = "downloading"
PlanCurrent ==
  own.plan # NoRow /\ job[own.plan.job].gen = own.plan.gen
    /\ job[own.plan.job].rev = own.plan.rev

(***************************************************************************)
(* close_owned_direct_controller once the caller's transaction, if any,    *)
(* has committed: the engine is gone and results in flight are void.  A    *)
(* live observer keeps the claim until it joins (closeAfter); otherwise it *)
(* is joined, and the claim is cleared in a transaction of its own.        *)
(***************************************************************************)
StoppedEngine_Faulty == IF ObsAlive THEN engine ELSE NoEngine  \* not under an observer
StoppedEngine == NoEngine
ClosedOwner(o) == [o EXCEPT !.ctl = "closed", !.work = "none"]
\* The caller aborts the active recovery too.  One of its own job is settled
\* by then; another job's takes a transaction of its own.
RecoversOther ==
  own.plan # NoRow /\ own.pub # NoRow /\ own.pub.rec # NoRow /\ own.pub.job # own.plan.job
CloseOwned(o) ==
  IF own.ctl = "none"
  THEN own' = o /\ pc' = "poll" /\ UNCHANGED <<disp, obs, engine>>
  ELSE /\ engine' = StoppedEngine
       /\ own' = [ClosedOwner(o) EXCEPT !.closeAfter = ObsAlive]
       /\ obs' = IF ObsAlive THEN obs ELSE NoRow
       /\ IF RecoversOther
          THEN pc' = "withdraw" /\ disp' = own.pub.rec
          ELSE pc' = (IF ObsAlive THEN "poll" ELSE "retire") /\ disp' = disp

\* The same call from a poll that has just consumed the observation.
CloseReaped(o) ==
  /\ obs' = NoRow
  /\ IF own.ctl = "none"
     THEN own' = o /\ pc' = "poll" /\ UNCHANGED engine
     ELSE own' = ClosedOwner(o) /\ engine' = NoEngine /\ pc' = "retire"

\* clear_owned_direct_claim and clear_owned_direct_controller_state
Cleared(o) == [o EXCEPT !.ctl = "none", !.closeAfter = FALSE, !.plan = NoRow,
                        !.work = "none"]
Retire ==
  /\ pc = "retire" /\ pc' = "poll"
  /\ ClearClaim
  /\ own' = Cleared(own)
  /\ UNCHANGED <<disp, obs, engine, disk>>

\* poll_direct_terminal after close_after_observer: the observer has exited.
RetireAfterObserver ==
  /\ Looping /\ own.closeAfter /\ ~ObsAlive
  /\ ClearClaim
  /\ own' = Cleared(own) /\ obs' = NoRow
  /\ pc' = "main"
  /\ UNCHANGED <<disp, engine, disk>>

-----------------------------------------------------------------------------
(* Commands.                                                               *)

ServeAdd(j) == JobAdd(j) /\ Served

\* revoke_publication: void the running publication, unless its link() is in
\* the kernel, in which case the command is refused with the permit revoked.
LinkInFlight_Faulty == FALSE  \* the command does not wait for a link() in progress
LinkInFlight == own.permit # NoRow /\ own.permit.inflight
Revoked(o) == [o EXCEPT !.cancel = TRUE,
  !.permit = IF @ = NoRow THEN NoRow ELSE [@ EXCEPT !.revoked = TRUE]]
Withdrawn(o) == [Revoked(o) EXCEPT
  !.work = IF @ = "prepare" THEN "none" ELSE @,
  !.pub = IF @ = NoRow THEN NoRow ELSE [@ EXCEPT !.rec = NoRow, !.stage = FALSE]]
Recoverable == IF own.permit # NoRow THEN own.permit.attempted
               ELSE own.pub # NoRow /\ own.pub.rec # NoRow
\* The transaction raised after the engine was closed: the command fails and
\* the owner stays blocked.
ContainmentFails ==
  /\ ~LinkInFlight /\ pc' = "poll"
  /\ IF own.ctl = "none"
     THEN own' = Withdrawn(own) /\ UNCHANGED <<obs, engine>>
     ELSE /\ own' = [ClosedOwner(Withdrawn(own)) EXCEPT !.blocked = TRUE]
          /\ engine' = NoEngine
          /\ obs' = IF ObsAlive THEN obs ELSE NoRow
  /\ UNCHANGED <<storeVars, disp, disk>>
RefuseInFlight ==
  /\ LinkInFlight /\ pc' = "poll"
  /\ own' = Revoked(own)
  /\ UNCHANGED <<storeVars, disp, obs, engine, disk>>

TrackedJob == IF own.plan # NoRow THEN own.plan.job
              ELSE IF own.pub # NoRow THEN own.pub.job ELSE NoRow

\* job_control with nothing of this job to contain.
ServeControl(j, action) ==
  /\ j # TrackedJob \/ action \in {"resume", "start_now"}
  /\ JobControl(j, action, FALSE, FALSE)
  /\ Served

\* Pause or removal of the tracked job, with its current revision.
ServeContainedControl(j, action) ==
  /\ Serving
  /\ j = TrackedJob /\ action \in {"pause", "remove"}
  /\ job[j].state \notin TerminalStates
  /\ \/ RefuseInFlight
     \/ /\ ~LinkInFlight
        /\ JobControl(j, action, TRUE, Recoverable)
        /\ CloseOwned([Withdrawn(own) EXCEPT !.pub = NoRow])
        /\ UNCHANGED disk

\* queue_gate with no transfer to contain.
ServeGate(g) ==
  /\ g = "running" \/ TrackedJob = NoRow
  /\ SetGate(g)
  /\ Served

\* The row and revision the gate transaction must find for the tracked job.
Contained == IF own.plan # NoRow THEN own.plan ELSE own.pub
ContainedCurrent ==
  /\ job[Contained.job].gen = Contained.gen /\ job[Contained.job].rev = Contained.rev
  /\ job[Contained.job].state \in {"downloading", "finalizing", "paused"}

\* Queue pause with a tracked transfer.  A stale publication attempt refuses
\* it before any effect; a stale row, only after the engine was closed.
ServeGatePause ==
  /\ Serving
  /\ TrackedJob # NoRow
  /\ own.pub # NoRow => PointerCurrent(own.pub.job)
  /\ \/ RefuseInFlight
     \/ /\ ~LinkInFlight /\ ContainedCurrent
        /\ SetGateContained(Contained.job, Recoverable)
        /\ CloseOwned([Withdrawn(own) EXCEPT !.pub = NoRow])
        /\ UNCHANGED disk
     \/ ~ContainedCurrent /\ ContainmentFails

-----------------------------------------------------------------------------
(* direct_engine_activate: fence, launch and bind, capability.             *)

ActivateReserve ==
  /\ \/ Serving /\ own.ctl = "none" /\ ~own.blocked /\ obs = NoRow
     \/ pc = "activate"
  /\ claim.kind = "none"
  /\ AdvanceClaim
  /\ pc' = "fenced"
  /\ UNCHANGED <<disp, own, obs, engine, disk>>

\* The owned engine is gone: its claim is cleared before a new one starts.
ActivateDiscard ==
  /\ Serving /\ own.ctl = "ready" /\ ~own.blocked /\ ~engine.live /\ obs = NoRow
  /\ ClearClaim
  /\ own' = Cleared(own)
  /\ pc' = "activate"
  /\ UNCHANGED <<disp, obs, engine, disk>>

\* The process exists from its launch on; on_engine_bound records it.
ActivateLaunch ==
  /\ pc = "fenced" /\ ~engine.live
  /\ engine' = [NoEngine EXCEPT !.live = TRUE]
  /\ UNCHANGED <<storeVars, pc, disp, own, obs, disk>>

ActivateBind ==
  /\ pc = "fenced" /\ engine.live
  /\ AdvanceClaim
  /\ pc' = "bound"
  /\ UNCHANGED <<disp, own, obs, engine, disk>>

ActivateReady ==
  /\ pc = "bound"
  /\ AdvanceClaim
  /\ own' = [own EXCEPT !.ctl = "ready"]
  /\ pc' = "poll"
  /\ UNCHANGED <<disp, obs, engine, disk>>

\* cleanup_owned_direct_candidate: the launched process is killed first.
ActivateFail ==
  /\ pc \in {"fenced", "bound"}
  /\ ClearClaim
  /\ engine' = NoEngine
  /\ pc' = "poll"
  /\ UNCHANGED <<disp, own, obs, disk>>

-----------------------------------------------------------------------------
(* direct_job_dispatch and execute_prepared_dispatch.                      *)

LaneFree == obs = NoRow
ControllerReady ==
  own.ctl = "ready" /\ ~own.blocked /\ own.plan = NoRow /\ LaneFree

ServeDispatchRefused(r, j) ==
  /\ \E exact, due \in BOOLEAN, busy \in {FALSE, SharedLane} :
       RefuseDispatch(r, j, exact, ControllerReady /\ ~busy, due)
  /\ Served

ServeDispatch(r, j) ==
  /\ Serving /\ ControllerReady
  /\ AdmitDispatch(r, j, TRUE, TRUE)
  /\ pc' = "resolved" /\ disp' = r
  /\ UNCHANGED <<own, obs, engine, disk>>

ServeReplay(r) == ReplayPending(r) /\ Served

\* A recovery plan is accepted only when no other observation owns the lane;
\* a refused one is aborted in a second transaction.
ServeRecovery(r, j) ==
  /\ Serving
  /\ AdmitRecovery(r, j)
  /\ \/ /\ LaneFree /\ own.pub = NoRow
        /\ own' = [own EXCEPT !.cancel = FALSE,
             !.pub = [job |-> j, gen |-> job[j].gen, rev |-> job[j].rev,
                      rec |-> r, stage |-> FALSE, seen |-> FALSE]]
        /\ pc' = "poll" /\ disp' = disp
     \/ /\ ~LaneFree \/ own.pub # NoRow \/ SharedLane
        /\ pc' = "unrecover" /\ disp' = r
        /\ UNCHANGED own
  /\ UNCHANGED <<obs, engine, disk>>
\* The refused request is answered but not settled.
ServeRecoveryRefused_Faulty ==
  /\ pc = "unrecover"
  /\ pc' = "poll" /\ disp' = NoRow
  /\ UNCHANGED <<storeVars, own, obs, engine, disk>>

ServeRecoveryRefused ==
  /\ pc \in {"unrecover", "withdraw"}
  /\ AbortRecovery(disp)
  /\ pc' = (IF pc = "withdraw" /\ ~own.closeAfter THEN "retire" ELSE "poll")
  /\ disp' = NoRow
  /\ UNCHANGED <<own, obs, engine, disk>>

DispatchAdd ==  \* workspace, marker binding, add_paused
  /\ pc = "resolved" /\ engine.live
  /\ engine' = [engine EXCEPT !.body =
       [job |-> receipt[disp].job, gen |-> receipt[disp].at.gen, st |-> "paused"]]
  /\ pc' = "added"
  /\ UNCHANGED <<storeVars, disp, own, obs, disk>>

DispatchAdvance ==
  /\ pc = "added"
  /\ AdvanceToDownloading(disp)
  /\ pc' = "advanced"
  /\ UNCHANGED <<disp, own, obs, engine, disk>>

\* resume: the engine continues the partial file, or creates one.
FreshPayloads ==
  {p \in Payloads : \A k \in Jobs : p \notin {disk.partial[k], disk.final[k], staged[k], published[k]}}
DispatchResume ==
  LET j == receipt[disp].job IN
  /\ pc = "advanced" /\ engine.live
  /\ engine' = [engine EXCEPT !.body.st = "active"]
  /\ \/ disk.partial[j] # NoRow /\ disk' = disk
     \/ disk.partial[j] = NoRow
          /\ \E p \in FreshPayloads : disk' = [disk EXCEPT !.partial[j] = p]
  /\ own' = [own EXCEPT !.work = "terminal",
       !.plan = [job |-> j, req |-> disp, gen |-> job[j].gen, rev |-> job[j].rev]]
  /\ pc' = "resumed"
  /\ UNCHANGED <<storeVars, disp, obs>>

DispatchFinish ==
  /\ pc = "resumed"
  /\ FinishDispatch(disp)
  /\ pc' = "poll" /\ disp' = NoRow
  /\ UNCHANGED <<own, obs, engine, disk>>

\* Any failure on the way: contain the engine, then settle the receipt.
DispatchFail ==
  /\ pc \in {"resolved", "added", "advanced", "resumed"}
  /\ engine' = NoEngine /\ disp' = NoRow
  /\ \/ AbortDispatch(disp) /\ own' = ClosedOwner(own) /\ pc' = "retire"
     \/ /\ ~CanMove(receipt[disp].job) /\ pc' = "poll"
        /\ own' = [ClosedOwner(own) EXCEPT !.blocked = TRUE]
        /\ UNCHANGED storeVars
  /\ UNCHANGED <<obs, disk>>

-----------------------------------------------------------------------------
(* The poll launches one observer thread.                                  *)

Launch(kind, j, p) ==
  /\ Looping /\ NeedLaunch
  /\ obs' = [kind |-> kind, job |-> j, pay |-> p, st |-> "run", res |-> "none"]
  /\ pc' = "main"
  /\ UNCHANGED <<storeVars, disp, own, engine, disk>>

LaunchPreparation == own.work = "prepare" /\ Launch("prepare", own.plan.job, own.pay)
LaunchPublication ==
  /\ own.work # "prepare" /\ PubWaiting
  /\ Launch(IF own.pub.rec = NoRow THEN "publish" ELSE "recover",
            own.pub.job, staged[own.pub.job])
LaunchTransfer ==
  /\ ~PubWaiting /\ own.ctl = "ready" /\ own.work \in {"terminal", "stage"}
  /\ Launch(own.work, own.plan.job, own.pay)

\* A poll with nothing to reap, and nothing to launch or no lane to do it in.
PollIdle ==
  /\ pc = "poll" /\ pc' = "main"
  /\ IF own.closeAfter THEN ObsAlive
     ELSE ~ObsDone /\ (NeedLaunch => SharedLane)
  /\ UNCHANGED <<storeVars, disp, own, obs, engine, disk>>

-----------------------------------------------------------------------------
(* The observer thread.  It may fail at any point (an RPC or I/O error).   *)

Observed(res, p) == obs' = [obs EXCEPT !.st = "done", !.res = res, !.pay = p]
Observing(kinds, st) == obs # NoRow /\ obs.kind \in kinds /\ obs.st = st
Partial == disk.partial[obs.job]
Final   == disk.final[obs.job]
\* Both names of a published payload are the inode that was verified.
NamesHold_Faulty == TRUE
NamesHold == Partial = obs.pay /\ Final = obs.pay

\* DirectAria2Controller.observe_terminal
ObserveTerminal ==
  /\ Observing({"terminal"}, "run")
  /\ engine.live /\ engine.body # NoRow /\ engine.body.job = obs.job
  /\ \/ engine.body.st = "active" /\ Observed("none", NoRow)
     \/ engine.body.st = "complete" /\ Partial # NoRow /\ Observed("ok", Partial)
     \/ engine.body.st = "error" /\ Observed("stock", NoRow)
  /\ UNCHANGED <<storeVars, pc, disp, own, engine, disk>>

\* attest_staged_partial_payload; prepare_publication_payload (hash, cancellable);
\* _publish_prepared_payload with existing_only.
ObserveFiles ==
  /\ \/ Observing({"stage"}, "run") /\ Partial = obs.pay
     \/ Observing({"prepare"}, "run") /\ Partial = obs.pay /\ ~own.cancel
     \/ Observing({"recover"}, "run") /\ NamesHold /\ ~own.cancel
  /\ Observed("ok", obs.pay)
  /\ UNCHANGED <<storeVars, pc, disp, own, engine, disk>>

PermitOpen == own.permit # NoRow /\ ~own.permit.revoked /\ ~own.permit.attempted

\* _publish_prepared_payload: enter the permit, link(), verify what is there.
\* The cancel flag was read earlier; only the permit decides at this instant.
PublishEnter ==
  /\ Observing({"publish"}, "run")
  /\ Partial = obs.pay /\ Final = NoRow
  /\ PermitOpen
  /\ own' = [own EXCEPT !.permit.attempted = TRUE, !.permit.inflight = TRUE]
  /\ obs' = [obs EXCEPT !.st = "link"]
  /\ UNCHANGED <<storeVars, pc, disp, engine, disk>>
PublishLink ==
  /\ Observing({"publish"}, "link")
  /\ own' = [own EXCEPT !.permit.inflight = FALSE]
  /\ \/ /\ Final = NoRow /\ Partial # NoRow
        /\ disk' = [disk EXCEPT !.final[obs.job] = Partial]
        /\ obs' = [obs EXCEPT !.st = "verify"]
     \/ Observed("fail", NoRow) /\ UNCHANGED disk
  /\ UNCHANGED <<storeVars, pc, disp, engine>>
PublishVerify ==
  /\ Observing({"publish"}, "verify")
  /\ NamesHold /\ ~own.cancel
  /\ Observed("ok", obs.pay)
  /\ UNCHANGED <<storeVars, pc, disp, own, engine, disk>>

ObserveFail ==
  /\ ObsAlive /\ obs.st \in {"run", "verify"}
  /\ Observed("fail", NoRow)
  /\ UNCHANGED <<storeVars, pc, disp, own, engine, disk>>

-----------------------------------------------------------------------------
(* The poll reaps an observation; its token must still be the active one.  *)

Reaping == Looping /\ ~own.closeAfter /\ ObsDone
Reaped(kind) == Reaping /\ obs.kind = kind /\ own.work = kind

\* The persist callback of a close raised: run_worker ends with an error.
Die ==
  /\ pc' = "down" /\ disp' = NoRow /\ own' = NewOwner(FALSE) /\ obs' = NoRow
  /\ engine' = NoEngine
  /\ UNCHANGED <<storeVars, disk>>

PublicationDropped_Faulty == own  \* the publication stays active
PublicationDropped == [own EXCEPT !.pub = NoRow, !.permit = NoRow]

\* Pause the plan's job at the plan's revision and close, or die trying.
PauseTracked(fence, recoverable) ==
  IF job[fence.job].gen = fence.gen /\ job[fence.job].rev = fence.rev
       /\ job[fence.job].state \in {"downloading", "finalizing"}
       /\ CanMove(fence.job)
  THEN /\ PauseActive(fence.job, recoverable)
       /\ CloseReaped([PublicationDropped EXCEPT !.work = "none"])
       /\ UNCHANGED <<disp, disk>>
  ELSE Die

CloseWithoutPersist ==
  CloseReaped(own) /\ UNCHANGED <<storeVars, disp, disk>>

ReapVoid ==  \* a result nobody waits for any more, or one with nothing to say
  /\ Reaping
  /\ \/ obs.kind \in {"terminal", "stage", "prepare"} /\ own.work # obs.kind
     \/ obs.kind \in {"publish", "recover"} /\ own.pub = NoRow
     \/ Reaped("terminal") /\ obs.res = "none" /\ PlanCurrent
  /\ obs' = NoRow
  /\ pc' = "poll"
  /\ UNCHANGED <<storeVars, disp, own, engine, disk>>

ReapTerminal ==
  /\ Reaped("terminal")
  /\ \/ ~PlanCurrent /\ CloseWithoutPersist
     \/ /\ PlanCurrent /\ obs.res = "ok"
        /\ FinalizeTerminal(own.plan.req)
        /\ own' = [own EXCEPT !.plan.rev = @ + 1, !.work = "stage", !.pay = obs.pay]
        /\ obs' = NoRow
        /\ pc' = "poll"
        /\ UNCHANGED <<disp, engine, disk>>
     \/ /\ PlanCurrent /\ obs.res \in {"ok", "fail"}  \* marker or evidence rejected
        /\ PauseTracked(own.plan, FALSE)
     \/ /\ PlanCurrent /\ obs.res = "stock"
        /\ \E s \in FailureStates : FailTerminal(own.plan.req, s)
        /\ CloseReaped(own)
        /\ UNCHANGED <<disp, disk>>
     \/ PlanCurrent /\ obs.res = "stock" /\ ~CanMove(own.plan.job) /\ Die

ReapStage ==
  /\ Reaped("stage")
  /\ \/ /\ obs.res = "ok"
        /\ BindStaged(own.plan.req, obs.pay)
        /\ own' = [own EXCEPT !.work = "prepare", !.cancel = FALSE]
        /\ obs' = NoRow
        /\ pc' = "poll"
        /\ UNCHANGED <<disp, engine, disk>>
     \/ PlanCurrent /\ PauseTracked(own.plan, FALSE)
     \/ ~PlanCurrent /\ CloseWithoutPersist

ReapPreparation ==
  /\ Reaped("prepare")
  /\ \/ /\ obs.res = "ok"
        /\ ReservePublication(own.plan.req, obs.pay)
        /\ own' = [own EXCEPT !.work = "none", !.permit = FreshPermit,
             !.pub = [job |-> own.plan.job, gen |-> own.plan.gen, rev |-> own.plan.rev,
                      rec |-> NoRow, stage |-> TRUE, seen |-> FALSE]]
        /\ obs' = NoRow
        /\ pc' = "poll"
        /\ UNCHANGED <<disp, engine, disk>>
     \/ PauseTracked(own.plan, FALSE)

ReapingPublication == Reaping /\ obs.kind \in {"publish", "recover"} /\ own.pub # NoRow
PublicationValid ==
  \/ own.pub.rec # NoRow
  \/ own.pub.stage /\ own.permit # NoRow /\ ~own.permit.revoked

ReapRevokedPublication ==
  /\ ReapingPublication /\ ~PublicationValid
  /\ own' = [own EXCEPT !.pub.seen = TRUE]
  /\ obs' = NoRow
  /\ pc' = "poll"
  /\ UNCHANGED <<storeVars, disp, engine, disk>>

\* The transaction checks both names once more (require_current_publication_payload).
ReapPublished ==
  /\ ReapingPublication /\ PublicationValid
  /\ obs.res = "ok" /\ NamesHold
  /\ CompletePublication(own.pub.job, obs.pay, own.pub.rec = NoRow)
  /\ CloseReaped(PublicationDropped)
  /\ UNCHANGED <<disp, disk>>

\* The observation or the completing transaction failed.
ReapUnpublished ==
  /\ ReapingPublication /\ PublicationValid
  /\ IF own.pub.rec # NoRow
     THEN /\ AbortRecovery(own.pub.rec)
          /\ own' = PublicationDropped
          /\ obs' = NoRow
          /\ pc' = "poll"
          /\ UNCHANGED <<disp, engine, disk>>
     ELSE PauseTracked(own.pub, own.permit.attempted)

-----------------------------------------------------------------------------
(* Shutdown, crash, cold start.                                            *)

Shutdown ==
  /\ Looping
  /\ pc' = "stopping"
  /\ own' = [own EXCEPT !.cancel = TRUE]
  /\ engine' = IF own.ctl = "none" THEN engine ELSE NoEngine
  /\ UNCHANGED <<storeVars, disp, obs, disk>>

\* What _DirectOwner.shutdown persists once the observer has joined.
StopsPublication == own.pub # NoRow /\ own.pub.stage /\ ~own.pub.seen
StopPauses ==
  IF own.plan # NoRow /\ own.work = "terminal" /\ own.pub = NoRow THEN own.plan
  ELSE IF StopsPublication THEN own.pub
  ELSE IF own.work = "prepare" THEN own.plan ELSE NoRow
ShutdownPersist ==
  /\ pc = "stopping" /\ ~ObsAlive
  /\ obs' = NoRow
  /\ IF own.blocked \/ (StopPauses = NoRow /\ (own.pub = NoRow \/ own.pub.rec = NoRow))
     THEN pc' = "stopped" /\ UNCHANGED storeVars
     ELSE IF own.pub # NoRow /\ own.pub.rec # NoRow
     THEN pc' = "stopped" /\ AbortRecovery(own.pub.rec)
     ELSE IF job[StopPauses.job].rev = StopPauses.rev
               /\ job[StopPauses.job].gen = StopPauses.gen
               /\ CanMove(StopPauses.job)
     THEN /\ pc' = "stopped"
          /\ PauseActive(StopPauses.job, StopsPublication /\ own.permit.attempted)
     ELSE pc' = "down" /\ UNCHANGED storeVars
  /\ own' = IF pc' = "down" THEN NewOwner(FALSE) ELSE own
  /\ UNCHANGED <<disp, engine, disk>>
ShutdownClear ==
  /\ pc = "stopped"
  /\ IF own.ctl # "none" /\ ~own.blocked THEN ClearClaim ELSE UNCHANGED storeVars
  /\ pc' = "down" /\ own' = NewOwner(FALSE)
  /\ UNCHANGED <<disp, obs, engine, disk>>

\* The process dies between any two steps; the engine process may survive it.
Crash ==
  /\ pc # "down"
  /\ pc' = "down" /\ disp' = NoRow /\ own' = NewOwner(FALSE) /\ obs' = NoRow
  /\ UNCHANGED <<storeVars, engine, disk>>

ColdStart ==
  /\ pc = "down"
  /\ RecoverCold
  /\ pc' = "booted" /\ own' = NewOwner(FALSE)
  /\ UNCHANGED <<disp, obs, engine, disk>>

\* _recover_cold_direct_engine: only a recorded engine with its capability can
\* be retired; anything else keeps activation blocked.
RecoverEngine ==
  /\ pc = "booted" /\ pc' = "main"
  /\ \/ claim.kind = "none" /\ own' = own /\ UNCHANGED <<storeVars, engine>>
     \/ claim.kind # "none" /\ own' = NewOwner(TRUE) /\ UNCHANGED <<storeVars, engine>>
     \/ claim.kind = "ready" /\ own' = own /\ ClearClaim /\ engine' = NoEngine
  /\ UNCHANGED <<disp, obs, disk>>

-----------------------------------------------------------------------------
(* The engine and the file system.                                         *)

EngineStep ==
  /\ engine.live
  /\ \/ /\ engine.body # NoRow /\ engine.body.st = "active"
        /\ \E s \in {"complete", "error"} : engine' = [engine EXCEPT !.body.st = s]
     \/ engine' = NoEngine
  /\ UNCHANGED <<storeVars, pc, disp, own, obs, disk>>

Tamper(j) ==
  /\ Tampering
  /\ \/ disk.partial[j] # NoRow /\ disk' = [disk EXCEPT !.partial[j] = NoRow]
     \/ \E f \in {NoRow, Foreign} \ {disk.final[j]} :
          disk' = [disk EXCEPT !.final[j] = f]
  /\ UNCHANGED <<storeVars, pc, disp, own, obs, engine>>

-----------------------------------------------------------------------------
Serve ==
  \/ \E j \in Jobs : ServeAdd(j)
  \/ \E j \in Jobs, a \in Actions : ServeControl(j, a)
  \/ \E j \in Jobs, a \in Actions : ServeContainedControl(j, a)
  \/ \E g \in {"paused", "running"} : ServeGate(g)
  \/ ServeGatePause
  \/ ActivateReserve \/ ActivateDiscard
  \/ \E r \in Requests, j \in Jobs : ServeDispatchRefused(r, j)
  \/ \E r \in Requests, j \in Jobs : ServeDispatch(r, j)
  \/ \E r \in Requests, j \in Jobs : ServeRecovery(r, j)
  \/ \E r \in Requests : ServeReplay(r)

Continue ==
  \/ ActivateLaunch \/ ActivateBind \/ ActivateReady \/ ActivateFail
  \/ DispatchAdd \/ DispatchAdvance \/ DispatchResume \/ DispatchFinish
  \/ DispatchFail \/ ServeRecoveryRefused \/ Retire

Poll ==
  \/ RetireAfterObserver
  \/ LaunchPreparation \/ LaunchPublication \/ LaunchTransfer \/ PollIdle
  \/ ReapVoid \/ ReapTerminal \/ ReapStage \/ ReapPreparation
  \/ ReapRevokedPublication \/ ReapPublished \/ ReapUnpublished

Observe ==
  \/ ObserveTerminal \/ ObserveFiles \/ ObserveFail
  \/ PublishEnter \/ PublishLink \/ PublishVerify

Stop == ShutdownPersist \/ ShutdownClear
Lifecycle ==
  \/ Shutdown \/ Stop
  \/ Crash \/ ColdStart \/ RecoverEngine

Next ==
  \/ Serve \/ Continue \/ Poll \/ Observe \/ Lifecycle
  \/ EngineStep
  \/ \E j \in Jobs : Tamper(j)

Spec == Init /\ [][Next]_vars

(***************************************************************************)
(* A turn of the main loop always ends and is followed by a poll, a        *)
(* shutdown once begun goes on, and an observer thread always comes back:  *)
(* its RPCs and its hashing are bounded.                                   *)
(* Nothing is assumed of users, of the engine or of restarts.              *)
(***************************************************************************)
FairSpec == Spec /\ WF_vars(Continue) /\ WF_vars(Stop)
                 /\ WF_vars(Poll) /\ WF_vars(Observe)
-----------------------------------------------------------------------------
(* Properties.                                                             *)

(***************************************************************************)
(* The process state has its shape; in particular an owner without a       *)
(* controller holds no plan of an earlier transfer, and only a publication *)
(* that may create the final name gets as far as the link() system call.   *)
(***************************************************************************)
WorkerTypeOK ==
  /\ TypeOK
  /\ pc \in {"main", "poll", "retire", "activate", "fenced", "bound", "unrecover", "withdraw",
             "resolved", "added", "advanced", "resumed", "stopping", "stopped", "down", "booted"}
  /\ disp \in OrNoRow(Requests)
  /\ own \in OwnerRow
  /\ own.ctl = "none" => own.plan = NoRow /\ own.work = "none" /\ ~own.closeAfter
  /\ obs \in OrNoRow(ObserverRow)
  /\ engine \in [live: BOOLEAN, body: OrNoRow(BodyRow)]
  /\ disk \in [partial: [Jobs -> OrNoRow(Payloads)],
              final: [Jobs -> OrNoRow(Payloads \cup {Foreign})]]

(***************************************************************************)
(* Once the worker has acknowledged a pause, a removal or a queue pause,   *)
(* and is back in its main loop, no engine transfers a body for the job    *)
(* (Docs/download-manager-operations.md A02: no BODY after pause           *)
(* acknowledgement).  A worker that could not retire the engine of its     *)
(* predecessor says so by staying blocked.                                 *)
(***************************************************************************)
NoBodyAfterPause ==
  Looping /\ ~own.blocked /\ engine.live /\ engine.body # NoRow
    /\ engine.body.st = "active" =>
  /\ job[engine.body.job].state \notin {"paused", "removed"}
  /\ gate = "running"

(***************************************************************************)
(* There is never an engine process without a durable trace of it: across  *)
(* every crash between launching, binding and clearing, the next worker    *)
(* finds a claim and will not start a second engine beside the first.      *)
(***************************************************************************)
EngineIsClaimed == engine.live => claim.kind # "none"

(***************************************************************************)
(* A recovery request that the store holds as pending is being worked on:  *)
(* back in its main loop, the worker never forgets the one request that    *)
(* keeps every other recovery of the job out.                              *)
(***************************************************************************)
PendingRecoveryIsOwned ==
  Looping => \A j \in Jobs :
    Eligible(j) /\ attempt[j].pending # NoRow =>
      own.pub # NoRow /\ own.pub.job = j /\ own.pub.rec = attempt[j].pending

(***************************************************************************)
(* A job that the store says is at work is tracked by the owner, so that a *)
(* pause, a queue pause or a shutdown can contain it.                      *)
(***************************************************************************)
ActiveIsTracked ==
  Looping /\ ~own.blocked => \A j \in Jobs :
    Stored(j) /\ job[j].state \in ActiveStates => TrackedJob = j

(***************************************************************************)
(* Nothing the store or the system holds is forgotten by the worker: an    *)
(* engine has its claim, a pending recovery its publication, an active     *)
(* job its owner, however commands, observations and crashes interleave.   *)
(***************************************************************************)
EverythingIsTracked ==
  WorkerTypeOK /\ EngineIsClaimed /\ PendingRecoveryIsOwned /\ ActiveIsTracked

(***************************************************************************)
(* The final name is never created for a job that is already paused or     *)
(* removed: the creation permit, revoked before the command is answered,   *)
(* closes the race between the command and the observer's link().          *)
(***************************************************************************)
NoLinkAfterStop ==
  [][\A j \in Jobs : disk.final[j] = NoRow /\ disk'.final[j] \in Payloads =>
       job[j].state \notin {"paused", "removed"}]_vars

(***************************************************************************)
(* The store and worker together keep the promise of DownloadPromise: the  *)
(* job's rows and the final name on disk, through every interleaving and   *)
(* crash, move only as the abstract specification lets them.  Completion   *)
(* is reported only while the payload bound to the job is there.           *)
(***************************************************************************)
StageOf(j) ==
  IF ~Stored(j) THEN "absent"
  ELSE IF job[j].state \in TerminalStates THEN job[j].state ELSE "open"
FinalOf(j) ==
  CASE disk.final[j] = NoRow -> "none"
    [] disk.final[j] # NoRow /\ disk.final[j] = staged[j] -> "ours"
    [] OTHER -> "foreign"
Promise == INSTANCE DownloadPromise WITH
  stage <- [j \in Jobs |-> StageOf(j)], final <- [j \in Jobs |-> FinalOf(j)]
KeepsPromise == Promise!PromiseSpec

(***************************************************************************)
(* An active publication ends, completed, paused or aborted, however the   *)
(* commands and the observer interleave.  Two ways out are failures the    *)
(* code accepts: a command refused during link() has revoked the permit    *)
(* and voided the observation (seen), or the owner is blocked for good.    *)
(***************************************************************************)
PublicationEnds ==
  \A j \in Jobs :
    (own.pub # NoRow /\ own.pub.job = j) ~>
      (own.pub = NoRow \/ own.pub.seen \/ own.blocked)

\* An accepted recovery is answered, unless the worker goes down first.
RecoveryAnswered ==
  \A r \in Requests :
    (ReplayIsRecovery(r) /\ Looping) ~> (Settled(r) \/ pc = "down")

(***************************************************************************)
(* "Let the pending readback contain/pause this dispatch; absence must not *)
(* replace a controller under its observer" (worker.py:853-854): an engine *)
(* found absent is discarded, and its plan forgotten, only when the        *)
(* dispatch's job has been contained.                                      *)
(***************************************************************************)
AbsenceContained ==
  [][ActivateDiscard /\ own.plan # NoRow =>
       job[own.plan.job].state \notin ActiveStates]_vars

(***************************************************************************)
(* "Queue pause closes admission synchronously before asynchronous         *)
(* cancellation" (Docs/plans/2026-09-12-hermes-download-manager.md:247):   *)
(* a queue pause that cancels the running transfer also closes the gate.   *)
(***************************************************************************)
PauseClosesAdmission ==
  [][ServeGatePause /\ engine.live /\ ~engine'.live => gate' = "paused"]_vars
=============================================================================
