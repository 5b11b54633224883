---- MODULE EngineClaim ----
(***************************************************************************)
(* Who may run an aria2 daemon, and who must stop it.  A worker reserves a *)
(* durable claim before it spawns a daemon, writes the daemon's birth      *)
(* identity into it, and then its shutdown capability; it deletes the      *)
(* claim only after the process group is gone.  A worker that dies leaves  *)
(* its claims, and the next one retires them before it opens its socket,   *)
(* or never runs a daemon in its life.  Sources: worker.py (_DirectOwner,  *)
(* _recover_cold_direct_engine), direct.py (start, close, discard_absent), *)
(* processes.py (reconcile_process_birth), store.py (the claims).          *)
(*                                                                         *)
(* A slot is one durable claim and the owner that holds it: the legacy     *)
(* singleton, or one job's private engine.  A daemon is identified by its  *)
(* birth, so two daemons never have the same identity although the kernel  *)
(* recycles the number of their group.                                     *)
(***************************************************************************)
EXTENDS Naturals, FiniteSets

CONSTANTS
  Legacy,      \* the slot of the singleton engine
  Jobs,        \* the slots of private engines, one per job
  Births,      \* the daemons that can ever be spawned
  Capacity,    \* desired concurrency
  MaxEpoch,    \* bound on worker starts
  None

ASSUME SlotAssumption == Legacy \notin Jobs /\ None \notin Births /\ None \notin Jobs \cup {Legacy}
ASSUME BoundAssumption == Capacity \in Nat \ {0} /\ MaxEpoch \in Nat

Slots == {Legacy} \cup Jobs

VARIABLES
  epoch,   \* the store's worker epoch
  mode,    \* the worker: "down", "cold" (bootstrap), "run"
  pend,    \* bootstrap: slots whose old claim is still to be examined
  cold,    \* direct_recovery_blocked as bootstrap computes it
  claim,   \* durable: the claim of each slot
  eng,     \* the operating system: the state of each daemon and its slot
  ctl,     \* in memory: what the owner of the slot believes of its controller
  held,    \* in memory: the daemon whose Popen handle the controller keeps
  obs,     \* the slot whose observer thread is running (there is one for all)
  act,     \* the synchronous handler in progress on the owner loop
  stray    \* a signal was sent to a group that belongs to somebody else

vars == <<epoch, mode, pend, cold, claim, eng, ctl, held, obs, act, stray>>

NoClaim == [phase |-> "none", epoch |-> 0, birth |-> None]
Idle == [pc |-> "idle", slot |-> None, then |-> "idle"]

ClaimRow == [phase : {"none", "reserved", "bound", "ready"},
             epoch : 0..MaxEpoch, birth : Births \cup {None}]

EngineTypeOK ==
  /\ epoch \in 0..MaxEpoch
  /\ mode \in {"down", "cold", "run"}
  /\ pend \subseteq Slots
  /\ cold \in BOOLEAN
  /\ claim \in [Slots -> ClaimRow]
  /\ eng \in [Births -> [os : {"unborn", "live", "zombie", "gone", "reused"},
                         slot : Slots \cup {None}]]
  /\ ctl \in [Slots -> {"none", "candidate", "ready", "failed", "closing",
                        "discardFailed", "discardDone"}]
  /\ held \in [Slots -> Births \cup {None}]
  /\ obs \in Slots \cup {None}
  /\ act \in [pc : {"idle", "reserve", "spawn", "bind", "answer", "stop", "clear"},
              slot : Slots \cup {None}, then : {"idle", "reserve"}]
  /\ stray \in BOOLEAN

Init ==
  /\ epoch = 0 /\ mode = "down" /\ pend = {} /\ cold = FALSE
  /\ claim = [s \in Slots |-> NoClaim]
  /\ eng = [b \in Births |-> [os |-> "unborn", slot |-> None]]
  /\ ctl = [s \in Slots |-> "none"]
  /\ held = [s \in Slots |-> None]
  /\ obs = None /\ act = Idle /\ stray = FALSE

Claimed(s) == claim[s].phase # "none"
ClaimedJobs == {j \in Jobs : Claimed(j)}
Exists(b) == eng[b].os \in {"live", "zombie"}

\* reconcile_process_birth: any read may fail, a recycled number never matches.
Reconciled(b) ==
  CASE eng[b].os = "live"   -> {"current", "indeterminate"}
    [] eng[b].os = "zombie" -> {"absent", "indeterminate"}
    [] eng[b].os = "gone"   -> {"absent", "indeterminate"}
    [] OTHER                -> {"indeterminate"}

At(pc) == mode = "run" /\ act.pc = pc
Goto(pc) == act' = [act EXCEPT !.pc = pc]
SetClaim(s, c) == claim' = [claim EXCEPT ![s] = c]
SetCtl(s, c) == ctl' = [ctl EXCEPT ![s] = c]

\* The owner of a slot is idle, and so may be given other work.
OwnerIdle(s) == ctl[s] = "none" /\ obs # s

(***************************************************************************)
(* Activation, on the owner loop: reserve, spawn, bind, become ready.      *)
(***************************************************************************)
\* direct_engine_activate (IPC) for the legacy slot, poll_target_dispatch
\* for a job: the conditions that come before the reservation.
Activate(s) ==
  /\ At("idle") /\ ~cold /\ OwnerIdle(s) /\ obs = None
  /\ s = Legacy => \A j \in Jobs : OwnerIdle(j)
  /\ s # Legacy => Cardinality({t \in Slots : ~OwnerIdle(t)}) < Capacity
  /\ act' = [pc |-> "reserve", slot |-> s, then |-> "idle"]
  /\ UNCHANGED <<epoch, mode, pend, cold, claim, eng, ctl, held, obs, stray>>

\* What reserve_direct_engine_activation and reserve_job_engine refuse.
Reservable_Faulty(s) == s = Legacy => (~Claimed(Legacy) /\ ClaimedJobs = {})
Reservable(s) ==
  /\ ~Claimed(Legacy)
  /\ IF s = Legacy THEN ClaimedJobs = {}
                   ELSE ~Claimed(s) /\ Cardinality(ClaimedJobs) < Capacity

Reserve ==
  LET s == act.slot IN
  /\ At("reserve")
  /\ IF Reservable(s)
       THEN /\ SetClaim(s, [phase |-> "reserved", epoch |-> epoch, birth |-> None])
            /\ SetCtl(s, "candidate")
            /\ Goto("spawn")
       ELSE act' = Idle /\ UNCHANGED <<claim, ctl>>
  /\ UNCHANGED <<epoch, mode, pend, cold, eng, held, obs, stray>>

Spawn ==
  /\ At("spawn")
  /\ \E b \in Births :
       /\ eng[b].os = "unborn"
       /\ eng' = [eng EXCEPT ![b] = [os |-> "live", slot |-> act.slot]]
       /\ held' = [held EXCEPT ![act.slot] = b]
  /\ Goto("bind")
  /\ UNCHANGED <<epoch, mode, pend, cold, claim, ctl, obs, stray>>

\* on_engine_bound: the fence becomes the record of a birth that was captured.
Bind ==
  LET s == act.slot IN
  /\ At("bind") /\ eng[held[s]].os = "live"
  /\ SetClaim(s, [claim[s] EXCEPT !.phase = "bound", !.birth = held[s]])
  /\ Goto("answer")
  /\ UNCHANGED <<epoch, mode, pend, cold, eng, ctl, held, obs, stray>>

\* _wait_for_rpc_ready returns and the recovery capability is stored.
Answer ==
  LET s == act.slot IN
  /\ At("answer") /\ eng[held[s]].os = "live"
  /\ SetClaim(s, [claim[s] EXCEPT !.phase = "ready"])
  /\ SetCtl(s, "ready")
  /\ act' = Idle
  /\ UNCHANGED <<epoch, mode, pend, cold, eng, held, obs, stray>>

\* Any exception of the activation: the candidate is stopped, then released.
ActivationFails ==
  /\ act.pc \in {"spawn", "bind", "answer"} /\ mode = "run"
  /\ Goto("stop")
  /\ UNCHANGED <<epoch, mode, pend, cold, claim, eng, ctl, held, obs, stray>>

(***************************************************************************)
(* Containment: close_owned_direct_controller and its callers (a control,  *)
(* a finished or failed transfer, orderly shutdown, a failed activation).  *)
(***************************************************************************)
Close(s) ==
  /\ At("idle") /\ ctl[s] \notin {"none", "closing"}
  /\ act' = [pc |-> "stop", slot |-> s, then |-> "idle"]
  /\ UNCHANGED <<epoch, mode, pend, cold, claim, eng, ctl, held, obs, stray>>

\* _stop_process_group signals the number of the group the handle names.
Signalled(b) == stray' = (stray \/ (b # None /\ eng[b].os = "reused"))
Reap(b) == IF b # None /\ Exists(b) THEN [eng EXCEPT ![b].os = "gone"] ELSE eng

\* The group is gone.  A live observer keeps the claim until it has ended,
\* unless the caller joins it here.
AfterStop(s) ==
  \/ obs # s /\ Goto("clear") /\ UNCHANGED <<ctl, obs>>
  \/ obs = s /\ obs' = None /\ Goto("clear") /\ UNCHANGED ctl
  \/ obs = s /\ SetCtl(s, "closing") /\ act' = Idle /\ UNCHANGED obs

Stop ==
  LET s == act.slot IN
  /\ At("stop")
  /\ Signalled(held[s])
  /\ eng' = Reap(held[s])
  /\ held' = [held EXCEPT ![s] = None]
  /\ AfterStop(s)
  /\ UNCHANGED <<epoch, mode, pend, cold, claim>>

\* The group is not seen to go, the drain does not end, the observer does
\* not join, or the private files stay: the handle may be kept or not, but
\* only a stopped daemon's handle is given up.  Controller and claim stay.
StopFails ==
  LET s == act.slot IN
  /\ At("stop")
  /\ Signalled(held[s])
  /\ \/ UNCHANGED <<eng, held>>
     \/ eng' = Reap(held[s]) /\ UNCHANGED held
     \/ eng' = Reap(held[s]) /\ held' = [held EXCEPT ![s] = None]
  /\ SetCtl(s, "failed")
  /\ act' = Idle
  /\ UNCHANGED <<epoch, mode, pend, cold, claim, obs>>

\* clear_owned_direct_claim, clear_owned_direct_controller_state; a handler
\* that discarded an absent engine goes on to reserve again.
Clear ==
  LET s == act.slot IN
  /\ At("clear")
  /\ SetClaim(s, NoClaim)
  /\ SetCtl(s, "none")
  /\ act' = IF act.then = "reserve" THEN [act EXCEPT !.pc = "reserve", !.then = "idle"] ELSE Idle
  /\ UNCHANGED <<epoch, mode, pend, cold, eng, held, obs, stray>>

ClearFails ==
  /\ At("clear")
  /\ SetCtl(act.slot, IF ctl[act.slot] = "discardDone" THEN "discardDone" ELSE "failed")
  /\ act' = Idle
  /\ UNCHANGED <<epoch, mode, pend, cold, claim, eng, held, obs, stray>>

ReapClosing_Faulty(s) ==  \* the owner is dropped, its claim is not cleared
  /\ At("idle") /\ ctl[s] = "closing" /\ obs # s
  /\ SetCtl(s, "none")
  /\ UNCHANGED <<epoch, mode, pend, cold, claim, eng, held, obs, act, stray>>

\* poll_direct_terminal with close_after_observer set.
ReapClosing(s) ==
  /\ At("idle") /\ ctl[s] = "closing" /\ obs # s
  /\ act' = [pc |-> "clear", slot |-> s, then |-> "idle"]
  /\ UNCHANGED <<epoch, mode, pend, cold, claim, eng, ctl, held, obs, stray>>

\* discard_absent_owned_direct_controller, by a legacy activation or at
\* shutdown: an engine that died by itself is reaped without a signal, whoever else is
\* being observed.
CanDiscard(s) ==
  /\ At("idle") /\ ctl[s] \in {"ready", "discardFailed"} /\ obs # s
  /\ held[s] # None /\ "absent" \in Reconciled(held[s])

Discard(s) ==
  /\ CanDiscard(s)
  /\ eng' = Reap(held[s])
  /\ held' = [held EXCEPT ![s] = None]
  /\ SetCtl(s, "discardDone")
  /\ \E next \in {"idle", "reserve"} :
       /\ next = "reserve" => (s = Legacy /\ ctl[s] = "ready")
       /\ act' = [pc |-> "clear", slot |-> s, then |-> next]
  /\ UNCHANGED <<epoch, mode, pend, cold, claim, obs, stray>>

\* The leader is reaped but its files stay: the handle is kept.
DiscardFails(s) ==
  /\ CanDiscard(s)
  /\ eng' = Reap(held[s])
  /\ SetCtl(s, "discardFailed")
  /\ UNCHANGED <<epoch, mode, pend, cold, claim, held, obs, act, stray>>

(***************************************************************************)
(* Observers, daemons and the kernel.                                      *)
(***************************************************************************)
Observe(s) ==
  /\ At("idle") /\ obs = None /\ ctl[s] = "ready"
  /\ obs' = s
  /\ UNCHANGED <<epoch, mode, pend, cold, claim, eng, ctl, held, act, stray>>

ObserverEnds ==
  /\ obs # None /\ obs' = None
  /\ UNCHANGED <<epoch, mode, pend, cold, claim, eng, ctl, held, act, stray>>

\* A daemon exits; it stays a zombie while the worker that spawned it lives.
EngineDies(b) ==
  /\ eng[b].os = "live"
  /\ eng' = [eng EXCEPT ![b].os = IF \E s \in Slots : held[s] = b THEN "zombie" ELSE "gone"]
  /\ UNCHANGED <<epoch, mode, pend, cold, claim, ctl, held, obs, act, stray>>

Recycle(b) ==
  /\ eng[b].os = "gone"
  /\ eng' = [eng EXCEPT ![b].os = "reused"]
  /\ UNCHANGED <<epoch, mode, pend, cold, claim, ctl, held, obs, act, stray>>

(***************************************************************************)
(* The worker dies, and the next one starts.                               *)
(***************************************************************************)
Crash ==
  /\ mode # "down"
  /\ mode' = "down" /\ pend' = {} /\ cold' = FALSE
  /\ ctl' = [s \in Slots |-> "none"]
  /\ held' = [s \in Slots |-> None]
  /\ obs' = None /\ act' = Idle
  /\ eng' = [b \in Births |-> IF eng[b].os = "zombie" THEN [eng[b] EXCEPT !.os = "gone"] ELSE eng[b]]
  /\ UNCHANGED <<epoch, claim, stray>>

Boot ==
  /\ mode = "down" /\ epoch < MaxEpoch
  /\ epoch' = epoch + 1
  /\ mode' = "cold"
  /\ pend' = {s \in Slots : Claimed(s)}
  /\ UNCHANGED <<cold, claim, eng, ctl, held, obs, act, stray>>

\* The claims bootstrap can retire, by phase; a bound legacy record has no
\* capability and is never retired.
Retirable(s) == claim[s].phase = "ready" \/ (claim[s].phase = "bound" /\ s # Legacy)

\* _recover_owned_direct_engine: a daemon that is provably the recorded one
\* accepts the authenticated shutdown.
ColdShut(s) ==
  /\ mode = "cold" /\ s \in pend /\ claim[s].phase = "ready"
  /\ "current" \in Reconciled(claim[s].birth)
  /\ eng' = [eng EXCEPT ![claim[s].birth].os = "gone"]
  /\ UNCHANGED <<epoch, mode, pend, cold, claim, ctl, held, obs, act, stray>>

\* Absence is proved by the reconciliation and by the group itself.
ProvedAbsent_Faulty(b) == "indeterminate" \in Reconciled(b)
ProvedAbsent(b) == "absent" \in Reconciled(b)

ColdRetire(s) ==
  /\ mode = "cold" /\ s \in pend /\ Retirable(s) /\ ProvedAbsent(claim[s].birth)
  /\ SetClaim(s, NoClaim)
  /\ pend' = pend \ {s}
  /\ UNCHANGED <<epoch, mode, cold, eng, ctl, held, obs, act, stray>>

\* Everything else blocks this worker: a fence, an identity that cannot be
\* proved, a refused shutdown, a failed seal, a failed delete.
ColdBlocks(s) == cold' = TRUE

ColdBlock(s) ==
  /\ mode = "cold" /\ s \in pend
  /\ ColdBlocks(s)
  /\ pend' = pend \ {s}
  /\ UNCHANGED <<epoch, mode, claim, eng, ctl, held, obs, act, stray>>

Open ==
  /\ mode = "cold" /\ pend = {}
  /\ mode' = "run"
  /\ UNCHANGED <<epoch, pend, cold, claim, eng, ctl, held, obs, act, stray>>

Next ==
  \/ \E s \in Slots : \/ Activate(s) \/ Close(s) \/ ReapClosing(s) \/ Discard(s)
                      \/ DiscardFails(s) \/ Observe(s)
                      \/ ColdShut(s) \/ ColdRetire(s) \/ ColdBlock(s)
  \/ Reserve \/ Spawn \/ Bind \/ Answer \/ ActivationFails
  \/ Stop \/ StopFails \/ Clear \/ ClearFails \/ ObserverEnds
  \/ \E b \in Births : EngineDies(b) \/ Recycle(b)
  \/ Crash \/ Boot \/ Open

Spec == Init /\ [][Next]_vars

(***************************************************************************)
(* The loop runs, an observer's own deadlines end it (worker.py's observers *)
(* check a bounded clock), and a handler that has begun takes its steps.    *)
(***************************************************************************)
LiveSpec ==
  /\ Spec
  /\ WF_vars(ObserverEnds) /\ WF_vars(Stop \/ StopFails) /\ WF_vars(Reserve)
  /\ WF_vars(Spawn \/ Bind \/ Answer \/ ActivationFails) /\ WF_vars(Clear \/ ClearFails)
  /\ \A s \in Slots : SF_vars(ReapClosing(s))

(***************************************************************************)
(* Properties.                                                             *)
(***************************************************************************)
EnginesOf(s) == {b \in Births : Exists(b) /\ eng[b].slot = s}

\* A daemon that has not been reaped is covered by the durable claim of its
\* slot from before it is spawned until after its group is gone, whatever
\* crashes in between, and a claim covers no more than one (_DirectOwner).
EveryEngineIsClaimed ==
  \A s \in Slots :
    /\ EnginesOf(s) # {} => Claimed(s)
    /\ claim[s].phase \in {"bound", "ready"} => EnginesOf(s) \subseteq {claim[s].birth}
    /\ Cardinality(EnginesOf(s)) <= 1

\* The singleton engine never runs beside a private one, and private ones
\* never exceed the configured concurrency, orphans included.
EnginesFit ==
  LET jobEngines == UNION {EnginesOf(j) : j \in Jobs} IN
  /\ EnginesOf(Legacy) # {} => jobEngines = {}
  /\ Cardinality(jobEngines) <= Capacity

\* A worker that opened its socket is blocked exactly when a claim of an
\* earlier worker survives; so no daemon of the new worker ever runs while an
\* old one may, and a worker whose claims were all retired is not blocked.
BlockedByOldClaims ==
  mode = "run" => (cold <=> \E s \in Slots : Claimed(s) /\ claim[s].epoch # epoch)

\* An observer thread that may still write the partial keeps its slot's
\* claim: the file never has a second owner (close_after_observer).
ObserverIsFenced == obs # None => Claimed(obs)

\* Every daemon and every observer that may write is covered by a durable claim, and the
\* claims say exactly what survives an earlier worker: none is forgotten by a crash
\* between reserving, spawning, binding and clearing, and none is duplicated.
ClaimsAreExact ==
  EngineTypeOK /\ EveryEngineIsClaimed /\ ObserverIsFenced /\ BlockedByOldClaims

\* A signal or a shutdown never reaches a group this worker did not spawn:
\* "Never signal after this point: the numerical process-group ID could have
\* been recycled" (direct.py, _stop_process_group).
SignalsOwnGroup == ~stray

\* A controller that was closed under its observer releases its claim, or the
\* worker dies, or its containment failed and is reported.
ClosedIsReleased ==
  \A s \in Slots : ctl[s] = "closing" ~> (~Claimed(s) \/ mode = "down" \/ ctl[s] = "failed")
====
