----------------------------- MODULE CleanupClaim -----------------------------
(***************************************************************************)
(* Removal of what a completed download leaves beside its final file: the  *)
(* aliases retained by saved continuations, the partial name (a second     *)
(* link to the final) and, last, the reservation marker.  One durable      *)
(* claim, the worker's owner loop and its observer thread, controls that   *)
(* revoke the unlink permits, crashes of the worker between any two steps  *)
(* and a user who changes the final file.                                  *)
(*                                                                         *)
(* Hashing, stat tuples and directory chains are abstracted to one fact:   *)
(* whether the final still is the published one.  The cleanup is that of   *)
(* one owner (_DirectOwner), which is blocked only by its own queue pause. *)
(***************************************************************************)
EXTENDS Naturals, SequencesExt

CONSTANTS
  Aliases,   \* retained alias names, a sequence in the order of their records
  Consents,  \* ids of direct dispatch requests for the completed job
  Targets,   \* ids of target commands that resume it
  OtherOwners,  \* other owners may be at work beside this one
  MaxEpoch,  \* bound on worker epochs
  MaxStops   \* bound on pauses, removals and queue gates

ASSUME CleanupConstants ==
  /\ Aliases \in Seq(ToSet(Aliases)) /\ IsInjective(Aliases)
  /\ {"partial", "marker"} \cap ToSet(Aliases) = {}
  /\ Consents \cap Targets = {} /\ "none" \notin Consents \cup Targets
  /\ OtherOwners \in BOOLEAN
  /\ MaxEpoch \in Nat \ {0} /\ MaxStops \in Nat

Kept == ToSet(Aliases)
Names == Kept \cup {"partial", "marker"}
Epochs == 1..MaxEpoch

VARIABLES
  epoch,     \* worker_epoch
  engine,    \* a controller, a fence or an engine record, of this owner or of the job
  claim,     \* direct_cleanup_claims: phase, activation epoch, activation request
  consent,   \* saved_cleanup_activations: the target command of each epoch
  carrier,   \* saved_cleanup_requests: epoch and armed flag of each target command
  record,    \* saved_retained_cleanup: phase of each alias
  name,      \* which of the names exist in the job directory
  changed,   \* the final is no longer the published one
  plan,      \* active_cleanup
  activated, \* cleanup_activated
  held,      \* private_queue_operation: the cleanup a refused queue pause was to stop;
             \* the owner is blocked (direct_recovery_blocked) while it is held
  obs,       \* the observer thread, its plan and permits
  stops,     \* controls so far
  quiet,     \* history: a control was acknowledged and no cleanup adopted since
  after      \* history: names removed since the final was changed

store == <<epoch, claim, consent, carrier, record>>
files == <<name, changed, after>>
worker == <<engine, plan, activated, held, obs>>
cleanupVars == <<store, files, worker, stops, quiet>>

NoPlan == [epoch |-> 0, req |-> "none", claim |-> [phase |-> "none", act |-> 0, req |-> "none"]]
Idle == [pc |-> "idle", item |-> 0, revoked |-> FALSE, plan |-> NoPlan]
Minted == [phase |-> "pending", act |-> 0, req |-> "none"]

\* The completion has just been committed in epoch 1: _mint_direct_cleanup_claim,
\* prepare_live_direct_cleanup.  The engine that fetched the body is still to be closed.
CleanupInit ==
  /\ epoch = 1 /\ engine = TRUE
  /\ claim = Minted
  /\ consent = [e \in Epochs |-> "none"]
  /\ carrier = [t \in Targets |-> [epoch |-> 0, armed |-> FALSE]]
  /\ record = [a \in Kept |-> "none"]
  /\ name = [n \in Names |-> TRUE] /\ changed = FALSE /\ after = 0
  /\ plan = [epoch |-> 1, req |-> "none", claim |-> Minted]
  /\ activated = FALSE /\ held = NoPlan /\ obs = Idle
  /\ stops = 0 /\ quiet = FALSE

-----------------------------------------------------------------------------
(* What the store and the observer look at.                                *)

NamespaceHolds_Strict(phase) ==  \* a removed marker is taken for damage
  /\ ~changed
  /\ name["marker"] /\ (phase # "pending" => ~name["partial"])

\* require_direct_cleanup_namespace
NamespaceHolds(phase) ==
  /\ ~changed
  /\ IF phase = "pending" THEN name["marker"] ELSE ~name["partial"]

\* _read_direct_cleanup_claim: what it demands of a stored claim, and raises without.
ReadableClaim(c) ==
  /\ c.phase \in {"pending", "certified", "finished"} /\ c.act \in 0..epoch
  /\ c.phase # "pending" => c.act # 0
  /\ c.act > 1 /\ c.req = "none" => consent[c.act] \in Targets

\* _require_cleanup_plan: the plan's claim is the stored one, in this epoch, and no
\* engine is left; the automatic cleanup belongs to the epoch of the completion.
PlanHolds(p) ==
  /\ p.claim = claim /\ p.epoch = epoch /\ ~engine
  /\ p.req = "none" => epoch = 1

\* _cleanup_activation_request
ActivatedBy(c) == IF c.req # "none" THEN c.req ELSE consent[c.act]
Activated(p) == p.claim.act = p.epoch /\ ActivatedBy(p.claim) = p.req

AliasesGone == \A a \in Kept : ~name[a]

\* What an observation unlinks, in order.
Items_Faulty(phase) ==  \* the marker goes with the partial
  IF phase = "pending" THEN Aliases \o <<"partial", "marker">> ELSE <<"marker">>
Items(phase) == IF phase = "pending" THEN Aliases \o <<"partial">> ELSE <<"marker">>
Item == Items(obs.plan.claim.phase)[obs.item]

-----------------------------------------------------------------------------
(* Adopting a cleanup.                                                     *)

Ready == plan = NoPlan /\ held = NoPlan /\ obs = Idle /\ ~engine
Adopt(req) ==
  /\ plan' = [epoch |-> epoch, req |-> req, claim |-> claim]
  /\ activated' = FALSE /\ quiet' = FALSE

\* prepare_direct_dispatch of a completed job; a plan the worker has no room for is dropped.
\* The id of a request that nothing refers to any more is used again.
Ask(q) ==
  /\ claim.phase # "finished" /\ claim.req # q
  /\ Ready /\ Adopt(q)
  /\ UNCHANGED <<store, files, engine, held, obs, stops>>

\* authorize_target, resume of one completed job
Arm(t) ==
  /\ claim.phase # "finished" /\ carrier[t].epoch = 0
  /\ carrier' = [carrier EXCEPT ![t] = [epoch |-> epoch, armed |-> TRUE]]
  /\ UNCHANGED <<epoch, claim, consent, record, files, worker, stops, quiet>>

\* _prepare_target_dispatch: the armed request of this epoch is consumed.
Consume(t) ==
  /\ Ready /\ carrier[t] = [epoch |-> epoch, armed |-> TRUE]
  /\ carrier' = [carrier EXCEPT ![t].armed = FALSE]
  /\ Adopt(t)
  /\ UNCHANGED <<epoch, claim, consent, record, files, engine, held, obs, stops>>

Drop == plan' = NoPlan /\ activated' = FALSE

-----------------------------------------------------------------------------
(* The owner loop: poll_direct_terminal.                                   *)

Quiescent == plan # NoPlan /\ held = NoPlan /\ obs = Idle /\ ~engine

MayActivate ==
  /\ PlanHolds(plan) /\ claim.phase \in {"pending", "certified"}
  /\ NamespaceHolds(claim.phase)
  /\ plan.req \in Targets => consent[epoch] \in {"none", plan.req}

\* activate_direct_cleanup
Activate ==
  /\ Quiescent /\ ~activated
  /\ IF MayActivate
     THEN /\ claim' = [claim EXCEPT !.act = epoch,
                                    !.req = IF plan.req \in Targets THEN "none" ELSE plan.req]
          /\ consent' = IF plan.req \in Targets THEN [consent EXCEPT ![epoch] = plan.req] ELSE consent
          /\ plan' = [plan EXCEPT !.claim = claim']
          /\ activated' = TRUE
     ELSE Drop /\ UNCHANGED <<claim, consent>>
  /\ UNCHANGED <<epoch, carrier, record, files, engine, held, obs, stops, quiet>>

\* retained_cleanup_records, then the permits and the thread
MayLaunch ==
  /\ PlanHolds(plan)
  /\ CASE claim.phase = "pending" -> \A a \in Kept : record[a] = "none" => name[a]
       [] claim.phase = "certified" -> AliasesGone /\ \A a \in Kept : record[a] # "none"
       [] OTHER -> FALSE

Launch ==
  /\ Quiescent /\ activated
  /\ IF MayLaunch
     THEN /\ record' = [a \in Kept |-> IF record[a] = "none" THEN "authorized" ELSE record[a]]
          /\ obs' = [pc |-> "check", item |-> 1, revoked |-> FALSE, plan |-> plan]
          /\ UNCHANGED <<plan, activated>>
     ELSE Drop /\ UNCHANGED <<record, obs>>
  /\ UNCHANGED <<epoch, claim, consent, carrier, files, engine, held, stops, quiet>>

Succeeded == obs.pc = "ok" /\ obs.plan = plan /\ ~obs.revoked

MayAcknowledge == Succeeded /\ plan.claim.phase = "pending" /\ PlanHolds(plan) /\ AliasesGone

\* acknowledge_retained_cleanup: each row is committed before the certificate.
Acknowledge ==
  /\ MayAcknowledge
  /\ record' = [a \in Kept |-> "absent"]
  /\ obs' = [obs EXCEPT !.pc = "acknowledged"]
  /\ UNCHANGED <<epoch, claim, consent, carrier, files, engine, plan, activated, held, stops, quiet>>

\* certify_direct_cleanup and finish_direct_cleanup, or why not
MayCertify == /\ obs.pc = "acknowledged" /\ PlanHolds(plan) /\ Activated(plan)
              /\ ~changed /\ name["marker"] /\ ~name["partial"]
MayFinish == /\ Succeeded /\ plan.claim.phase = "certified" /\ PlanHolds(plan) /\ Activated(plan)
             /\ ~changed /\ ~name["marker"] /\ ~name["partial"]
             /\ AliasesGone /\ \A a \in Kept : record[a] = "absent"

NextPhase == IF claim.phase = "pending" THEN "certified" ELSE "finished"

Settle ==
  /\ obs.pc \in {"ok", "failed", "acknowledged"}
  /\ IF MayCertify \/ MayFinish
     THEN /\ claim' = [claim EXCEPT !.phase = NextPhase]
          /\ IF MayCertify THEN plan' = [plan EXCEPT !.claim = claim'] /\ UNCHANGED activated ELSE Drop
     ELSE /\ ~MayAcknowledge
          /\ UNCHANGED claim
          /\ IF obs.plan = plan THEN Drop ELSE UNCHANGED <<plan, activated>>
  /\ obs' = Idle
  /\ UNCHANGED <<epoch, consent, carrier, record, files, engine, held, stops, quiet>>

-----------------------------------------------------------------------------
(* The observer thread: _cleanup_retained_aliases, then                     *)
(* prepare_direct_cleanup_payload; or finish_direct_cleanup_payload.        *)

Go(pc) == obs' = [obs EXCEPT !.pc = pc]
LastItem == obs.item = Len(Items(obs.plan.claim.phase))
Onward == obs' = IF LastItem THEN [obs EXCEPT !.pc = "attest"]
                 ELSE [obs EXCEPT !.pc = "check", !.item = @ + 1]

\* The namespace as this observation expects it, and not cancelled.
Attests == ~obs.revoked /\ NamespaceHolds(obs.plan.claim.phase)

Check ==
  /\ obs.pc = "check"
  /\ IF ~Attests THEN Go("failed") ELSE IF name[Item] THEN Go("enter") ELSE Onward
  /\ UNCHANGED <<store, files, engine, plan, activated, held, stops, quiet>>

\* _enter_unlink, under the permit's mutex
Enter ==
  /\ obs.pc = "enter"
  /\ Go(IF obs.revoked THEN "failed" ELSE "unlink")
  /\ UNCHANGED <<store, files, engine, plan, activated, held, stops, quiet>>

Unlink ==
  /\ obs.pc = "unlink"
  /\ name' = [name EXCEPT ![Item] = FALSE]
  /\ after' = IF changed THEN after + 1 ELSE after
  /\ Onward
  /\ UNCHANGED <<store, changed, engine, plan, activated, held, stops, quiet>>

\* fsync, hash and last look
Attest ==
  /\ obs.pc = "attest"
  /\ Go(IF Attests THEN "ok" ELSE "failed")
  /\ UNCHANGED <<store, files, engine, plan, activated, held, stops, quiet>>

-----------------------------------------------------------------------------
(* Controls, engines, crashes, the user.                                   *)

\* job_control of the completed job, and queue_gate where a direct request completed it:
\* revoke_cleanup, refused before anything is written while an unlink is in flight.
\* The owner does not answer between an acknowledgement and its certificate.
Control_Faulty ==  \* an unlink in flight is not waited for
  /\ plan # NoPlan /\ obs.pc # "acknowledged" /\ stops < MaxStops
  /\ stops' = stops + 1
  /\ obs' = [obs EXCEPT !.revoked = obs # Idle]
  /\ Drop /\ quiet' = TRUE
  /\ UNCHANGED <<store, files, engine, held>>

\* A gate that is for several owners is committed before each of them is told, and one
\* with a cleanup completed by a direct request then only answers from that receipt.
Tells == IF OtherOwners THEN BOOLEAN ELSE {TRUE}

Control ==
  /\ plan # NoPlan /\ obs.pc # "acknowledged" /\ stops < MaxStops
  /\ stops' = stops + 1
  /\ \E told \in Tells :
       IF ~told THEN quiet' = TRUE /\ UNCHANGED <<plan, activated, obs>>
       ELSE /\ obs' = [obs EXCEPT !.revoked = obs # Idle]
            /\ IF obs.pc = "unlink" THEN UNCHANGED <<plan, activated, quiet>>
               ELSE Drop /\ quiet' = TRUE
  /\ UNCHANGED <<store, files, engine, held>>

(***************************************************************************)
(* queue_gate "paused" where a target command completed the job: the gate  *)
(* is committed first.  If the cleanup cannot be stopped at once, since an *)
(* unlink is in flight or the thread does not join in time, the command is *)
(* refused with the owner blocked, and what it was to stop is held for the *)
(* next pause, which is a repetition of this one or another.               *)
(***************************************************************************)
Operation == IF held # NoPlan THEN held ELSE plan
Running == obs.pc \in {"check", "enter", "unlink", "attest"}

PauseRefused ==
  /\ Running \/ engine
  /\ held' = Operation
  /\ obs' = [obs EXCEPT !.revoked = obs # Idle]
  /\ IF obs.pc = "unlink" THEN UNCHANGED <<plan, activated>> ELSE Drop
  /\ UNCHANGED <<engine, quiet>>

\* The thread has been joined, what it reported is discarded, no engine is left.
PauseAccepted ==
  /\ obs.pc # "unlink"
  /\ Drop /\ held' = NoPlan /\ obs' = Idle /\ engine' = FALSE
  /\ quiet' = TRUE

PauseQueue ==
  /\ Operation # NoPlan /\ Operation.claim = claim /\ obs.pc # "acknowledged"
  /\ PauseRefused \/ PauseAccepted
  /\ UNCHANGED <<store, files>>

FirstPause == held = NoPlan /\ stops < MaxStops /\ stops' = stops + 1 /\ PauseQueue
NextPause == held # NoPlan /\ UNCHANGED stops /\ PauseQueue

\* close_owned_direct_controller, or the recovery of a left engine
Contain ==
  /\ engine /\ engine' = FALSE
  /\ UNCHANGED <<store, files, plan, activated, held, obs, stops, quiet>>

\* Another job's engine: direct_engine_activate of a ready owner.
Occupy ==
  /\ Ready /\ engine' = TRUE
  /\ UNCHANGED <<store, files, plan, activated, held, obs, stops, quiet>>

\* The worker dies, observer and all, and starts again.
Restart ==
  /\ epoch < MaxEpoch /\ epoch' = epoch + 1
  /\ Drop /\ held' = NoPlan /\ obs' = Idle /\ quiet' = FALSE
  /\ UNCHANGED <<claim, consent, carrier, record, files, engine, stops>>

ChangeFinal ==
  /\ ~changed /\ changed' = TRUE
  /\ UNCHANGED <<store, name, after, worker, stops, quiet>>

Owner == Activate \/ Launch \/ Acknowledge \/ Settle
Observer == Check \/ Enter \/ Unlink \/ Attest

CleanupNext ==
  \/ \E q \in Consents : Ask(q)
  \/ \E t \in Targets : Arm(t) \/ Consume(t)
  \/ Owner \/ Observer
  \/ Control \/ FirstPause \/ NextPause \/ Contain \/ Occupy \/ Restart \/ ChangeFinal

CleanupSpec == CleanupInit /\ [][CleanupNext]_cleanupVars

\* The owner polls, the observer runs, engines are closed, who was refused a queue pause
\* repeats it, and a user who still wants the directory clean asks again whenever the
\* worker is free.
CleanupFairSpec ==
  /\ CleanupSpec
  /\ WF_cleanupVars(Owner) /\ WF_cleanupVars(Observer) /\ WF_cleanupVars(Contain)
  /\ WF_cleanupVars(NextPause)
  /\ SF_cleanupVars(\E q \in Consents : Ask(q))

-----------------------------------------------------------------------------
(* Properties.                                                             *)

\* Types, and what _read_direct_cleanup_claim demands of the stored claim: a claim it
\* refuses can never be cleaned up again.
ClaimIsReadable ==
  /\ ReadableClaim(claim)
  /\ record \in [Kept -> {"none", "authorized", "absent"}]
  /\ name \in [Names -> BOOLEAN]
  /\ obs.pc \in {"idle", "check", "enter", "unlink", "attest", "ok", "failed", "acknowledged"}

\* The marker, the proof that the directory is the download's own, is the last name to
\* go, and only under a certificate that was committed before.
MarkerIsLast == ~name["marker"] => claim.phase # "pending" /\ ~name["partial"] /\ AliasesGone

\* A certified claim has no other name left, and the store has acknowledged every alias.
CertifiedIsClean ==
  claim.phase # "pending" => ~name["partial"] /\ AliasesGone /\ \A a \in Kept : record[a] = "absent"

\* A finished claim has left nothing behind.
FinishedIsEmpty == claim.phase = "finished" => \A n \in Names : ~name[n]

\* A pause that was refused can be repeated: the cleanup it is held for is still the
\* stored claim's, and nothing that was observed for it will be taken as evidence
\* (cleanup_producer refuses any other, and the owner would stay blocked).
HeldIsCurrent ==
  held # NoPlan => /\ held.claim = claim
                   /\ obs # Idle => obs.revoked /\ obs.pc # "acknowledged"

\* The stored claim and the names on disk agree at every instant, so whatever state a
\* crash leaves is one the next cleanup accepts: the claim is readable, the marker goes
\* last, a certified claim has no other name left and a finished one has none; and what a
\* refused pause is held for is that same claim.
ClaimMatchesNames ==
  ClaimIsReadable /\ MarkerIsLast /\ CertifiedIsClean /\ FinishedIsEmpty /\ HeldIsCurrent

Removal == \E n \in Names : name[n] /\ ~name'[n]

\* Nothing is removed after a pause, a removal or a queue gate was acknowledged until a
\* cleanup is asked for anew, nor while an engine may be writing; and once the user has
\* changed the final, at most the name whose check had already passed still goes.
RemovalIsAuthorized == [][Removal => ~quiet /\ ~engine /\ after' <= 1]_cleanupVars

\* Whatever was interrupted, by a control, a crash between any two steps or a pause that
\* was refused and left the owner blocked, a cleanup that is asked for again comes to its
\* end unless the user has changed the final.
CleanupEnds == <>(claim.phase = "finished" \/ changed)
=============================================================================
