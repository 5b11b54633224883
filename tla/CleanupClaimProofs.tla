-------------------------- MODULE CleanupClaimProofs --------------------------
(***************************************************************************)
(* The claim and the names agree, and names go only under authority, for   *)
(* any number of aliases, requests, epochs and controls.                   *)
(***************************************************************************)
EXTENDS CleanupClaim, TLAPS

Phases == {"pending", "certified", "finished"}
Reqs == Consents \cup Targets \cup {"none"}
Plans == [epoch: Nat, req: Reqs,
          claim: [phase: Phases \cup {"none"}, act: Nat, req: Consents \cup {"none"}]]

CleanupShape ==
  /\ epoch \in Epochs /\ engine \in BOOLEAN
  /\ claim \in [phase: Phases, act: Nat, req: Consents \cup {"none"}]
  /\ consent \in [Epochs -> Targets \cup {"none"}]
  /\ plan \in Plans /\ held \in Plans
  /\ obs \in [pc: {"idle", "check", "enter", "unlink", "attest", "ok", "failed", "acknowledged"},
              item: Nat, revoked: BOOLEAN, plan: Plans]
  /\ changed \in BOOLEAN /\ after \in Nat /\ quiet \in BOOLEAN

(***************************************************************************)
(* What the observer works on is the stored claim: the owner starts it on  *)
(* the claim it has just matched and moves the claim only when the         *)
(* observation is consumed.  An acknowledgement stands for the aliases, a  *)
(* control that was answered leaves no permit that could still be entered  *)
(* (where every control tells this owner), and a look at the final         *)
(* precedes every name.                                                    *)
(***************************************************************************)
ObserverInv ==
  /\ obs # Idle => /\ obs.pc # "idle"
                   /\ ~engine
                   /\ obs.plan.claim = claim
                   /\ claim.phase \in {"pending", "certified"}
                   /\ obs.item \in 1..Len(Items(claim.phase))
  /\ obs.pc = "acknowledged" =>
       claim.phase = "pending" /\ AliasesGone /\ \A a \in Kept : record[a] = "absent"
  /\ ~OtherOwners /\ quiet =>
       plan = NoPlan /\ (obs # Idle => obs.revoked /\ obs.pc # "unlink")
  /\ after <= 1 /\ (~changed => after = 0)
  /\ obs.pc \in {"enter", "unlink"} => after = 0

CleanupInv == CleanupShape /\ ObserverInv /\ ClaimMatchesNames

\* The names an observation removes are its own: the marker only once certified.
LEMMA ItemsOfPhase ==
  ASSUME NEW phase \in {"pending", "certified"}, NEW i \in 1..Len(Items(phase))
  PROVE  /\ Items(phase)[i] \in Names
         /\ phase = "pending" => Items(phase)[i] # "marker"
         /\ phase = "certified" => Items(phase)[i] = "marker"
<1>1. CASE phase = "pending"
  <2>1. Items(phase) = Aliases \o <<"partial">> /\ Aliases \in Seq(Kept)
    BY <1>1, CleanupConstants DEF Items, Kept
  <2>2. CASE i = Len(Aliases) + 1
    BY <2>1, <2>2, <1>1 DEF Names
  <2>3. CASE i \in 1..Len(Aliases)
    <3>1. Items(phase)[i] = Aliases[i] /\ Aliases[i] \in Kept
      BY <2>1, <2>3
    <3>2. QED
      BY <3>1, <1>1, CleanupConstants DEF Names, Kept
  <2>4. Len(Items(phase)) = Len(Aliases) + 1 /\ Len(Aliases) \in Nat
    BY <2>1
  <2> QED BY <2>2, <2>3, <2>4
<1>2. CASE phase = "certified"
  BY <1>2 DEF Items, Names
<1> QED BY <1>1, <1>2

LEMMA CleanupStart == CleanupInit => CleanupInv
<1> SUFFICES ASSUME CleanupInit PROVE CleanupInv
  OBVIOUS
<1>1. CleanupShape
  <2>1. NoPlan \in Plans /\ Minted \in [phase: Phases, act: Nat, req: Consents \cup {"none"}]
    BY DEF NoPlan, Minted, Plans, Phases, Reqs
  <2>2. plan \in Plans
    BY <2>1 DEF CleanupInit, Minted, Plans, Phases, Reqs
  <2>3. epoch \in Epochs /\ consent \in [Epochs -> Targets \cup {"none"}]
    BY CleanupConstants DEF CleanupInit, Epochs
  <2> QED BY <2>1, <2>2, <2>3 DEF CleanupInit, CleanupShape, Idle
<1>2. ObserverInv
  BY DEF CleanupInit, ObserverInv, Idle
<1>3. ClaimMatchesNames
  BY DEF CleanupInit, ClaimMatchesNames, ClaimIsReadable, ReadableClaim, MarkerIsLast,
         CertifiedIsClean, FinishedIsEmpty, HeldIsCurrent, Minted, Idle, Names
<1> QED BY <1>1, <1>2, <1>3 DEF CleanupInv

(***************************************************************************)
(* What each action does to the parts of the invariant.                    *)
(***************************************************************************)
LEMMA CleanupStep == CleanupInv /\ [CleanupNext]_cleanupVars => CleanupInv'
<1> SUFFICES ASSUME CleanupInv, [CleanupNext]_cleanupVars PROVE CleanupInv'
  OBVIOUS
<1> USE DEF CleanupInv, CleanupShape, ObserverInv, ClaimMatchesNames, ClaimIsReadable,
            ReadableClaim, MarkerIsLast, CertifiedIsClean, FinishedIsEmpty, HeldIsCurrent
<1>0. NoPlan \in Plans /\ Idle.plan = NoPlan /\ Idle.pc = "idle" /\ Idle.item = 0 /\ Idle.revoked = FALSE
  BY DEF NoPlan, Idle, Plans, Phases, Reqs
<1> DEFINE Steps == Len(Items(claim.phase))
<1>a. Len(Items("pending")) \in Nat /\ Len(Items("certified")) \in Nat
  BY CleanupConstants DEF Items
<1>b. ASSUME obs # Idle, Onward
      PROVE  /\ obs'.plan = obs.plan /\ obs'.revoked = obs.revoked
             /\ obs'.pc \in {"check", "attest"} /\ obs'.item \in 1..Steps
             /\ obs' \in [pc: {"idle", "check", "enter", "unlink", "attest", "ok", "failed", "acknowledged"},
                           item: Nat, revoked: BOOLEAN, plan: Plans]
  <2>1. obs.item \in 1..Steps /\ Steps \in Nat
    BY <1>a, <1>b
  <2>2. CASE LastItem
    BY <1>b, <2>1, <2>2 DEF Onward
  <2>3. CASE ~LastItem
    <3>1. obs' = [obs EXCEPT !.pc = "check", !.item = @ + 1] /\ obs.item # Steps
      BY <1>b, <2>3 DEF Onward, LastItem
    <3>2. obs.item + 1 \in 1..Steps /\ obs.item + 1 \in Nat
      BY <2>1, <3>1, <1>a
    <3>3. /\ obs'.plan = obs.plan /\ obs'.revoked = obs.revoked
          /\ obs'.pc = "check" /\ obs'.item = obs.item + 1
      BY <3>1
    <3>4. obs' \in [pc: {"idle", "check", "enter", "unlink", "attest", "ok", "failed", "acknowledged"},
                      item: Nat, revoked: BOOLEAN, plan: Plans]
      BY <3>1, <3>2
    <3> QED BY <3>2, <3>3, <3>4
  <2> QED BY <2>2, <2>3
<1>c. obs = Idle => [obs EXCEPT !.revoked = obs # Idle] = Idle
  <2> SUFFICES ASSUME obs = Idle PROVE [Idle EXCEPT !.revoked = FALSE] = Idle
    OBVIOUS
  <2> QED BY DEF Idle
<1>1. CASE UNCHANGED cleanupVars
  BY <1>1 DEF cleanupVars, store, files, worker, AliasesGone
<1>2. ASSUME NEW q \in Consents \cup Targets, Ready, Adopt(q),
             UNCHANGED <<epoch, claim, consent, record, files, engine, held, obs, stops>>
      PROVE  CleanupInv'
  <2>1. plan' \in Plans
    BY <1>2 DEF Adopt, Plans, Reqs, Phases, Epochs
  <2> QED BY <1>0, <1>2, <2>1 DEF Adopt, Ready, files, AliasesGone
<1>3. ASSUME NEW t \in Targets, Arm(t) PROVE CleanupInv'
  BY <1>3 DEF Arm, files, worker, AliasesGone
<1>4. CASE Activate
  <2>1. CASE ~MayActivate
    BY <1>0, <1>4, <2>1 DEF Activate, Drop, Quiescent, files, AliasesGone
  <2>2. CASE MayActivate
    <3>1. /\ plan.epoch = epoch /\ plan.claim = claim /\ claim.phase \in {"pending", "certified"}
          /\ plan.req = "none" => epoch = 1
          /\ obs = Idle /\ plan # NoPlan /\ (OtherOwners \/ ~quiet) /\ held = NoPlan
      BY <1>4, <2>2 DEF Activate, MayActivate, PlanHolds, Quiescent
    <3>2. /\ claim'.phase = claim.phase /\ claim'.act = epoch
          /\ claim'.req = IF plan.req \in Targets THEN "none" ELSE plan.req
          /\ claim' \in [phase: Phases, act: Nat, req: Consents \cup {"none"}]
      <4>1. /\ claim' = [claim EXCEPT !.act = epoch, !.req = IF plan.req \in Targets THEN "none" ELSE plan.req]
        BY <1>4, <2>2 DEF Activate
      <4>2. (IF plan.req \in Targets THEN "none" ELSE plan.req) \in Consents \cup {"none"} /\ epoch \in Nat
        BY CleanupConstants DEF Plans, Reqs, Epochs
      <4> QED BY <4>1, <4>2
    <3>3. /\ consent' \in [Epochs -> Targets \cup {"none"}]
          /\ plan.req \in Targets => consent'[epoch] = plan.req
      BY <1>4, <2>2 DEF Activate
    <3>4. plan' \in Plans
      BY <1>4, <2>2, <3>2 DEF Activate, Plans, Phases
    <3>5. /\ UNCHANGED <<epoch, record, name, changed, after, engine, held, obs, quiet>>
      BY <1>4 DEF Activate, files
    <3>6. ReadableClaim(claim)'
      BY <3>1, <3>2, <3>3, <3>5, CleanupConstants DEF Plans, Reqs, Epochs
    <3> QED BY <1>0, <3>1, <3>2, <3>3, <3>4, <3>5, <3>6 DEF AliasesGone
  <2> QED BY <2>1, <2>2
<1>5. CASE Launch
  <2>1. CASE ~MayLaunch
    BY <1>0, <1>5, <2>1 DEF Launch, Drop, Quiescent, files, AliasesGone
  <2>2. CASE MayLaunch
    <3>1. plan.claim = claim /\ claim.phase \in {"pending", "certified"} /\ ~engine /\ plan # NoPlan /\ held = NoPlan
      BY <1>5, <2>2 DEF Launch, MayLaunch, PlanHolds, Quiescent
    <3>2. 1 \in 1..Len(Items(claim.phase))
      BY <3>1, CleanupConstants DEF Items
    <3>3. /\ obs' = [pc |-> "check", item |-> 1, revoked |-> FALSE, plan |-> plan]
          /\ record' = [a \in Kept |-> IF record[a] = "none" THEN "authorized" ELSE record[a]]
          /\ UNCHANGED <<epoch, claim, consent, name, changed, after, engine, plan, held, quiet>>
      BY <1>5, <2>2 DEF Launch, files
    <3>4. obs' \in [pc: {"idle", "check", "enter", "unlink", "attest", "ok", "failed", "acknowledged"},
                     item: Nat, revoked: BOOLEAN, plan: Plans]
      BY <3>3
    <3> QED BY <3>1, <3>2, <3>3, <3>4 DEF AliasesGone
  <2> QED BY <2>1, <2>2
<1>6. CASE Acknowledge
  <2>1. obs.pc = "ok" /\ ~obs.revoked /\ plan.claim.phase = "pending" /\ plan.claim = claim /\ AliasesGone
    BY <1>6 DEF Acknowledge, MayAcknowledge, Succeeded, PlanHolds
  <2>2. obs # Idle
    BY <1>0, <2>1
  <2>3. (OtherOwners \/ ~quiet) /\ held = NoPlan
    BY <2>1, <2>2
  <2> QED BY <1>6, <2>1, <2>2, <2>3 DEF Acknowledge, files, AliasesGone
<1>7. CASE Settle
  <2>1. CASE ~(MayCertify \/ MayFinish)
    <3>1. /\ obs' = Idle /\ plan' \in {plan, NoPlan}
          /\ UNCHANGED <<epoch, claim, consent, record, name, changed, after, engine, held, quiet>>
      BY <1>7, <2>1 DEF Settle, Drop, files
    <3>2. plan' \in Plans
      BY <1>0, <3>1
    <3> QED BY <1>0, <3>1, <3>2 DEF AliasesGone, Idle
  <2>2. ASSUME MayCertify \/ MayFinish PROVE CleanupInv'
    <3>1. /\ claim' = [claim EXCEPT !.phase = NextPhase] /\ obs' = Idle
          /\ UNCHANGED <<epoch, consent, record, name, changed, after, engine, held, quiet>>
          /\ claim.act = epoch /\ plan.claim = claim
      BY <1>7, <2>2 DEF Settle, files, MayCertify, MayFinish, PlanHolds, Activated
    <3>2. plan' \in Plans
      BY <1>0, <1>7, <2>2, <3>1 DEF Settle, Drop, Plans, NextPhase, Phases
    <3>3. ReadableClaim(claim)'
      BY <3>1 DEF NextPhase, Epochs
    <3>4. (OtherOwners \/ ~quiet) /\ held = NoPlan
      <4>1. obs # Idle /\ (obs.pc = "acknowledged" \/ ~obs.revoked)
        BY <1>0, <2>2 DEF MayCertify, MayFinish, Succeeded
      <4> QED BY <3>1, <4>1 DEF NoPlan
    <3>5. CASE MayCertify
      <4>1. claim.phase = "pending" /\ claim'.phase = "certified" /\ ~name["partial"] /\ name["marker"]
        BY <3>1, <3>5 DEF MayCertify, NextPhase
      <4>2. AliasesGone /\ \A a \in Kept : record[a] = "absent"
        BY <3>5 DEF MayCertify
      <4>3. AliasesGone' /\ \A a \in Kept : record'[a] = "absent"
        BY <3>1, <4>2 DEF AliasesGone
      <4>4. CleanupShape'
        BY <1>0, <3>1, <3>2, <4>1 DEF Phases, Idle
      <4>5. ObserverInv'
        BY <1>0, <3>1, <3>4
      <4>6. ClaimMatchesNames'
        BY <1>0, <3>1, <3>3, <3>4, <4>1, <4>3
      <4> QED BY <4>4, <4>5, <4>6
    <3>6. CASE MayFinish
      <4>1. /\ claim.phase = "certified" /\ claim'.phase = "finished"
            /\ ~name["partial"] /\ ~name["marker"] /\ AliasesGone /\ \A a \in Kept : record[a] = "absent"
        BY <3>1, <3>6 DEF MayFinish, NextPhase
      <4>2. AliasesGone' /\ \A n \in Names : ~name'[n]
        BY <3>1, <4>1 DEF AliasesGone, Names
      <4>3. CleanupShape'
        BY <1>0, <3>1, <3>2, <4>1 DEF Phases, Idle
      <4>4. ObserverInv'
        BY <1>0, <3>1, <3>4
      <4>5. ClaimMatchesNames'
        BY <1>0, <3>1, <3>3, <3>4, <4>1, <4>2
      <4> QED BY <4>3, <4>4, <4>5
    <3> QED BY <2>2, <3>5, <3>6
  <2> QED BY <2>1, <2>2
<1>8. CASE Check \/ Enter \/ Attest
  <2>1. obs # Idle /\ obs.pc # "idle" /\ obs.pc # "acknowledged"
    BY <1>0, <1>8 DEF Check, Enter, Attest
  <2>2. /\ obs'.plan = obs.plan /\ obs'.revoked = obs.revoked
        /\ obs'.pc \in {"check", "enter", "unlink", "attest", "ok", "failed"}
        /\ obs'.item \in 1..Steps
        /\ obs' \in [pc: {"idle", "check", "enter", "unlink", "attest", "ok", "failed", "acknowledged"},
                      item: Nat, revoked: BOOLEAN, plan: Plans]
    <3>1. CASE Onward
      BY <1>b, <2>1, <3>1
    <3>2. CASE \E pc \in {"enter", "unlink", "ok", "failed"} : Go(pc)
      BY <1>a, <2>1, <3>2 DEF Go
    <3> QED BY <1>8, <3>1, <3>2 DEF Check, Enter, Attest
  <2>3. UNCHANGED <<epoch, claim, consent, record, name, changed, after, engine, plan, held, quiet>>
    BY <1>8 DEF Check, Enter, Attest, store, files
  <2>4. obs'.pc = "unlink" => obs.pc = "enter" /\ ~obs.revoked
    BY <1>8 DEF Check, Enter, Attest, Go, Onward
  <2>5. obs'.pc = "enter" => ~changed
    BY <1>8 DEF Check, Enter, Attest, Go, Onward, Attests, NamespaceHolds
  <2> QED BY <1>0, <2>1, <2>2, <2>3, <2>4, <2>5 DEF AliasesGone
<1>9. CASE Unlink
  <2>1. obs # Idle /\ obs.pc = "unlink" /\ obs.plan.claim = claim /\ after = 0
    BY <1>0, <1>9 DEF Unlink
  <2>2. /\ Item \in Names
        /\ claim.phase = "pending" => Item # "marker"
        /\ claim.phase = "certified" => Item = "marker"
    BY <2>1, ItemsOfPhase DEF Item
  <2>3. /\ obs'.plan = obs.plan /\ obs'.revoked = obs.revoked
        /\ obs'.pc \in {"check", "attest"}
        /\ obs'.item \in 1..Steps
        /\ obs' \in [pc: {"idle", "check", "enter", "unlink", "attest", "ok", "failed", "acknowledged"},
                      item: Nat, revoked: BOOLEAN, plan: Plans]
    BY <1>9, <1>b, <2>1 DEF Unlink
  <2>4. /\ name' = [name EXCEPT ![Item] = FALSE]
        /\ after' = IF changed THEN 1 ELSE 0
        /\ UNCHANGED <<epoch, claim, consent, record, changed, engine, plan, held, quiet>>
    BY <1>9, <2>1 DEF Unlink, store
  <2> QED BY <1>0, <2>1, <2>2, <2>3, <2>4 DEF AliasesGone, Kept, Names
<1>10. CASE Control
  <2>1. UNCHANGED <<epoch, claim, consent, record, name, changed, after, engine, held>>
    BY <1>10 DEF Control, store, files
  <2>2. PICK told \in Tells :
          IF ~told THEN quiet' = TRUE /\ UNCHANGED <<plan, activated, obs>>
          ELSE /\ obs' = [obs EXCEPT !.revoked = obs # Idle]
               /\ IF obs.pc = "unlink" THEN UNCHANGED <<plan, activated, quiet>>
                  ELSE Drop /\ quiet' = TRUE
    BY <1>10 DEF Control
  <2>3. CASE ~told
    <3>1. OtherOwners
      BY <2>3, CleanupConstants DEF Tells
    <3>2. UNCHANGED <<plan, obs>> /\ quiet' = TRUE
      BY <2>2, <2>3
    <3> QED BY <2>1, <3>1, <3>2 DEF AliasesGone
  <2>4. CASE told
    <3>1. /\ obs' = [obs EXCEPT !.revoked = obs # Idle]
          /\ quiet' \in {quiet, TRUE} /\ plan' \in {plan, NoPlan}
          /\ obs.pc = "unlink" => quiet' = quiet /\ plan' = plan
          /\ obs.pc # "unlink" => plan' = NoPlan
          /\ obs.pc # "acknowledged"
      BY <1>10, <2>2, <2>4 DEF Control, Drop
    <3>2. obs = Idle => obs' = Idle
      BY <1>c, <3>1
    <3> QED BY <1>0, <2>1, <3>1, <3>2 DEF AliasesGone
  <2> QED BY <2>3, <2>4
<1>16. ASSUME PauseQueue PROVE CleanupInv'
  <2>1. /\ UNCHANGED <<epoch, claim, consent, record, name, changed, after>>
        /\ Operation \in Plans /\ Operation.claim = claim /\ obs.pc # "acknowledged"
    BY <1>16 DEF PauseQueue, store, files, Operation
  <2>2. CASE PauseRefused
    <3>1. /\ held' = Operation /\ UNCHANGED <<engine, quiet>>
          /\ obs' = [obs EXCEPT !.revoked = obs # Idle]
          /\ plan' \in {plan, NoPlan}
      BY <2>2 DEF PauseRefused, Drop
    <3>2. obs = Idle => obs' = Idle
      BY <1>c, <3>1
    <3> QED BY <1>0, <2>1, <3>1, <3>2 DEF AliasesGone
  <2>3. CASE PauseAccepted
    <3>1. plan' = NoPlan /\ held' = NoPlan /\ obs' = Idle /\ engine' = FALSE /\ quiet' = TRUE
      BY <2>3 DEF PauseAccepted, Drop
    <3>2. obs' \in [pc: {"idle", "check", "enter", "unlink", "attest", "ok", "failed", "acknowledged"},
                     item: Nat, revoked: BOOLEAN, plan: Plans]
      BY <1>0, <3>1 DEF Idle
    <3> QED BY <1>0, <2>1, <3>1, <3>2 DEF AliasesGone
  <2> QED BY <1>16, <2>2, <2>3 DEF PauseQueue
<1>17. CASE FirstPause \/ NextPause
  BY <1>16, <1>17 DEF FirstPause, NextPause
<1>11. CASE Contain \/ Occupy
  <2>1. /\ obs' = obs /\ engine' \in BOOLEAN /\ (engine' => obs = Idle \/ engine)
        /\ UNCHANGED <<epoch, claim, consent, record, name, changed, after, plan, held, quiet>>
    BY <1>11 DEF Contain, Occupy, Ready, store, files
  <2> QED BY <1>0, <2>1 DEF AliasesGone
<1>12. CASE Restart
  <2>1. /\ obs' = Idle /\ plan' = NoPlan /\ held' = NoPlan /\ quiet' = FALSE /\ epoch' = epoch + 1 /\ epoch' \in Epochs
        /\ UNCHANGED <<claim, consent, record, name, changed, after, engine>>
    BY <1>12, CleanupConstants DEF Restart, Drop, files, Epochs
  <2>2. ReadableClaim(claim)'
    BY <2>1 DEF Epochs
  <2>3. CleanupShape'
    BY <1>0, <2>1 DEF Idle
  <2>4. ObserverInv'
    BY <1>0, <2>1
  <2>5. ClaimMatchesNames'
    BY <1>0, <2>1, <2>2 DEF AliasesGone
  <2> QED BY <2>3, <2>4, <2>5
<1>13. CASE ChangeFinal
  BY <1>0, <1>13 DEF ChangeFinal, store, worker, AliasesGone
<1>14. ASSUME NEW q \in Consents, Ask(q) PROVE CleanupInv'
  BY <1>2, <1>14 DEF Ask, store
<1>15. ASSUME NEW t \in Targets, Consume(t) PROVE CleanupInv'
  BY <1>2, <1>15 DEF Consume
<1> QED
  BY <1>1, <1>3, <1>4, <1>5, <1>6, <1>7, <1>8, <1>9, <1>10, <1>11, <1>12, <1>13, <1>14, <1>15, <1>17
     DEF CleanupNext, Owner, Observer

LEMMA CleanupInductive == CleanupSpec => []CleanupInv
  BY CleanupStart, CleanupStep, PTL DEF CleanupSpec

(***************************************************************************)
(* In every reachable state the stored claim is one the next cleanup reads *)
(* and agrees with the names that are left (store.py,                      *)
(* certify_direct_cleanup and finish_direct_cleanup).                      *)
(***************************************************************************)
THEOREM ClaimAndNamesAgree == CleanupSpec => []ClaimMatchesNames
<1>1. CleanupInv => ClaimMatchesNames
  BY DEF CleanupInv
<1> QED BY <1>1, CleanupInductive, PTL

(***************************************************************************)
(* Where every control tells this owner, as it does while no other is at   *)
(* work, a name is only removed by an unlink whose permit was entered      *)
(* before any control was answered, with no engine present, and at most    *)
(* one goes after the final was changed (paths.py, the cleanup unlinks).   *)
(***************************************************************************)
THEOREM RemovalAuthorized ==
  ASSUME ~OtherOwners PROVE CleanupSpec => RemovalIsAuthorized
<1>1. ASSUME CleanupInv, CleanupInv', [CleanupNext]_cleanupVars
      PROVE  [Removal => ~quiet /\ ~engine /\ after' <= 1]_cleanupVars
  <2> SUFFICES ASSUME Removal PROVE ~quiet /\ ~engine /\ after' <= 1
    OBVIOUS
  <2>1. Unlink
    <3>1. name' # name
      BY DEF Removal
    <3> QED
      BY <1>1, <3>1 DEF CleanupNext, Owner, Observer, Ask, Arm, Consume, Activate, Launch,
         Acknowledge, Settle, Check, Enter, Attest, Control, FirstPause, NextPause,
         PauseQueue, Contain, Occupy, Restart, ChangeFinal, cleanupVars, store, files, worker
  <2>2. obs.pc = "unlink" /\ obs # Idle
    BY <2>1 DEF Unlink, Idle
  <2>3. ~quiet /\ ~engine
    BY <1>1, <2>2 DEF CleanupInv, ObserverInv
  <2>4. after' <= 1
    BY <1>1 DEF CleanupInv, ObserverInv
  <2> QED BY <2>3, <2>4
<1> QED
  BY <1>1, CleanupInductive, PTL DEF CleanupSpec, RemovalIsAuthorized
=============================================================================
