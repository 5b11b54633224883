---------------------------- MODULE EngineClaimProofs ----------------------------
(***************************************************************************)
(* No daemon without its claim, and never more daemons than fit, for any   *)
(* number of jobs, daemons and worker starts.                              *)
(***************************************************************************)
EXTENDS EngineClaim, FiniteSetTheorems, FunctionTheorems, TLAPS

Owned == mode = "run" /\ ~cold

\* What a stored row holds.
RowsHold ==
  \A s \in Slots : claim[s].phase \in {"bound", "ready"} => claim[s].birth \in Births

\* A daemon that still exists is the one its slot's claim is about.
DaemonsAreCovered ==
  /\ \A b \in Births : Exists(b) =>
       /\ eng[b].slot \in Slots /\ Claimed(eng[b].slot)
       /\ claim[eng[b].slot].phase \in {"bound", "ready"} => claim[eng[b].slot].birth = b
  /\ \A b, c \in Births : Exists(b) /\ Exists(c) /\ eng[b].slot = eng[c].slot => b = c
  /\ \A b \in Births : eng[b].os = "zombie" => mode = "run"

\* What reserve_direct_engine_activation and reserve_job_engine maintain.
ClaimsFit ==
  /\ Claimed(Legacy) => ClaimedJobs = {}
  /\ IsFiniteSet(ClaimedJobs) /\ Cardinality(ClaimedJobs) <= Capacity

\* A blocked worker, and one that has not opened its socket, owns nothing; the others
\* own exactly what is claimed.
ModesHold ==
  /\ mode = "down" => ~cold
  /\ ~Owned => /\ act.pc = "idle" /\ obs = None
               /\ \A s \in Slots : ctl[s] = "none" /\ held[s] = None
  /\ mode = "cold" =>
       /\ \A s \in Slots : Claimed(s) => claim[s].epoch # epoch /\ (s \in pend \/ cold)
       /\ \A s \in pend : Claimed(s)
       /\ cold => \E s \in Slots \ pend : Claimed(s)
  /\ mode = "run" /\ cold => \E s \in Slots : Claimed(s) /\ claim[s].epoch # epoch
  /\ Owned =>
       /\ \A s \in Slots : Claimed(s) => claim[s].epoch = epoch
       /\ \A s \in Slots : Claimed(s) <=> ctl[s] # "none"
       /\ \A b \in Births : Exists(b) => held[eng[b].slot] = b
  /\ \A s \in Slots : Claimed(s) => claim[s].epoch <= epoch

NoDaemon(s) == \A b \in Births : Exists(b) => eng[b].slot # s

\* How far the handler in progress has come.
HandlersHold ==
  /\ act.pc # "idle" => act.slot \in Slots
  /\ act.pc \in {"spawn", "bind", "answer"} => ctl[act.slot] = "candidate"
  /\ act.pc \in {"stop", "clear"} => ctl[act.slot] # "none"
  /\ act.pc = "spawn" => claim[act.slot].phase = "reserved" /\ NoDaemon(act.slot)
  /\ act.pc = "bind" => held[act.slot] \in Births
  /\ act.pc = "answer" => claim[act.slot].phase = "bound" /\ claim[act.slot].birth = held[act.slot]
  /\ act.pc = "clear" => NoDaemon(act.slot) /\ obs # act.slot
  /\ \A s \in Slots : ctl[s] = "closing" => NoDaemon(s)
  /\ obs # None => ctl[obs] # "none"

ClaimInv ==
  EngineTypeOK /\ RowsHold /\ DaemonsAreCovered /\ ClaimsFit /\ ModesHold /\ HandlersHold

LEMMA ClaimStart == Init => ClaimInv
<1> SUFFICES ASSUME Init PROVE ClaimInv
  OBVIOUS
<1>1. ClaimedJobs = {} /\ ~Claimed(Legacy) /\ \A s \in Slots : ~Claimed(s)
  BY DEF Init, ClaimedJobs, Claimed, NoClaim, Slots
<1>2. ClaimsFit
  BY <1>1, FS_EmptySet, BoundAssumption DEF ClaimsFit
<1>3. EngineTypeOK
  <2>1. NoClaim \in ClaimRow /\ 0 \in 0..MaxEpoch
    BY BoundAssumption DEF NoClaim, ClaimRow
  <2>2. [os |-> "unborn", slot |-> None]
          \in [os : {"unborn", "live", "zombie", "gone", "reused"}, slot : Slots \cup {None}]
    OBVIOUS
  <2>3. Idle \in [pc : {"idle", "reserve", "spawn", "bind", "answer", "stop", "clear"},
                   slot : Slots \cup {None}, then : {"idle", "reserve"}]
    BY DEF Idle
  <2> QED BY <2>1, <2>2, <2>3 DEF Init, EngineTypeOK
<1>4. RowsHold /\ DaemonsAreCovered
  BY DEF Init, RowsHold, DaemonsAreCovered, NoClaim, Exists
<1>5. ModesHold /\ HandlersHold
  BY <1>1 DEF Init, ModesHold, HandlersHold, NoDaemon, Exists, Owned, Idle
<1> QED BY <1>2, <1>3, <1>4, <1>5 DEF ClaimInv

\* What a changed claim does to the set of claimed jobs.
LEMMA ClaimsAfter ==
  ASSUME ClaimInv, NEW s \in Slots, NEW c \in ClaimRow, SetClaim(s, c)
  PROVE  /\ claim' \in [Slots -> ClaimRow]
         /\ claim'[s] = c /\ \A t \in Slots \ {s} : claim'[t] = claim[t]
         /\ c.phase = "none" => ClaimsFit'
         /\ Claimed(s) => ClaimsFit'
         /\ Reservable(s) => ClaimsFit'
<1> USE DEF ClaimInv
<1>1. /\ claim' \in [Slots -> ClaimRow] /\ claim'[s] = c
      /\ \A t \in Slots \ {s} : claim'[t] = claim[t]
  BY DEF SetClaim, EngineTypeOK
<1>2. Legacy \in Slots /\ Jobs \subseteq Slots /\ Legacy \notin Jobs
  BY SlotAssumption DEF Slots
<1>3. ASSUME ClaimedJobs' \subseteq ClaimedJobs
      PROVE  IsFiniteSet(ClaimedJobs') /\ Cardinality(ClaimedJobs') <= Capacity
  <2>1. IsFiniteSet(ClaimedJobs) /\ Cardinality(ClaimedJobs) <= Capacity
    BY DEF ClaimsFit
  <2>2. IsFiniteSet(ClaimedJobs') /\ Cardinality(ClaimedJobs') <= Cardinality(ClaimedJobs)
    BY <1>3, <2>1, FS_Subset
  <2> QED BY <2>1, <2>2, FS_CardinalityType, BoundAssumption
<1>4. (c.phase = "none" \/ Claimed(s)) => ClaimsFit'
  <2> SUFFICES ASSUME c.phase = "none" \/ Claimed(s) PROVE ClaimsFit'
    OBVIOUS
  <2>1. ClaimedJobs' \subseteq ClaimedJobs /\ (Claimed(Legacy)' => Claimed(Legacy))
    BY <1>1, <1>2 DEF ClaimedJobs, Claimed
  <2> QED BY <1>3, <2>1 DEF ClaimsFit
<1>5. Reservable(s) => ClaimsFit'
  <2> SUFFICES ASSUME Reservable(s) PROVE ClaimsFit'
    OBVIOUS
  <2>1. CASE s = Legacy
    <3>1. ClaimedJobs' = {}
      BY <1>1, <1>2, <2>1 DEF Reservable, ClaimedJobs, Claimed
    <3> QED BY <3>1, FS_EmptySet, BoundAssumption DEF ClaimsFit
  <2>2. CASE s # Legacy
    <3>1. ~Claimed(Legacy)' /\ Cardinality(ClaimedJobs) < Capacity
      BY <1>1, <1>2, <2>2 DEF Reservable, Claimed
    <3>2. ClaimedJobs' \subseteq ClaimedJobs \cup {s}
      BY <1>1, <1>2 DEF ClaimedJobs, Claimed
    <3>3. IsFiniteSet(ClaimedJobs \cup {s}) /\ Cardinality(ClaimedJobs \cup {s}) <= Capacity
      BY <3>1, FS_AddElement, FS_CardinalityType, BoundAssumption DEF ClaimsFit
    <3>4. IsFiniteSet(ClaimedJobs') /\ Cardinality(ClaimedJobs') <= Cardinality(ClaimedJobs \cup {s})
      BY <3>2, <3>3, FS_Subset
    <3> QED BY <3>1, <3>3, <3>4, FS_CardinalityType, BoundAssumption DEF ClaimsFit
  <2> QED BY <2>1, <2>2
<1> QED BY <1>1, <1>4, <1>5

\* Daemons only go.
FewerDaemons ==
  /\ eng' \in [Births -> [os : {"unborn", "live", "zombie", "gone", "reused"}, slot : Slots \cup {None}]]
  /\ \A b \in Births : /\ eng'[b].slot = eng[b].slot
                       /\ Exists(b)' => Exists(b)
                       /\ eng'[b].os = "zombie" => eng[b].os = "zombie" \/ mode' = "run"

LEMMA ReapedDaemons ==
  ASSUME EngineTypeOK, NEW b \in Births \cup {None}, eng' = Reap(b)
  PROVE  /\ eng' \in [Births -> [os : {"unborn", "live", "zombie", "gone", "reused"},
                                 slot : Slots \cup {None}]]
         /\ \A c \in Births : /\ eng'[c].slot = eng[c].slot
                              /\ Exists(c)' => Exists(c) /\ c # b
                              /\ eng'[c].os = "zombie" => eng[c].os = "zombie"
<1>1. CASE b # None /\ Exists(b)
  BY <1>1 DEF Reap, Exists, EngineTypeOK
<1>2. CASE ~(b # None /\ Exists(b))
  BY <1>2, SlotAssumption DEF Reap, Exists, EngineTypeOK
<1> QED BY <1>1, <1>2

LEMMA ClaimsKept ==
  ASSUME ClaimInv, UNCHANGED claim
  PROVE  RowsHold' /\ ClaimsFit'
  BY DEF ClaimInv, RowsHold, ClaimsFit, ClaimedJobs, Claimed

LEMMA DaemonsKept ==
  ASSUME ClaimInv, UNCHANGED claim, FewerDaemons, mode' = mode
  PROVE  DaemonsAreCovered'
  BY DEF ClaimInv, DaemonsAreCovered, FewerDaemons, Exists, Claimed

\* The steps that only move the handler, or the observer.
LEMMA HandlerMoves ==
  ASSUME ClaimInv, UNCHANGED <<epoch, mode, pend, cold, claim, eng, ctl, held, stray>>,
         \/ ActivationFails
         \/ \E s \in Slots : Activate(s) \/ Close(s) \/ ReapClosing(s) \/ Observe(s)
         \/ ObserverEnds
  PROVE  ClaimInv'
<1> USE DEF ClaimInv
<1>1. RowsHold' /\ ClaimsFit'
  BY ClaimsKept
<1>2. DaemonsAreCovered'
  BY DEF DaemonsAreCovered, Exists, Claimed
<1>3. /\ act' \in [pc : {"idle", "reserve", "spawn", "bind", "answer", "stop", "clear"},
                   slot : Slots \cup {None}, then : {"idle", "reserve"}]
      /\ obs' \in Slots \cup {None}
  <2>1. CASE ActivationFails
    BY <2>1 DEF EngineTypeOK, ActivationFails, Goto
  <2>2. ASSUME NEW s \in Slots, Activate(s) \/ Close(s) \/ ReapClosing(s) 
    PROVE  /\ act' \in [pc : {"idle", "reserve", "spawn", "bind", "answer", "stop", "clear"},
                        slot : Slots \cup {None}, then : {"idle", "reserve"}]
           /\ obs' \in Slots \cup {None}
    BY <2>2 DEF EngineTypeOK, Activate, Close, ReapClosing
  <2>3. CASE ObserverEnds \/ \E s \in Slots : Observe(s)
    BY <2>3 DEF EngineTypeOK, ObserverEnds, Observe
  <2> QED BY <2>1, <2>2, <2>3
<1>4. ModesHold'
  BY DEF ModesHold, Owned, Exists, Claimed, ActivationFails, Activate, Close, ReapClosing,
         Observe, ObserverEnds, Goto, At
<1>5. HandlersHold'
  <2> USE DEF HandlersHold, NoDaemon, Exists, EngineTypeOK
  <2>1. CASE ActivationFails
    BY <2>1 DEF ActivationFails, Goto
  <2>2. ASSUME NEW s \in Slots, Activate(s) \/ Close(s) PROVE HandlersHold'
    BY <2>2 DEF Activate, Close
  <2>3. ASSUME NEW s \in Slots, ReapClosing(s) PROVE HandlersHold'
    BY <2>3 DEF ReapClosing
  <2>4. CASE ObserverEnds
    BY <2>4, SlotAssumption DEF ObserverEnds, Slots
  <2>5. ASSUME NEW s \in Slots, Observe(s) PROVE HandlersHold'
    BY <2>5 DEF Observe, At
  <2> QED BY <2>1, <2>2, <2>3, <2>4, <2>5
<1> QED BY <1>1, <1>2, <1>3, <1>4, <1>5 DEF EngineTypeOK

LEMMA ReserveKeeps == ClaimInv /\ Reserve => ClaimInv'
<1> SUFFICES ASSUME ClaimInv, Reserve PROVE ClaimInv'
  OBVIOUS
<1> USE DEF ClaimInv
<1> DEFINE s == act.slot
<1>1. s \in Slots /\ Owned
  BY DEF Reserve, At, HandlersHold, ModesHold
<1>2. CASE Reservable(s)
  <2>1. /\ SetClaim(s, [phase |-> "reserved", epoch |-> epoch, birth |-> None])
        /\ ctl' = [ctl EXCEPT ![s] = "candidate"] /\ act' = [act EXCEPT !.pc = "spawn"]
        /\ UNCHANGED <<epoch, mode, pend, cold, eng, held, obs, stray>>
    BY <1>2 DEF Reserve, SetCtl, Goto
  <2>2. [phase |-> "reserved", epoch |-> epoch, birth |-> None] \in ClaimRow
    BY DEF EngineTypeOK, ClaimRow
  <2>3. /\ claim' \in [Slots -> ClaimRow] /\ ClaimsFit'
        /\ claim'[s] = [phase |-> "reserved", epoch |-> epoch, birth |-> None]
        /\ \A t \in Slots \ {s} : claim'[t] = claim[t]
    BY <1>1, <1>2, <2>1, <2>2, ClaimsAfter
  <2>4. ~Claimed(s) /\ NoDaemon(s)
    BY <1>1, <1>2 DEF Reservable, ClaimedJobs, Claimed, Slots, DaemonsAreCovered, NoDaemon
  <2>5. EngineTypeOK'
    BY <1>1, <2>1, <2>3 DEF EngineTypeOK
  <2>6. RowsHold'
    BY <2>3 DEF RowsHold
  <2>7. DaemonsAreCovered'
    BY <1>1, <2>1, <2>3, <2>4 DEF DaemonsAreCovered, Exists, Claimed, NoDaemon
  <2>8. ModesHold'
    BY <1>1, <2>1, <2>3, <2>4 DEF ModesHold, Owned, Exists, Claimed, EngineTypeOK, Reserve, At
  <2>9. HandlersHold'
    BY <1>1, <2>1, <2>3, <2>4 DEF HandlersHold, NoDaemon, Exists, EngineTypeOK, Reserve, At
  <2> QED BY <2>3, <2>5, <2>6, <2>7, <2>8, <2>9
<1>3. CASE ~Reservable(s)
  <2>1. act' = Idle /\ UNCHANGED <<epoch, mode, pend, cold, claim, eng, ctl, held, obs, stray>>
    BY <1>3 DEF Reserve
  <2>2. EngineTypeOK'
    BY <2>1 DEF EngineTypeOK, Idle
  <2>3. DaemonsAreCovered'
    BY <2>1 DEF DaemonsAreCovered, Exists, Claimed
  <2>4. ModesHold' /\ HandlersHold'
    BY <2>1 DEF ModesHold, HandlersHold, Owned, Exists, Claimed, NoDaemon, Idle
  <2> QED BY <2>1, <2>2, <2>3, <2>4, ClaimsKept
<1> QED BY <1>2, <1>3

LEMMA SpawnKeeps == ClaimInv /\ Spawn => ClaimInv'
<1> SUFFICES ASSUME ClaimInv, Spawn PROVE ClaimInv'
  OBVIOUS
<1> USE DEF ClaimInv
<1> DEFINE s == act.slot
<1>1. PICK b \in Births : /\ eng[b].os = "unborn"
                          /\ eng' = [eng EXCEPT ![b] = [os |-> "live", slot |-> act.slot]]
                          /\ held' = [held EXCEPT ![act.slot] = b]
  BY DEF Spawn
<1>2. /\ act' = [act EXCEPT !.pc = "bind"] /\ act.pc = "spawn"
      /\ UNCHANGED <<epoch, mode, pend, cold, claim, ctl, obs, stray>>
  BY DEF Spawn, Goto, At
<1>3. s \in Slots /\ Owned /\ ctl[s] = "candidate" /\ claim[s].phase = "reserved" /\ NoDaemon(s)
  BY <1>2 DEF HandlersHold, ModesHold
<1>4. EngineTypeOK'
  BY <1>1, <1>2, <1>3 DEF EngineTypeOK
<1>5. /\ eng'[b] = [os |-> "live", slot |-> s] /\ \A c \in Births \ {b} : eng'[c] = eng[c]
      /\ held'[s] = b /\ \A t \in Slots \ {s} : held'[t] = held[t]
  BY <1>1, <1>3 DEF EngineTypeOK
<1>6. DaemonsAreCovered'
  BY <1>2, <1>3, <1>5 DEF DaemonsAreCovered, Exists, Claimed, NoDaemon
<1>7. ModesHold'
  BY <1>2, <1>3, <1>5 DEF ModesHold, Owned, Exists, Claimed, DaemonsAreCovered, NoDaemon
<1>8. HandlersHold'
  BY <1>2, <1>3, <1>5 DEF HandlersHold, NoDaemon, Exists, EngineTypeOK
<1> QED BY <1>2, <1>4, <1>6, <1>7, <1>8, ClaimsKept

\* The daemon of the handler in progress is the only one of its slot.
LEMMA BindKeeps == ClaimInv /\ (Bind \/ Answer) => ClaimInv'
<1> SUFFICES ASSUME ClaimInv, Bind \/ Answer PROVE ClaimInv'
  OBVIOUS
<1> USE DEF ClaimInv
<1> DEFINE s == act.slot
<1>1. /\ act.pc \in {"bind", "answer"}
      /\ UNCHANGED <<epoch, mode, pend, cold, eng, held, obs, stray>>
  BY DEF Bind, Answer, At
<1>2. s \in Slots /\ Owned /\ ctl[s] = "candidate" /\ Claimed(s)
  BY <1>1 DEF HandlersHold, ModesHold
<1>3. claim[s] \in ClaimRow /\ held[s] \in Births \cup {None}
  BY <1>2 DEF EngineTypeOK
<1>4. PICK c \in ClaimRow : /\ SetClaim(s, c) /\ c.birth = held[s] /\ c.birth \in Births
                            /\ c.epoch = claim[s].epoch /\ c.phase \in {"bound", "ready"}
                            /\ c.phase = "bound" <=> act.pc = "bind"
  <2>1. CASE Bind
    <3>1. SetClaim(s, [claim[s] EXCEPT !.phase = "bound", !.birth = held[s]]) /\ act.pc = "bind"
      BY <2>1 DEF Bind, At
    <3>2. held[s] \in Births
      BY <3>1 DEF HandlersHold
    <3> DEFINE c == [claim[s] EXCEPT !.phase = "bound", !.birth = held[s]]
    <3>3. /\ c \in ClaimRow /\ c.birth = held[s] /\ c.epoch = claim[s].epoch /\ c.phase = "bound"
      BY <1>3, <3>2 DEF ClaimRow
    <3> QED BY <3>1, <3>2, <3>3
  <2>2. CASE Answer
    <3>1. SetClaim(s, [claim[s] EXCEPT !.phase = "ready"]) /\ act.pc = "answer"
      BY <2>2 DEF Answer, At
    <3>2. held[s] \in Births /\ claim[s].birth = held[s]
      BY <1>2, <3>1 DEF HandlersHold, RowsHold
    <3> DEFINE c == [claim[s] EXCEPT !.phase = "ready"]
    <3>3. c \in ClaimRow /\ c.birth = held[s] /\ c.epoch = claim[s].epoch /\ c.phase = "ready"
      BY <1>3, <3>2 DEF ClaimRow
    <3> QED BY <3>1, <3>2, <3>3
  <2> QED BY <2>1, <2>2
<1>5. /\ claim' \in [Slots -> ClaimRow] /\ claim'[s] = c /\ ClaimsFit'
      /\ \A t \in Slots \ {s} : claim'[t] = claim[t]
  BY <1>2, <1>4, ClaimsAfter
<1>6. /\ ctl' \in {ctl, [ctl EXCEPT ![s] = "ready"]}
      /\ act' = IF act.pc = "bind" THEN [act EXCEPT !.pc = "answer"] ELSE Idle
  BY DEF Bind, Answer, SetCtl, Goto, At
<1>7. EngineTypeOK'
  <2>1. Idle \in [pc : {"idle", "reserve", "spawn", "bind", "answer", "stop", "clear"},
                  slot : Slots \cup {None}, then : {"idle", "reserve"}]
    BY DEF Idle
  <2>2. act' \in [pc : {"idle", "reserve", "spawn", "bind", "answer", "stop", "clear"},
                  slot : Slots \cup {None}, then : {"idle", "reserve"}]
    BY <1>6, <2>1 DEF EngineTypeOK
  <2> QED BY <1>1, <1>2, <1>5, <1>6, <2>2 DEF EngineTypeOK
<1>8. RowsHold'
  BY <1>4, <1>5 DEF RowsHold
<1>9. \A b \in Births : Exists(b) => (eng[b].slot = s => held[s] = b)
  BY <1>2 DEF ModesHold
<1>10. DaemonsAreCovered'
  BY <1>1, <1>2, <1>4, <1>5, <1>9 DEF DaemonsAreCovered, Exists, Claimed
<1>11. ctl' \in [Slots -> {"none", "candidate", "ready", "failed", "closing", "discardFailed", "discardDone"}]
       /\ ctl'[s] # "none" /\ ctl'[s] # "closing" /\ (act.pc = "bind" => ctl' = ctl)
       /\ \A t \in Slots \ {s} : ctl'[t] = ctl[t]
  BY <1>2, <1>6 DEF EngineTypeOK, Bind, Answer, At
<1>12. ModesHold'
  BY <1>1, <1>2, <1>4, <1>5, <1>11 DEF ModesHold, Owned, Exists, Claimed
<1>13. HandlersHold'
  <2>1. act'.pc \in {"answer", "idle"} /\ (act'.pc = "answer" => act.pc = "bind" /\ act'.slot = s)
    BY <1>1, <1>6 DEF Idle, EngineTypeOK
  <2>2. act'.pc = "answer" => claim'[act'.slot].phase = "bound" /\ claim'[act'.slot].birth = held'[act'.slot]
    BY <1>1, <1>4, <1>5, <2>1
  <2>3. act'.pc = "answer" => act'.slot \in Slots /\ ctl'[act'.slot] = "candidate"
    BY <1>2, <1>11, <2>1
  <2>4. \A t \in Slots : ctl'[t] = "closing" => NoDaemon(t)'
    BY <1>1, <1>11 DEF HandlersHold, NoDaemon, Exists
  <2>5. obs' # None => ctl'[obs'] # "none"
    BY <1>1, <1>11 DEF HandlersHold, EngineTypeOK
  <2> QED BY <2>1, <2>2, <2>3, <2>4, <2>5 DEF HandlersHold
<1> QED BY <1>5, <1>7, <1>8, <1>10, <1>12, <1>13

\* Containment: the group that is gone was the slot's only one.
LEMMA StopKeeps == ClaimInv /\ (Stop \/ StopFails) => ClaimInv'
<1> SUFFICES ASSUME ClaimInv, Stop \/ StopFails PROVE ClaimInv'
  OBVIOUS
<1> USE DEF ClaimInv
<1> DEFINE s == act.slot
<1>1. act.pc = "stop" /\ UNCHANGED <<epoch, mode, pend, cold, claim>>
  BY DEF Stop, StopFails, At
<1>2. s \in Slots /\ Owned /\ ctl[s] # "none" /\ held[s] \in Births \cup {None}
  BY <1>1 DEF HandlersHold, ModesHold, EngineTypeOK
<1>3. /\ FewerDaemons /\ stray' \in BOOLEAN
      /\ held' \in {held, [held EXCEPT ![s] = None]}
      /\ (held' # held \/ Stop) => eng' = Reap(held[s])
  <2>1. ASSUME eng' = Reap(held[s]) PROVE FewerDaemons
    BY <1>2, <2>1, ReapedDaemons DEF FewerDaemons
  <2>2. ASSUME UNCHANGED eng PROVE FewerDaemons
    <3>1. eng' = eng
      BY <2>2
    <3>2. \A b \in Births : Exists(b)' => Exists(b)
      BY <3>1 DEF Exists
    <3>3. eng' \in [Births -> [os : {"unborn", "live", "zombie", "gone", "reused"}, slot : Slots \cup {None}]]
      BY <3>1 DEF EngineTypeOK
    <3> QED BY <3>1, <3>2, <3>3 DEF FewerDaemons
  <2>3. stray' \in BOOLEAN
    <3>1. Signalled(held[s])
      BY DEF Stop, StopFails
    <3> DEFINE foreign == held[s] # None /\ eng[held[s]].os = "reused"
    <3>2. stray' = (stray \/ foreign)
      BY <3>1 DEF Signalled
    <3> HIDE DEF foreign
    <3>3. (stray \/ foreign) \in BOOLEAN
      OBVIOUS
    <3> QED BY <3>2, <3>3
  <2>4. held' \in {held, [held EXCEPT ![s] = None]} /\ (held' # held \/ Stop => eng' = Reap(held[s]))
    BY DEF Stop, StopFails
  <2> QED BY <2>1, <2>2, <2>3, <2>4 DEF Stop, StopFails
<1>4. \A b \in Births : Exists(b) /\ eng[b].slot = s => held[s] = b
  BY <1>2 DEF ModesHold
<1>5. Stop => \A b \in Births : Exists(b)' => eng'[b].slot # s
  BY <1>2, <1>3, <1>4, ReapedDaemons
<1>6. \A b \in Births : Exists(b)' => held'[eng'[b].slot] = b
  <2> SUFFICES ASSUME NEW b \in Births, Exists(b)' PROVE held'[eng'[b].slot] = b
    OBVIOUS
  <2>1. Exists(b) /\ eng'[b].slot = eng[b].slot /\ held[eng[b].slot] = b /\ eng[b].slot \in Slots
    BY <1>2, <1>3 DEF FewerDaemons, ModesHold, DaemonsAreCovered
  <2>2. CASE held' = held
    BY <2>1, <2>2
  <2>3. CASE held' # held
    <3>1. held' = [held EXCEPT ![s] = None] /\ eng' = Reap(held[s])
      BY <1>3, <2>3
    <3>2. b # held[s]
      BY <1>2, <3>1, ReapedDaemons
    <3> QED BY <2>1, <3>1, <3>2 DEF EngineTypeOK
  <2> QED BY <2>2, <2>3
<1>7. /\ act' \in {Idle, [act EXCEPT !.pc = "clear"]} /\ obs' \in {obs, None}
      /\ ctl' \in {ctl, [ctl EXCEPT ![s] = "closing"], [ctl EXCEPT ![s] = "failed"]}
      /\ act' # Idle => Stop /\ obs' # s /\ ctl' = ctl
      /\ ctl' = [ctl EXCEPT ![s] = "closing"] /\ ctl' # [ctl EXCEPT ![s] = "failed"] => Stop \/ ctl' = ctl
  BY <1>2, SlotAssumption DEF Stop, StopFails, AfterStop, Goto, SetCtl, Slots
<1>8. EngineTypeOK'
  <2>1. Idle \in [pc : {"idle", "reserve", "spawn", "bind", "answer", "stop", "clear"},
                  slot : Slots \cup {None}, then : {"idle", "reserve"}]
    BY DEF Idle
  <2>2. act' \in [pc : {"idle", "reserve", "spawn", "bind", "answer", "stop", "clear"},
                  slot : Slots \cup {None}, then : {"idle", "reserve"}]
    BY <1>7, <2>1 DEF EngineTypeOK
  <2>3. held' \in [Slots -> Births \cup {None}]
    BY <1>2, <1>3 DEF EngineTypeOK
  <2>4. ctl' \in [Slots -> {"none", "candidate", "ready", "failed", "closing", "discardFailed", "discardDone"}]
    BY <1>2, <1>7 DEF EngineTypeOK
  <2> QED BY <1>1, <1>3, <1>7, <2>2, <2>3, <2>4 DEF EngineTypeOK, FewerDaemons
<1>9. DaemonsAreCovered'
  BY <1>1, <1>3, DaemonsKept
<1>10. /\ \A t \in Slots : ctl'[t] # "none" <=> ctl[t] # "none"
       /\ \A t \in Slots : ctl'[t] = "closing" => ctl[t] = "closing" \/ (t = s /\ Stop)
  BY <1>2, <1>7 DEF EngineTypeOK, Stop, StopFails, SetCtl
<1>11. ModesHold'
  BY <1>1, <1>2, <1>6, <1>10 DEF ModesHold, Owned, Claimed
<1>12. HandlersHold'
  <2>1. act'.pc \in {"idle", "clear"} /\ (act'.pc = "clear" => Stop /\ act'.slot = s /\ obs' # s)
    BY <1>7 DEF Idle, EngineTypeOK
  <2>2. \A t \in Slots : ctl'[t] = "closing" => NoDaemon(t)'
    <3>1. \A t \in Slots : ctl[t] = "closing" => \A b \in Births : Exists(b)' => eng'[b].slot # t
      BY <1>3 DEF HandlersHold, NoDaemon, FewerDaemons
    <3> QED BY <1>5, <1>10, <3>1 DEF NoDaemon
  <2>3. obs' # None => ctl'[obs'] # "none"
    BY <1>7, <1>10 DEF HandlersHold, EngineTypeOK
  <2>4. (act.pc = "clear" => NoDaemon(act.slot) /\ act.slot \in Slots /\ ctl[act.slot] # "none")'
    BY <1>2, <1>5, <1>10, <2>1 DEF NoDaemon
  <2> QED BY <2>1, <2>2, <2>3, <2>4 DEF HandlersHold
<1> QED BY <1>1, <1>8, <1>9, <1>11, <1>12, ClaimsKept

LEMMA ClearKeeps == ClaimInv /\ (Clear \/ ClearFails) => ClaimInv'
<1> SUFFICES ASSUME ClaimInv, Clear \/ ClearFails PROVE ClaimInv'
  OBVIOUS
<1> USE DEF ClaimInv
<1> DEFINE s == act.slot
<1>1. act.pc = "clear" /\ UNCHANGED <<epoch, mode, pend, cold, eng, held, obs, stray>>
  BY DEF Clear, ClearFails, At
<1>2. s \in Slots /\ Owned /\ ctl[s] # "none" /\ NoDaemon(s) /\ obs # s
  BY <1>1 DEF HandlersHold, ModesHold
<1>3. /\ act' \in [pc : {"idle", "reserve", "spawn", "bind", "answer", "stop", "clear"},
                   slot : Slots \cup {None}, then : {"idle", "reserve"}]
      /\ act'.pc \in {"idle", "reserve"} /\ (act'.pc = "reserve" => act'.slot = s)
  <2>1. act' \in {Idle, [act EXCEPT !.pc = "reserve", !.then = "idle"]}
    BY DEF Clear, ClearFails
  <2>2. CASE act' = Idle
    BY <2>2 DEF Idle
  <2>3. CASE act' = [act EXCEPT !.pc = "reserve", !.then = "idle"]
    BY <2>3 DEF EngineTypeOK
  <2> QED BY <2>1, <2>2, <2>3
<1>4. CASE Clear
  <2>1. NoClaim \in ClaimRow /\ NoClaim.phase = "none"
    BY BoundAssumption DEF NoClaim, ClaimRow
  <2>2. SetClaim(s, NoClaim) /\ ctl' = [ctl EXCEPT ![s] = "none"]
    BY <1>4 DEF Clear, SetCtl
  <2>3. /\ claim' \in [Slots -> ClaimRow] /\ ClaimsFit' /\ claim'[s].phase = "none"
        /\ \A t \in Slots \ {s} : claim'[t] = claim[t]
    BY <1>2, <2>1, <2>2, ClaimsAfter DEF Claimed
  <2>4. /\ ctl' \in [Slots -> {"none", "candidate", "ready", "failed", "closing", "discardFailed", "discardDone"}]
        /\ ctl'[s] = "none" /\ \A t \in Slots \ {s} : ctl'[t] = ctl[t]
    BY <1>2, <2>2 DEF EngineTypeOK
  <2>5. EngineTypeOK'
    BY <1>1, <1>3, <2>3, <2>4 DEF EngineTypeOK
  <2>6. RowsHold' /\ DaemonsAreCovered'
    BY <1>1, <1>2, <2>3 DEF RowsHold, DaemonsAreCovered, Exists, Claimed, NoDaemon
  <2>7. ModesHold'
    BY <1>1, <1>2, <2>3, <2>4 DEF ModesHold, Owned, Exists, Claimed
  <2>8. HandlersHold'
    BY <1>1, <1>2, <1>3, <2>4 DEF HandlersHold, NoDaemon, Exists, EngineTypeOK
  <2> QED BY <2>3, <2>5, <2>6, <2>7, <2>8
<1>5. CASE ClearFails
  <2>1. /\ claim' = claim /\ ctl' \in {[ctl EXCEPT ![s] = "discardDone"], [ctl EXCEPT ![s] = "failed"]}
    BY <1>5 DEF ClearFails, SetCtl
  <2>2. /\ ctl' \in [Slots -> {"none", "candidate", "ready", "failed", "closing", "discardFailed", "discardDone"}]
        /\ ctl'[s] \notin {"none", "closing"} /\ \A t \in Slots \ {s} : ctl'[t] = ctl[t]
    BY <1>2, <2>1 DEF EngineTypeOK
  <2>3. EngineTypeOK'
    BY <1>1, <1>3, <2>1, <2>2 DEF EngineTypeOK
  <2>4. DaemonsAreCovered'
    BY <1>1, <2>1 DEF DaemonsAreCovered, Exists, Claimed
  <2>5. ModesHold'
    BY <1>1, <1>2, <2>1, <2>2 DEF ModesHold, Owned, Exists, Claimed
  <2>6. HandlersHold'
    BY <1>1, <1>2, <1>3, <2>2 DEF HandlersHold, NoDaemon, Exists, EngineTypeOK
  <2> QED BY <2>1, <2>3, <2>4, <2>5, <2>6, ClaimsKept
<1> QED BY <1>4, <1>5

LEMMA DiscardKeeps ==
  ASSUME ClaimInv, NEW s \in Slots, Discard(s) \/ DiscardFails(s)
  PROVE  ClaimInv'
<1> USE DEF ClaimInv
<1>1. /\ CanDiscard(s) /\ eng' = Reap(held[s])
      /\ UNCHANGED <<epoch, mode, pend, cold, claim, obs, stray>>
      /\ held' \in {held, [held EXCEPT ![s] = None]}
      /\ ctl' \in {[ctl EXCEPT ![s] = "discardDone"], [ctl EXCEPT ![s] = "discardFailed"]}
  BY DEF Discard, DiscardFails, SetCtl
<1>2. act.pc = "idle" /\ obs # s /\ ctl[s] # "none" /\ Owned /\ held[s] \in Births
  BY <1>1 DEF CanDiscard, At, ModesHold, EngineTypeOK
<1>3. /\ act' \in [pc : {"idle", "reserve", "spawn", "bind", "answer", "stop", "clear"},
                   slot : Slots \cup {None}, then : {"idle", "reserve"}]
      /\ act'.pc = "idle" \/ (act'.pc = "clear" /\ act'.slot = s)
  BY <1>2 DEF Discard, DiscardFails, EngineTypeOK
<1>4. FewerDaemons
  BY <1>1, <1>2, ReapedDaemons DEF FewerDaemons
<1>5. \A b \in Births : Exists(b)' => eng'[b].slot # s
  BY <1>1, <1>2, ReapedDaemons DEF ModesHold
<1>6. /\ ctl' \in [Slots -> {"none", "candidate", "ready", "failed", "closing", "discardFailed", "discardDone"}]
      /\ ctl'[s] \notin {"none", "closing"} /\ \A t \in Slots \ {s} : ctl'[t] = ctl[t]
      /\ held' \in [Slots -> Births \cup {None}] /\ \A t \in Slots \ {s} : held'[t] = held[t]
  BY <1>1 DEF EngineTypeOK
<1>7. EngineTypeOK'
  BY <1>1, <1>3, <1>4, <1>6 DEF EngineTypeOK, FewerDaemons
<1>8. DaemonsAreCovered'
  BY <1>1, <1>4, DaemonsKept
<1>9. ModesHold'
  <2>1. \A b \in Births : Exists(b)' => held'[eng'[b].slot] = b
    BY <1>2, <1>4, <1>5, <1>6 DEF ModesHold, FewerDaemons, DaemonsAreCovered
  <2> QED BY <1>1, <1>2, <1>6, <2>1 DEF ModesHold, Owned, Claimed
<1>10. HandlersHold'
  <2>1. \A t \in Slots : ctl'[t] = "closing" => NoDaemon(t)'
    BY <1>4, <1>6 DEF HandlersHold, NoDaemon, FewerDaemons
  <2>2. (act.pc = "clear" => NoDaemon(act.slot) /\ obs # act.slot /\ ctl[act.slot] # "none")'
    BY <1>1, <1>2, <1>3, <1>5, <1>6, SlotAssumption DEF NoDaemon, Slots
  <2>3. (obs # None => ctl[obs] # "none")'
    BY <1>1, <1>2, <1>6 DEF HandlersHold, EngineTypeOK
  <2> QED BY <1>1, <1>2, <1>3, <2>1, <2>2, <2>3 DEF HandlersHold
<1> QED BY <1>1, <1>7, <1>8, <1>9, <1>10, ClaimsKept

\* A daemon exits, and its number is used again.
LEMMA ExitKeeps ==
  ASSUME ClaimInv, NEW b \in Births, EngineDies(b) \/ Recycle(b)
  PROVE  ClaimInv'
<1> USE DEF ClaimInv
<1>1. /\ UNCHANGED <<epoch, mode, pend, cold, claim, ctl, held, obs, act, stray>>
      /\ \E os \in {"zombie", "gone", "reused"} :
           /\ eng' = [eng EXCEPT ![b].os = os]
           /\ os = "zombie" => Exists(b) /\ \E s \in Slots : held[s] = b
  BY DEF EngineDies, Recycle, Exists
<1>2. (\E s \in Slots : held[s] = b) => mode = "run"
  BY SlotAssumption DEF ModesHold, Owned
<1>3. FewerDaemons
  BY <1>1, <1>2 DEF FewerDaemons, EngineTypeOK, Exists
<1>4. EngineTypeOK'
  BY <1>1, <1>3 DEF EngineTypeOK, FewerDaemons
<1>5. DaemonsAreCovered'
  BY <1>1, <1>3, DaemonsKept
<1>6. ModesHold'
  BY <1>1, <1>3 DEF ModesHold, Owned, Claimed, FewerDaemons
<1>7. HandlersHold'
  BY <1>1, <1>3 DEF HandlersHold, NoDaemon, FewerDaemons
<1> QED BY <1>1, <1>4, <1>5, <1>6, <1>7, ClaimsKept

LEMMA CrashKeeps == ClaimInv /\ Crash => ClaimInv'
<1> SUFFICES ASSUME ClaimInv, Crash PROVE ClaimInv'
  OBVIOUS
<1> USE DEF ClaimInv
<1>1. /\ mode' = "down" /\ pend' = {} /\ cold' = FALSE /\ obs' = None /\ act' = Idle
      /\ ctl' = [s \in Slots |-> "none"] /\ held' = [s \in Slots |-> None]
      /\ UNCHANGED <<epoch, claim, stray>>
  BY DEF Crash
<1>2. FewerDaemons /\ \A b \in Births : eng'[b].os # "zombie"
  <2>1. eng' = [b \in Births |-> IF eng[b].os = "zombie" THEN [eng[b] EXCEPT !.os = "gone"] ELSE eng[b]]
    BY DEF Crash
  <2> QED BY <2>1 DEF FewerDaemons, EngineTypeOK, Exists
<1>3. EngineTypeOK'
  BY <1>1, <1>2 DEF EngineTypeOK, FewerDaemons, Idle
<1>4. DaemonsAreCovered'
  BY <1>1, <1>2 DEF DaemonsAreCovered, FewerDaemons, Claimed
<1>5. ModesHold' /\ HandlersHold'
  BY <1>1 DEF ModesHold, HandlersHold, Owned, Claimed, Idle
<1> QED BY <1>1, <1>3, <1>4, <1>5, ClaimsKept

LEMMA BootKeeps == ClaimInv /\ (Boot \/ Open) => ClaimInv'
<1> SUFFICES ASSUME ClaimInv, Boot \/ Open PROVE ClaimInv'
  OBVIOUS
<1> USE DEF ClaimInv
<1>1. UNCHANGED <<cold, claim, eng, ctl, held, obs, act, stray>>
  BY DEF Boot, Open
<1>2. CASE Boot
  <2>1. /\ mode = "down" /\ mode' = "cold" /\ epoch' = epoch + 1 /\ pend' = {s \in Slots : Claimed(s)}
        /\ epoch \in Nat /\ epoch' \in 0..MaxEpoch
    BY <1>2, BoundAssumption DEF Boot, EngineTypeOK
  <2>2. \A s \in Slots : claim[s].epoch \in Nat
    BY BoundAssumption DEF EngineTypeOK, ClaimRow
  <2>3. EngineTypeOK'
    BY <1>1, <2>1 DEF EngineTypeOK
  <2>4. DaemonsAreCovered'
    BY <1>1, <2>1 DEF DaemonsAreCovered, Exists, Claimed
  <2>5. ModesHold' /\ HandlersHold'
    BY <1>1, <2>1, <2>2 DEF ModesHold, HandlersHold, NoDaemon, Owned, Exists, Claimed
  <2> QED BY <1>1, <2>3, <2>4, <2>5, ClaimsKept
<1>3. CASE Open
  <2>1. mode = "cold" /\ mode' = "run" /\ pend = {} /\ pend' = pend /\ epoch' = epoch
    BY <1>3 DEF Open
  <2>2. EngineTypeOK'
    BY <1>1, <2>1 DEF EngineTypeOK
  <2>3. DaemonsAreCovered'
    BY <1>1, <2>1 DEF DaemonsAreCovered, Exists, Claimed
  <2>4. ~Owned /\ (~cold => \A s \in Slots : ~Claimed(s))
    BY <2>1 DEF ModesHold, Owned
  <2>5. ~cold => \A b \in Births : ~Exists(b)
    BY <2>4 DEF DaemonsAreCovered
  <2>6. ModesHold' /\ HandlersHold'
    BY <1>1, <2>1, <2>4, <2>5 DEF ModesHold, HandlersHold, NoDaemon, Owned, Exists, Claimed
  <2> QED BY <1>1, <2>2, <2>3, <2>6, ClaimsKept
<1> QED BY <1>2, <1>3

\* Bootstrap examines a claim: shuts its daemon, deletes the claim or is blocked by it.
LEMMA ColdKeeps ==
  ASSUME ClaimInv, NEW s \in Slots, ColdShut(s) \/ ColdRetire(s) \/ ColdBlock(s)
  PROVE  ClaimInv'
<1> USE DEF ClaimInv
<1>1. /\ mode = "cold" /\ s \in pend /\ ~Owned /\ Claimed(s)
      /\ UNCHANGED <<epoch, mode, ctl, held, obs, act, stray>>
  BY DEF ColdShut, ColdRetire, ColdBlock, Owned, ModesHold
<1>2. CASE ColdShut(s)
  <2>1. /\ claim[s].birth \in Births /\ eng' = [eng EXCEPT ![claim[s].birth].os = "gone"]
        /\ UNCHANGED <<pend, cold, claim>>
    BY <1>2 DEF ColdShut, RowsHold
  <2>2. FewerDaemons
    BY <2>1 DEF FewerDaemons, EngineTypeOK, Exists
  <2>3. EngineTypeOK'
    BY <1>1, <2>1, <2>2 DEF EngineTypeOK, FewerDaemons
  <2>4. DaemonsAreCovered'
    BY <1>1, <2>1, <2>2, DaemonsKept
  <2>5. ModesHold' /\ HandlersHold'
    BY <1>1, <2>1 DEF ModesHold, HandlersHold, Owned, Claimed
  <2> QED BY <2>1, <2>3, <2>4, <2>5, ClaimsKept
<1>3. CASE ColdRetire(s)
  <2>1. /\ SetClaim(s, NoClaim) /\ pend' = pend \ {s} /\ UNCHANGED <<cold, eng>>
        /\ claim[s].phase \in {"bound", "ready"} /\ claim[s].birth \in Births
        /\ "absent" \in Reconciled(claim[s].birth)
    BY <1>3 DEF ColdRetire, Retirable, ProvedAbsent, RowsHold
  <2>2. ~Exists(claim[s].birth)
    BY <1>1, <2>1 DEF Reconciled, Exists, DaemonsAreCovered
  <2>3. NoDaemon(s)
    BY <2>1, <2>2 DEF DaemonsAreCovered, NoDaemon
  <2>4. NoClaim \in ClaimRow /\ NoClaim.phase = "none"
    BY BoundAssumption DEF NoClaim, ClaimRow
  <2>5. /\ claim' \in [Slots -> ClaimRow] /\ ClaimsFit' /\ claim'[s].phase = "none"
        /\ \A t \in Slots \ {s} : claim'[t] = claim[t]
    BY <2>1, <2>4, ClaimsAfter
  <2>6. EngineTypeOK'
    BY <1>1, <2>1, <2>5 DEF EngineTypeOK
  <2>7. RowsHold' /\ DaemonsAreCovered'
    BY <1>1, <2>1, <2>3, <2>5 DEF RowsHold, DaemonsAreCovered, Exists, Claimed, NoDaemon
  <2>8. ModesHold'
    <3>1. /\ \A t \in Slots : Claimed(t)' => Claimed(t) /\ t # s /\ claim'[t] = claim[t]
          /\ \A t \in Slots \ {s} : Claimed(t) => Claimed(t)'
      BY <1>1, <2>1, <2>5 DEF Claimed
    <3> QED BY <1>1, <2>1, <3>1 DEF ModesHold, Owned, EngineTypeOK
  <2>9. HandlersHold'
    BY <1>1, <2>1 DEF ModesHold, HandlersHold
  <2> QED BY <2>5, <2>6, <2>7, <2>8, <2>9
<1>4. CASE ColdBlock(s)
  <2>1. cold' = TRUE /\ pend' = pend \ {s} /\ UNCHANGED <<claim, eng>>
    BY <1>4 DEF ColdBlock, ColdBlocks
  <2>2. EngineTypeOK'
    BY <1>1, <2>1 DEF EngineTypeOK
  <2>3. DaemonsAreCovered'
    BY <1>1, <2>1 DEF DaemonsAreCovered, Exists, Claimed
  <2>4. ModesHold' /\ HandlersHold'
    BY <1>1, <2>1 DEF ModesHold, HandlersHold, Owned, Claimed
  <2> QED BY <2>1, <2>2, <2>3, <2>4, ClaimsKept
<1> QED BY <1>1, <1>2, <1>3, <1>4

LEMMA ClaimStep == ClaimInv /\ [Next]_vars => ClaimInv'
<1> SUFFICES ASSUME ClaimInv, [Next]_vars PROVE ClaimInv'
  OBVIOUS
<1>1. CASE UNCHANGED vars
  <2>1. UNCHANGED <<epoch, mode, pend, cold, claim, eng, ctl, held, obs, act, stray>>
    BY <1>1 DEF vars
  <2> QED
    BY <2>1 DEF ClaimInv, EngineTypeOK, RowsHold, DaemonsAreCovered, ClaimsFit, ModesHold,
       HandlersHold, Owned, Exists, Claimed, ClaimedJobs, NoDaemon
<1>2. ASSUME \/ ActivationFails \/ ObserverEnds
             \/ \E s \in Slots : Activate(s) \/ Close(s) \/ ReapClosing(s) \/ Observe(s)
      PROVE  ClaimInv'
  <2>1. UNCHANGED <<epoch, mode, pend, cold, claim, eng, ctl, held, stray>>
    BY <1>2 DEF ActivationFails, ObserverEnds, Activate, Close, ReapClosing, Observe
  <2> QED BY <1>2, <2>1, HandlerMoves
<1>3. CASE Reserve
  BY <1>3, ReserveKeeps
<1>4. CASE Spawn
  BY <1>4, SpawnKeeps
<1>5. CASE Bind \/ Answer
  BY <1>5, BindKeeps
<1>6. CASE Stop \/ StopFails
  BY <1>6, StopKeeps
<1>7. CASE Clear \/ ClearFails
  BY <1>7, ClearKeeps
<1>8. CASE \E s \in Slots : Discard(s) \/ DiscardFails(s)
  BY <1>8, DiscardKeeps
<1>9. CASE \E b \in Births : EngineDies(b) \/ Recycle(b)
  BY <1>9, ExitKeeps
<1>10. CASE Crash
  BY <1>10, CrashKeeps
<1>11. CASE Boot \/ Open
  BY <1>11, BootKeeps
<1>12. CASE \E s \in Slots : ColdShut(s) \/ ColdRetire(s) \/ ColdBlock(s)
  BY <1>12, ColdKeeps
<1> QED
  BY <1>1, <1>2, <1>3, <1>4, <1>5, <1>6, <1>7, <1>8, <1>9, <1>10, <1>11, <1>12 DEF Next

LEMMA ClaimInductive == Spec => []ClaimInv
  BY ClaimStart, ClaimStep, PTL DEF Spec

(***************************************************************************)
(* Every daemon and observer that may write is covered by a durable claim, *)
(* at most one daemon per claim, and a worker that opened its socket is    *)
(* blocked exactly when a claim of an earlier worker survives (worker.py,  *)
(* _DirectOwner and the bootstrap recovery).                               *)
(***************************************************************************)
THEOREM ClaimsExact == Spec => []ClaimsAreExact
<1>1. ClaimInv => ClaimsAreExact
  <2> SUFFICES ASSUME ClaimInv PROVE ClaimsAreExact
    OBVIOUS
  <2> USE DEF ClaimInv
  <2>1. EveryEngineIsClaimed
    <3> SUFFICES ASSUME NEW s \in Slots
                 PROVE  /\ EnginesOf(s) # {} => Claimed(s)
                        /\ claim[s].phase \in {"bound", "ready"} => EnginesOf(s) \subseteq {claim[s].birth}
                        /\ Cardinality(EnginesOf(s)) <= 1
      BY DEF EveryEngineIsClaimed
    <3>1. EnginesOf(s) = {} \/ \E b \in Births : EnginesOf(s) = {b}
      <4>1. \A b, c \in EnginesOf(s) : b \in Births /\ b = c
        BY DEF EnginesOf, DaemonsAreCovered
      <4> QED BY <4>1
    <3>2. Cardinality(EnginesOf(s)) <= 1
      <4>1. CASE EnginesOf(s) = {}
        BY <4>1, FS_EmptySet
      <4>2. ASSUME NEW b \in Births, EnginesOf(s) = {b} PROVE Cardinality(EnginesOf(s)) = 1
        BY <4>2, FS_Singleton
      <4> QED BY <3>1, <4>1, <4>2
    <3>3. \A b \in EnginesOf(s) : b \in Births /\ Exists(b) /\ eng[b].slot = s
      BY DEF EnginesOf
    <3>4. \A b \in EnginesOf(s) : Claimed(s) /\ (claim[s].phase \in {"bound", "ready"} => b = claim[s].birth)
      BY <3>3 DEF DaemonsAreCovered
    <3> QED BY <3>2, <3>4
  <2>2. ObserverIsFenced
    BY DEF ObserverIsFenced, HandlersHold, ModesHold, EngineTypeOK
  <2>3. BlockedByOldClaims
    BY DEF BlockedByOldClaims, ModesHold, Owned, EngineTypeOK
  <2> QED BY <2>1, <2>2, <2>3 DEF ClaimsAreExact
<1> QED BY <1>1, ClaimInductive, PTL

(***************************************************************************)
(* The daemons that exist, orphans of dead workers included, never exceed  *)
(* the concurrency, and the singleton runs alone: each private daemon has  *)
(* the claim of a job of its own, and the claims fit (store.py,            *)
(* reserve_job_engine).                                                    *)
(***************************************************************************)
THEOREM DaemonsFit == Spec => []EnginesFit
<1>1. ClaimInv => EnginesFit
  <2> SUFFICES ASSUME ClaimInv PROVE EnginesFit
    OBVIOUS
  <2> USE DEF ClaimInv
  <2> DEFINE jobEngines == UNION {EnginesOf(j) : j \in Jobs}
  <2>1. \A b \in jobEngines : b \in Births /\ Exists(b) /\ eng[b].slot \in ClaimedJobs
    BY DEF EnginesOf, DaemonsAreCovered, ClaimedJobs
  <2>2. EnginesOf(Legacy) # {} => jobEngines = {}
    BY <2>1 DEF EnginesOf, DaemonsAreCovered, ClaimsFit
  <2>3. [b \in jobEngines |-> eng[b].slot] \in Injection(jobEngines, ClaimedJobs)
    BY <2>1, Fun_IsInj DEF DaemonsAreCovered
  <2>4. Cardinality(jobEngines) <= Cardinality(ClaimedJobs) /\ IsFiniteSet(jobEngines)
    BY <2>3, FS_Injection DEF ClaimsFit
  <2>5. Cardinality(jobEngines) <= Capacity
    BY <2>4, FS_CardinalityType, BoundAssumption DEF ClaimsFit
  <2> QED BY <2>2, <2>5 DEF EnginesFit
<1> QED BY <1>1, ClaimInductive, PTL
=============================================================================
