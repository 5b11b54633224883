---- MODULE Bandwidth ----
(***************************************************************************)
(* The global speed limit and its distribution over the engines            *)
(* (bandwidth.py: allocate; worker.py: apply_settings, apply_allocation;   *)
(* direct.py: set_global_limit, set_allocation).                           *)
(*                                                                         *)
(* The owner loop serves one command, applies the settings, may dispatch   *)
(* one job and polls its owners, in that order, for ever.  Each engine is  *)
(* told its share by two calls, which may fail; meanwhile transfers run    *)
(* and complete.  What the loop knows of an engine is the last share it    *)
(* saw confirmed.  None stands for "unlimited".                            *)
(***************************************************************************)
EXTENDS Integers, FiniteSets, FiniteSetsExt

CONSTANTS
  N,             \* owners, in the order of the worker's list
  Concurrency,   \* the configured number of transfers
  Limits,        \* global limits a user configures
  Caps,          \* limits of single jobs; one whose limit is 0 is never admitted
  MaxRev,        \* bound on configurations
  MaxStarts,     \* bound on dispatches
  Faults,        \* calls of an engine may fail
  LostAnswers,   \* a call that failed may have taken effect
  Legacy,        \* the direct_job_dispatch surface is used
  None, Unset

ASSUME BandwidthAssumption ==
  /\ N \in Nat \ {0} /\ Concurrency \in 1..N
  /\ Limits \subseteq Nat \cup {None} /\ Caps \subseteq (Nat \ {0}) \cup {None}
  /\ MaxRev \in Nat /\ MaxStarts \in Nat
  /\ {Faults, LostAnswers, Legacy} \subseteq BOOLEAN
  /\ None \notin Nat /\ Unset \notin Nat \cup {None}

Owners == 1..N

VARIABLES
  limit, rev,   \* the desired global limit and the settings revision
  applied,      \* the settings revision that was acknowledged
  pc,           \* the owner loop: "serve", "settings", "pass", "dispatch", "poll"
  owner,        \* the owners and their engines
  pass,         \* the allocation in progress
  polled,       \* the owners polled in this round
  starts,       \* dispatches so far
  inForce       \* history: the limits desired since the last completed pass

vars == <<limit, rev, applied, pc, owner, pass, polled, starts, inForce>>

\* phase: "off" (idle), "paused" (engine up, body not resumed), "running",
\* "complete" (not noticed yet), "finalizing"; of a stopped body "pending" (to
\* be checkpointed), "sealing" (its thread runs), "sealed" (its thread has exited);
\* share: the confirmed share; overall and item: the limits the engine obeys.
Off == [phase |-> "off", cap |-> None, share |-> Unset, overall |-> None, item |-> None]
NoPass == [todo |-> {}, share |-> <<>>, candidate |-> 0, called |-> FALSE]

Rates == Nat \cup {None}
BandwidthTypeOK ==
  /\ limit \in Limits \cup {None} /\ rev \in 0..MaxRev /\ applied \in 0..rev
  /\ pc \in {"serve", "settings", "pass", "dispatch", "poll"}
  /\ \A o \in Owners :
       /\ owner[o].phase \in {"off", "paused", "running", "complete", "finalizing", "pending", "sealing", "sealed"}
       /\ {owner[o].overall, owner[o].item} \subseteq Rates
       /\ owner[o].share \in Rates \cup {Unset}
       /\ owner[o].phase \in {"off", "pending", "sealing", "sealed"} => owner[o].share = Unset
       /\ owner[o].phase = "paused" <=> pass.candidate = o
  /\ pc # "pass" => pass = NoPass

Init ==
  /\ limit = None /\ rev = 0 /\ applied = 0
  /\ pc = "serve" /\ pass = NoPass
  /\ owner = [o \in Owners |-> Off]
  /\ polled = {} /\ starts = 0 /\ inForce = {None}

(***************************************************************************)
(* allocate: equal shares, capped, what a cap leaves going to the others.  *)
(* The owners are in the order of the worker's list, a candidate, c, last. *)
(***************************************************************************)
Before(c, o, p) == o # c /\ (p = c \/ o < p)

Portion_Faulty(active, left, c, o) ==
  left \div Cardinality(active) + (IF left % Cardinality(active) > 0 THEN 1 ELSE 0)
Portion(active, left, c, o) ==
  LET n == Cardinality(active) IN
  left \div n + (IF Cardinality({p \in active : Before(c, p, o)}) < left % n THEN 1 ELSE 0)

AtMost(a, b) == b = None \/ (a # None /\ a <= b)

\* The sum of f over S, as the number of units that it gives out.
Units(S, f) == UNION {{o} \X (1..f[o]) : o \in S}
Total(S, f) == Cardinality(Units(S, f))

\* One round: who is capped gets its cap and leaves.
Capped(r, caps, c) ==
  {o \in r.active : caps[o] # None /\ caps[o] <= Portion(r.active, r.left, c, o)}
NextRound(r, caps, c) ==
  [active |-> r.active \ Capped(r, caps, c),
   left   |-> r.left - Total(Capped(r, caps, c), caps)]

\* Every round but the last caps somebody, so N rounds are enough.
LastRound(global, caps, c) ==
  LET round[k \in 0..N] ==
        IF k = 0 THEN [active |-> DOMAIN caps, left |-> global] ELSE NextRound(round[k - 1], caps, c)
  IN  round[N]

Allocate(global, caps, c) ==
  IF global = None THEN caps
  ELSE LET last == LastRound(global, caps, c) IN
       [o \in DOMAIN caps |->
          IF o \in last.active THEN Portion(last.active, last.left, c, o) ELSE caps[o]]

(***************************************************************************)
(* apply_allocation: the shares of the live transfers, the lowered and the *)
(* new ones before the raised ones.                                        *)
(***************************************************************************)
Live == {o \in Owners : owner[o].phase \in {"running", "complete"}}

\* ow holds the candidate, o, with its engine up; o = 0 stands for no candidate.
Plan(ow, o) ==
  LET live == IF o = 0 THEN Live ELSE Live \cup {o} IN
  [todo |-> live, share |-> Allocate(limit, [p \in live |-> ow[p].cap], o),
   candidate |-> o, called |-> FALSE]

Begin(ow, o) == pc' = "pass" /\ owner' = ow /\ pass' = Plan(ow, o)

\* A failed allocation contains the candidate, or ends the worker, which
\* contains every engine; the next one starts without transfers.
Fail(ow) ==
  /\ pass' = NoPass
  /\ IF pass.candidate # 0
       THEN pc' = "poll" /\ owner' = [ow EXCEPT ![pass.candidate] = Off]
       ELSE pc' = "serve" /\ owner' = [o \in Owners |-> Off]
  /\ UNCHANGED <<limit, rev, applied, polled, starts, inForce>>

\* The sort is stable: within either group the order is that of the list.  The
\* share of an owner does not change before it is told, so who is raised can
\* be asked call by call.
Raised_Faulty(o) == FALSE
Raised(o) ==
  \/ pass.share[o] = None
  \/ owner[o].share \notin {Unset, None} /\ pass.share[o] > owner[o].share
FirstOf(S) == IF S \subseteq {pass.candidate} THEN pass.candidate ELSE Min(S \ {pass.candidate})
Told ==
  LET lowered == {o \in pass.todo : ~Raised(o)}
  IN  FirstOf(IF lowered # {} THEN lowered ELSE pass.todo)
Share == pass.share[Told]

Done == [pass EXCEPT !.todo = @ \ {Told}, !.called = FALSE]
InPass == pc = "pass" /\ pass.todo # {} /\ UNCHANGED <<limit, rev, applied, polled, starts, inForce>>

\* The engine has this share already.
Skip ==
  /\ InPass /\ ~pass.called /\ owner[Told].share = Share /\ Share # 0
  /\ pass' = Done
  /\ UNCHANGED <<pc, owner>>

NeedsCall == Share # 0 /\ owner[Told].share # Share
SetGlobalLimit ==
  /\ InPass /\ ~pass.called /\ NeedsCall
  /\ owner' = [owner EXCEPT ![Told].overall = Share]
  /\ pass' = [pass EXCEPT !.called = TRUE]
  /\ UNCHANGED pc

\* On a completed transfer the call fails, and the completion is accepted.
SetAllocation ==
  /\ InPass /\ pass.called
  /\ owner' = [owner EXCEPT ![Told].share = Share,
                            ![Told].item = IF owner[Told].phase = "complete" THEN @ ELSE Share]
  /\ pass' = Done
  /\ UNCHANGED pc

\* A share of zero is refused without a call.
CallFails ==
  /\ pc = "pass" /\ pass.todo # {}
  /\ \/ Share = 0 /\ Fail(owner)
     \/ /\ Faults /\ NeedsCall
        /\ \E effect \in {FALSE, LostAnswers} :
             Fail(IF ~effect THEN owner
                  ELSE IF pass.called THEN [owner EXCEPT ![Told].item = Share]
                  ELSE [owner EXCEPT ![Told].overall = Share])

\* The whole pass succeeded: the settings are acknowledged, or the candidate
\* is resumed.
EndPass ==
  /\ pc = "pass" /\ pass.todo = {}
  /\ pass' = NoPass
  /\ pc' = IF pass.candidate = 0 THEN "dispatch" ELSE "poll"
  /\ owner' = IF pass.candidate = 0 THEN owner ELSE [owner EXCEPT ![pass.candidate].phase = "running"]
  /\ applied' = IF pass.candidate = 0 /\ Cardinality(Live) <= Concurrency THEN rev ELSE applied
  /\ inForce' = {limit}
  /\ UNCHANGED <<limit, rev, polled, starts>>

(***************************************************************************)
(* The loop.                                                               *)
(***************************************************************************)
Active == {o \in Owners : owner[o].phase \in {"running", "complete", "finalizing"}}
Slots == IF limit = None \/ limit > Concurrency THEN Concurrency ELSE limit
Sealing == {o \in Owners : owner[o].phase = "sealing"}
\* Stopped transfers are checkpointed, if there is something to keep, one at
\* a time.
Stopped(S) ==
  \E next \in [S -> {"off", "pending", "sealing"}] :
    /\ Cardinality(Sealing \cup {o \in S : next[o] = "sealing"}) <= 1
    /\ owner' = [o \in Owners |-> IF o \in S THEN [Off EXCEPT !.phase = next[o]] ELSE owner[o]]

Serve ==
  /\ pc = "serve" /\ pc' = "settings"
  /\ UNCHANGED <<limit, rev, applied, owner, pass, polled, starts, inForce>>

Configure(l) ==
  /\ pc = "serve" /\ pc' = "settings"
  /\ rev < MaxRev /\ rev' = rev + 1
  /\ limit' = l /\ inForce' = inForce \cup {l}
  /\ UNCHANGED <<applied, owner, pass, polled, starts>>

PauseJob(o) ==
  /\ pc = "serve" /\ pc' = "settings"
  /\ owner[o].phase \in {"running", "complete", "finalizing"}
  /\ Stopped({o})
  /\ UNCHANGED <<limit, rev, applied, pass, polled, starts, inForce>>

\* The legacy surface uses the first owner, alone, and allocates nothing.
LegacyDispatch(cap) ==
  /\ Legacy /\ pc = "serve" /\ pc' = "settings"
  /\ starts < MaxStarts /\ starts' = starts + 1
  /\ \A o \in Owners : owner[o].phase = "off"
  /\ owner' = [owner EXCEPT ![1] = [Off EXCEPT !.phase = "running", !.cap = cap]]
  /\ UNCHANGED <<limit, rev, applied, pass, polled, inForce>>

\* apply_settings: nothing before the first configuration; transfers beyond
\* the slots are stopped; a checkpoint in progress defers the rest.
Excess == {o \in Active : Cardinality({p \in Active : p <= o}) > Slots}
Checkpointing == \E o \in Owners : owner[o].phase \in {"sealing", "sealed"}
Settings ==
  /\ pc = "settings"
  /\ UNCHANGED <<limit, rev, applied, polled, starts, inForce>>
  /\ \/ /\ rev = 0
        /\ pc' = "dispatch" /\ UNCHANGED <<owner, pass>>
     \/ /\ rev # 0 /\ Excess # {}
        /\ Stopped(Excess)
        /\ pc' = "dispatch" /\ UNCHANGED pass
     \/ /\ rev # 0 /\ Excess = {} /\ Checkpointing
        /\ pc' = "dispatch" /\ UNCHANGED <<owner, pass>>
     \/ /\ rev # 0 /\ Excess = {} /\ ~Checkpointing
        /\ Begin(owner, 0)

\* The first idle owner takes a job, if a slot is free and no observation
\* thread runs; one may have exited since the settings were deferred for it.
Dispatch(cap) ==
  LET idle == {o \in Owners : owner[o].phase = "off"} IN
  /\ pc = "dispatch" /\ starts < MaxStarts /\ idle # {} /\ Sealing = {}
  /\ N - Cardinality(idle) < Slots
  /\ starts' = starts + 1
  /\ Begin([owner EXCEPT ![Min(idle)] = [Off EXCEPT !.phase = "paused", !.cap = cap]], Min(idle))
  /\ UNCHANGED <<limit, rev, applied, polled, inForce>>

NoDispatch ==
  /\ pc = "dispatch" /\ pc' = "poll"
  /\ UNCHANGED <<limit, rev, applied, owner, pass, polled, starts, inForce>>

\* poll_direct_terminal, once for each owner: a completion may be noticed, a
\* finished owner released; a thread that has exited is collected.
Poll_Faulty(o) ==
  /\ pc = "poll" /\ o \notin polled /\ polled' = polled \cup {o}
  /\ LET to(ps) == \E p \in ps : owner' = [owner EXCEPT ![o].phase = p] IN
     CASE owner[o].phase = "complete"   -> to({"complete", "finalizing"})
       [] owner[o].phase = "pending"    -> to(IF Sealing = {} THEN {"pending", "sealing"} ELSE {"pending"})
       [] owner[o].phase = "finalizing" -> UNCHANGED owner \/ owner' = [owner EXCEPT ![o] = Off]
       [] OTHER                         -> UNCHANGED owner
  /\ UNCHANGED <<limit, rev, applied, pc, pass, starts, inForce>>
Poll(o) ==
  /\ pc = "poll" /\ o \notin polled /\ polled' = polled \cup {o}
  /\ LET to(ps) == \E p \in ps : owner' = [owner EXCEPT ![o].phase = p] IN
     CASE owner[o].phase = "complete"   -> to({"complete", "finalizing"})
       [] owner[o].phase = "pending"    -> to(IF Sealing = {} THEN {"pending", "sealing"} ELSE {"pending"})
       [] owner[o].phase = "finalizing" -> UNCHANGED owner \/ owner' = [owner EXCEPT ![o] = Off]
       [] owner[o].phase = "sealed"     -> owner' = [owner EXCEPT ![o] = Off]
       [] OTHER                         -> UNCHANGED owner
  /\ UNCHANGED <<limit, rev, applied, pc, pass, starts, inForce>>
EndPoll ==
  /\ pc = "poll" /\ polled = Owners /\ pc' = "serve" /\ polled' = {}
  /\ UNCHANGED <<limit, rev, applied, owner, pass, starts, inForce>>

\* The checkpoint thread exits, at any time.
Exit(o) ==
  /\ owner[o].phase = "sealing"
  /\ owner' = [owner EXCEPT ![o].phase = "sealed"]
  /\ UNCHANGED <<limit, rev, applied, pc, pass, polled, starts, inForce>>

\* The engine finishes a body, at any time.
Complete(o) ==
  /\ owner[o].phase = "running"
  /\ owner' = [owner EXCEPT ![o].phase = "complete"]
  /\ UNCHANGED <<limit, rev, applied, pc, pass, polled, starts, inForce>>

PassStep == Skip \/ SetGlobalLimit \/ SetAllocation \/ EndPass
Next ==
  \/ Serve \/ Settings \/ NoDispatch \/ EndPoll \/ PassStep \/ CallFails
  \/ \E l \in Limits : Configure(l)
  \/ \E c \in Caps : Dispatch(c) \/ LegacyDispatch(c)
  \/ \E o \in Owners : PauseJob(o) \/ Poll(o) \/ Complete(o) \/ Exit(o)

Spec == Init /\ [][Next]_vars

\* The loop thread is never stuck and checkpoint threads exit; nobody configures
\* or starts for ever (the bounds), and a call that fails costs a transfer.
Loop ==
  \/ Serve \/ Settings \/ NoDispatch \/ EndPoll \/ PassStep \/ CallFails
  \/ \E o \in Owners : Poll(o)
Fairness == WF_vars(Loop) /\ \A o \in Owners : WF_vars(Exit(o))
FairSpec == Spec /\ Fairness

(***************************************************************************)
(* Properties.                                                             *)
(***************************************************************************)
\* What the engine of a running transfer obeys.
Rate(o) == IF owner[o].item = None \/ (owner[o].overall # None /\ owner[o].overall < owner[o].item)
             THEN owner[o].overall ELSE owner[o].item
Running == {o \in Owners : owner[o].phase = "running" /\ owner[o].share # Unset}
Within(l) == l = None \/ (None \notin {Rate(o) : o \in Running} /\ Total(Running, [o \in Running |-> Rate(o)]) <= l)

\* At every call of an allocation, completed or broken off, the running
\* transfers together stay within some limit desired since the last one that
\* was completed: reductions come before increases, and a job that joins
\* takes what the others have given up.
WithinLimits == \E l \in inForce : Within(l)

\* Once the settings are acknowledged no transfer runs with an older, larger
\* share: together they stay within the desired limit.
AppliedIsEnforced == (applied = rev /\ rev # 0) => Within(limit)

\* A job never runs above its own limit, whatever is being redistributed.
CapHolds == \A o \in Running : AtMost(Rate(o), owner[o].cap)

\* The slots are counted so that an engine is never given a share of zero,
\* which would break the allocation off (and end the worker).
NobodyStarves == pc = "pass" => \A o \in DOMAIN pass.share : pass.share[o] # 0

\* The shares use the limit up, unless every job is capped below its part,
\* and two jobs differ by more than one unit only by the cap of the smaller.
FairShares ==
  (pc = "pass" /\ limit # None) =>
    LET live  == DOMAIN pass.share
        share == pass.share
    IN  /\ Total(live, share) <= limit
        /\ Total(live, share) < limit => \A o \in live : share[o] = owner[o].cap
        /\ \A o, p \in live : share[o] + 1 < share[p] => share[o] = owner[o].cap

\* The rates the engines obey hold, call by call: together within a limit desired since
\* the last acknowledgement, and each within the limit of its own job.
RatesHold == BandwidthTypeOK /\ WithinLimits /\ CapHolds

\* The allocation is usable and fair at the boundaries: more jobs than units of
\* bandwidth, limits that do not divide, jobs capped below their part.
SharesAreFair == NobodyStarves /\ FairShares

\* The desired settings are acknowledged in the end.
SettingsAreApplied == <>[](applied = rev)
====
