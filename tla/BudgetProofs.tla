---------------------------- MODULE BudgetProofs ----------------------------
(***************************************************************************)
(* What the two budgets of the program are good for: the attempts a job    *)
(* has left, and the bandwidth the engines share.                          *)
(*                                                                         *)
(* RetryBudget: work runs on an open budget, waits its turn and stays      *)
(* within its bounds, for any limits, delays, Retry-After values and       *)
(* generations, and every audit proves the budget it is kept with.  The    *)
(* replay of the audit is a recursive function: what one more event adds   *)
(* to it follows from the least event two replays could differ on.         *)
(*                                                                         *)
(* Bandwidth: for any number of engines and any limits and caps, every     *)
(* allocation is fair and uses its limit up, and at every call of it the   *)
(* engines together stay within a limit in force.  A sum is the number of  *)
(* units it gives out, so that it is bounded and split as a finite set is. *)
(***************************************************************************)
EXTENDS RetryBudget, Bandwidth, FiniteSetTheorems, FunctionTheorems, WellFoundedInduction, TLAPS

-----------------------------------------------------------------------------
(* The budget of the attempts.                                             *)

RetryShape ==
  /\ job \in [generation: Nat, state: States]
  /\ gate \in {"running", "paused"}
  /\ budget \in BudgetRow /\ audit \in Seq(AuditRow)
  /\ failure \in FailureRow
  /\ body \in {"none", "owner", "stale"} /\ saved \in BOOLEAN
  /\ reopen \in {"none", "owner", "stale"}

\* The due time is never before the backoff and the Retry-After are over.
FloorHolds == wait \in Nat /\ floor \in Nat /\ floor <= wait

\* Each scheduled retry was counted as an attempt before it was made.
CountsHold ==
  /\ retries \in Nat /\ consents \in Nat
  /\ ~HasBudget => budget = NoBudget /\ retries = 0 /\ consents = 0
  /\ HasBudget => budget.number = 1 + consents
  /\ budget.attempts <= MaxOrdinaryAttempts
  /\ ~budget.exhausted => budget.attempts < MaxOrdinaryAttempts
  /\ retries <= budget.attempts /\ retries < MaxOrdinaryAttempts
  /\ job.state = "retry_wait" => retries < budget.attempts

\* A consent that still waits for its resume waits on an open budget.
ReopenHolds ==
  reopen = "owner" => /\ job.state = "paused"
                      /\ HasBudget /\ ~budget.paused /\ ~budget.exhausted

RetryInv == RetryShape /\ WorkHasOpenBudget /\ FloorHolds /\ CountsHold /\ ReopenHolds

LEMMA PowersAreNaturals == ASSUME NEW n \in Nat PROVE 2^n \in Nat
<1>1. IsFiniteSet(1..n) /\ Cardinality(1..n) = n
  BY FS_Interval
<1>2. IsFiniteSet(SUBSET (1..n)) /\ Cardinality(SUBSET (1..n)) = 2^Cardinality(1..n)
  BY <1>1, FS_SUBSET
<1> QED BY <1>1, <1>2, FS_CardinalityType

\* The delay of a scheduled retry covers its backoff and the host's Retry-After.
LEMMA DelayCovers ==
  ASSUME NEW attempt \in Nat \ {0}, NEW retryAfter \in Nat, NEW jitter \in Nat
  PROVE  /\ Backoff(attempt) \in Nat
         /\ Delay(attempt, retryAfter, jitter) \in Nat
         /\ Backoff(attempt) <= Delay(attempt, retryAfter, jitter)
         /\ retryAfter <= Delay(attempt, retryAfter, jitter)
<1> DEFINE power == 2^(attempt - 1)
<1>1. power \in Nat
  BY PowersAreNaturals
<1> HIDE DEF power
<1>2. BaseDelay * power \in Nat
  BY <1>1, RetryConstants
<1> DEFINE doubled == BaseDelay * power
<1>3. Backoff(attempt) = IF doubled < MaxDelay THEN doubled ELSE MaxDelay
  BY DEF Backoff, power
<1> HIDE DEF doubled
<1>4. Backoff(attempt) \in Nat /\ Backoff(attempt) <= MaxDelay
  BY <1>2, <1>3, RetryConstants DEF doubled
<1> QED BY <1>4, RetryConstants DEF Delay

LEMMA RetryStart == RetryInit => RetryInv
<1> SUFFICES ASSUME RetryInit PROVE RetryInv
  OBVIOUS
<1>1. RetryShape
  <2>1. NoBudget \in BudgetRow
    BY DEF NoBudget, BudgetRow
  <2>2. NoFailure \in FailureRow
    BY DEF NoFailure, FailureRow, RetryActions
  <2>3. [generation |-> 0, state |-> "queued"] \in [generation: Nat, state: States]
    BY DEF States
  <2>4. audit \in Seq(AuditRow)
    BY DEF RetryInit
  <2>5. job \in [generation: Nat, state: States] /\ budget \in BudgetRow /\ failure \in FailureRow
    BY <2>1, <2>2, <2>3 DEF RetryInit
  <2>6. /\ gate \in {"running", "paused"} /\ body \in {"none", "owner", "stale"}
        /\ saved \in BOOLEAN /\ reopen \in {"none", "owner", "stale"}
    BY DEF RetryInit
  <2> QED BY <2>4, <2>5, <2>6 DEF RetryShape
<1>2. WorkHasOpenBudget /\ ReopenHolds
  BY DEF RetryInit, WorkHasOpenBudget, RetryWaitIsLive, BodyHasOpenBudget, ReopenHolds, HasBudget
<1>3. FloorHolds /\ CountsHold
  BY RetryConstants DEF RetryInit, FloorHolds, CountsHold, HasBudget, NoBudget
<1> QED BY <1>1, <1>2, <1>3 DEF RetryInv

\* What an event leaves: a non-empty audit and the budget it speaks of.
LEMMA RecordedShape ==
  ASSUME NEW log \in Seq(AuditRow), NEW b \in BudgetRow, NEW kind \in AuditKinds,
         Recorded(log, kind, b)
  PROVE  budget' = b /\ audit' \in Seq(AuditRow) /\ HasBudget'
<1>1. Event(kind, b) \in AuditRow
  BY DEF Event, AuditRow, BudgetRow
<1>2. audit' = Append(log, Event(kind, b)) /\ budget' = b
  BY DEF Recorded
<1> QED BY <1>1, <1>2 DEF HasBudget

LEMMA OpeningShape ==
  ASSUME NEW g \in Nat
  PROVE  /\ Opening(g) \in BudgetRow /\ Opening(g).number = 1 /\ Opening(g).attempts = 0
         /\ ~Opening(g).paused /\ ~Opening(g).exhausted
<1>1. /\ NoBudget \in BudgetRow /\ NoBudget.attempts = 0
      /\ NoBudget.paused = FALSE /\ NoBudget.exhausted = FALSE
  BY DEF NoBudget, BudgetRow
<1> QED BY <1>1 DEF Opening, BudgetRow

LEMMA FencedShape ==
  ASSUME NEW b \in BudgetRow, NEW g \in Nat
  PROVE  /\ Fenced(b, g) \in BudgetRow /\ Fenced(b, g).attempts = b.attempts
         /\ Fenced(b, g).number = b.number /\ Fenced(b, g).exhausted = b.exhausted
  BY DEF Fenced, BudgetRow

LEMMA RetryStep == RetryInv /\ [RetryNext]_retryVars => RetryInv'
<1> SUFFICES ASSUME RetryInv, [RetryNext]_retryVars PROVE RetryInv'
  OBVIOUS
<1> USE DEF RetryInv
<1> DEFINE Work == WorkHasOpenBudget /\ ReopenHolds
<1>a. job.generation \in Nat /\ job.state \in States
  BY DEF RetryShape
<1>b. \A s \in States : [job EXCEPT !.state = s] \in [generation: Nat, state: States]
  BY DEF RetryShape
<1>c. /\ [failure EXCEPT !.current = FALSE] \in FailureRow
      /\ [failure EXCEPT !.current = FALSE, !.epochCurrent = FALSE] \in FailureRow
  BY DEF RetryShape, FailureRow
<1>1. CASE UNCHANGED retryVars
  BY <1>1 DEF retryVars, RetryShape, WorkHasOpenBudget, RetryWaitIsLive, BodyHasOpenBudget,
     ReopenHolds, FloorHolds, CountsHold, HasBudget
<1>2. ASSUME UNCHANGED <<job, budget, audit, failure, reopen, retries, consents>>,
             body' \in {body, "none"}, UNCHANGED saved, gate' \in {"running", "paused"}, FloorHolds'
      PROVE  RetryInv'
  BY <1>2 DEF RetryShape, WorkHasOpenBudget, RetryWaitIsLive, BodyHasOpenBudget,
     ReopenHolds, CountsHold, HasBudget
<1>3. CASE Tick
  BY <1>2, <1>3 DEF Tick, FloorHolds, RetryShape
<1>4. CASE \E value \in {"running", "paused"} : SetQueueGate(value)
  BY <1>2, <1>4 DEF SetQueueGate, FloorHolds
<1>5. CASE DrainBody
  BY <1>2, <1>5 DEF DrainBody, FloorHolds, RetryShape
<1>6. CASE StartBody
  <2>1. /\ job.state = "queued" /\ job' = [job EXCEPT !.state = "downloading"]
        /\ failure' = NoFailure /\ body' = "owner" /\ saved' = FALSE /\ reopen' = Stale(reopen)
        /\ UNCHANGED <<gate, budget, audit, wait, floor, retries, consents>>
    BY <1>6 DEF StartBody
  <2>2. RetryShape'
    BY <1>b, <2>1 DEF RetryShape, NoFailure, FailureRow, RetryActions, Stale, States
  <2>3. Work'
    BY <2>1 DEF WorkHasOpenBudget, RetryWaitIsLive, BodyHasOpenBudget, ReopenHolds, HasBudget,
       Stale, RetryShape
  <2>4. FloorHolds' /\ CountsHold'
    BY <2>1 DEF FloorHolds, CountsHold, HasBudget, RetryShape
  <2> QED BY <2>2, <2>3, <2>4
<1>7. ASSUME NEW o \in Observations, NEW retryAfter \in RetryAfters \cup {0},
             NEW jitter \in 0..MaxDelay, NEW action \in RetryActions,
             FailBody(o[1], o[2], retryAfter, jitter, action)
      PROVE  RetryInv'
  <2> DEFINE b == FailingBudget[1]
             log == FailingBudget[2]
             kind == FailureKind(o[1], o[2])
  <2>1. /\ body = "owner" /\ job.state = "downloading" /\ Decide(b, log, kind, action)
        /\ job' = [job EXCEPT !.state = FailureState(action, o[2])]
        /\ failure' = [action |-> action, epochCurrent |-> TRUE, current |-> TRUE]
        /\ body' = "none" /\ saved' \in BOOLEAN
        /\ UNCHANGED <<gate, reopen, retries, consents>>
    BY <1>7 DEF FailBody
  <2>2. /\ b \in BudgetRow /\ log \in Seq(AuditRow) /\ log # <<>>
        /\ ~b.paused /\ ~b.exhausted /\ b.number = 1 + consents
        /\ retries <= b.attempts /\ b.attempts < MaxOrdinaryAttempts
    <3>1. CASE HasBudget
      BY <2>1, <3>1 DEF FailingBudget, RetryShape, WorkHasOpenBudget, BodyHasOpenBudget,
         CountsHold, HasBudget
    <3>2. CASE ~HasBudget
      <4>1. b = Opening(job.generation) /\ log = <<Event("opened", b)>>
        BY <3>2 DEF FailingBudget
      <4>2. b \in BudgetRow /\ b.number = 1 /\ b.attempts = 0 /\ ~b.paused /\ ~b.exhausted
        BY <1>a, <4>1, OpeningShape
      <4>3. Event("opened", b) \in AuditRow
        BY <4>2 DEF BudgetRow, Event, AuditRow, AuditKinds
      <4> QED BY <3>2, <4>1, <4>2, <4>3, RetryConstants DEF CountsHold
    <3> QED BY <3>1, <3>2
  <2> HIDE DEF b, log, kind
  <2>3. /\ Attempted(b) \in BudgetRow /\ Attempted(b).attempts = b.attempts + 1
        /\ Attempted(b).number = b.number /\ ~Attempted(b).paused
        /\ Attempted(b).exhausted <=> b.attempts + 1 >= MaxOrdinaryAttempts
    <3> DEFINE spent == b.attempts + 1 >= MaxOrdinaryAttempts
    <3>1. Attempted(b) = [b EXCEPT !.attempts = b.attempts + 1, !.exhausted = spent]
      BY DEF Attempted
    <3>2. spent \in BOOLEAN /\ b.attempts + 1 \in Nat
      BY <2>2, RetryConstants DEF BudgetRow
    <3> HIDE DEF spent
    <3>3. /\ Attempted(b) \in BudgetRow /\ Attempted(b).attempts = b.attempts + 1
          /\ Attempted(b).number = b.number /\ ~Attempted(b).paused
          /\ Attempted(b).exhausted = spent
      BY <2>2, <3>1, <3>2 DEF BudgetRow
    <3> QED BY <3>3 DEF spent
  <2>4. /\ HasBudget' /\ audit' \in Seq(AuditRow) /\ budget' \in {b, Attempted(b)}
        /\ action = "exhausted" => budget'.exhausted
        /\ budget'.exhausted => action = "exhausted"
        /\ action = "retry_wait" => budget' = Attempted(b)
    <3>1. CASE kind # "transient_host"
      BY <2>1, <2>2, <3>1 DEF Decide, DirectAction, HasBudget
    <3>2. CASE kind = "transient_host"
      <4>1. /\ action = IF Attempted(b).exhausted THEN "exhausted" ELSE "retry_wait"
            /\ Recorded(log, IF Attempted(b).exhausted THEN "exhausted" ELSE "retry_scheduled",
                        Attempted(b))
        BY <2>1, <2>2, <3>2 DEF Decide
      <4>2. budget' = Attempted(b) /\ audit' \in Seq(AuditRow) /\ HasBudget'
        BY <2>2, <2>3, <4>1, RecordedShape DEF AuditKinds
      <4> QED BY <4>1, <4>2
    <3> QED BY <3>1, <3>2
  <2>5. FailureState(action, o[2]) \in States \ {"queued", "downloading"}
    BY DEF FailureState, States
  <2>6. FailureState(action, o[2]) = "retry_wait" <=> action = "retry_wait"
    BY DEF FailureState
  <2>7. job'.state = FailureState(action, o[2])
    BY <2>1 DEF RetryShape
  <2>8. RetryShape'
    BY <1>b, <2>1, <2>2, <2>3, <2>4, <2>5 DEF RetryShape, FailureRow
  <2>9. Work'
    BY <2>1, <2>2, <2>3, <2>4, <2>5, <2>6, <2>7
       DEF WorkHasOpenBudget, RetryWaitIsLive, BodyHasOpenBudget, ReopenHolds
  <2>10. FloorHolds'
    <3>1. CASE action # "retry_wait"
      BY <1>7, <3>1 DEF FailBody, FloorHolds
    <3>2. CASE action = "retry_wait"
      <4>1. b.attempts + 1 \in Nat \ {0} /\ retryAfter \in Nat /\ jitter \in Nat
        BY <2>2, RetryConstants DEF BudgetRow
      <4>2. /\ wait' = Delay(b.attempts + 1, retryAfter, jitter)
            /\ floor' = IF retryAfter > Backoff(b.attempts + 1) THEN retryAfter
                        ELSE Backoff(b.attempts + 1)
        BY <1>7, <3>2 DEF FailBody, b
      <4> QED BY <4>1, <4>2, DelayCovers DEF FloorHolds
    <3> QED BY <3>1, <3>2
  <2>11. CountsHold'
    <3>1. b.attempts \in Nat /\ b.number \in Nat
      BY <2>2 DEF BudgetRow
    <3>2. /\ budget'.number = 1 + consents /\ budget'.attempts \in {b.attempts, b.attempts + 1}
          /\ action = "retry_wait" => budget'.attempts = b.attempts + 1
          /\ ~budget'.exhausted => budget'.attempts < MaxOrdinaryAttempts
      BY <2>2, <2>3, <2>4, <3>1, RetryConstants
    <3>3. retries' \in Nat /\ consents' \in Nat /\ retries' = retries /\ consents' = consents
      BY <2>1 DEF CountsHold
    <3>4. job'.state = "retry_wait" => retries' < budget'.attempts
      BY <2>2, <2>6, <2>7, <3>1, <3>2, <3>3
    <3> QED BY <2>2, <2>4, <3>1, <3>2, <3>3, <3>4, RetryConstants DEF CountsHold
  <2> QED BY <2>8, <2>9, <2>10, <2>11
<1>8. ASSUME NEW outcome \in {"queued", "blocked"}, DueRetry(outcome) PROVE RetryInv'
  <2>1. /\ job.state = "retry_wait" /\ job' = [job EXCEPT !.state = outcome]
        /\ HasBudget /\ ~budget.paused /\ ~budget.exhausted /\ Superseded
        /\ retries' = IF outcome = "queued" THEN retries + 1 ELSE retries
        /\ UNCHANGED <<gate, budget, audit, wait, saved, floor, consents>>
    BY <1>8 DEF DueRetry
  <2>2. RetryShape'
    BY <1>b, <1>c, <2>1 DEF RetryShape, Superseded, Stale, States
  <2>3. Work'
    BY <2>1 DEF WorkHasOpenBudget, RetryWaitIsLive, BodyHasOpenBudget, ReopenHolds, HasBudget,
       Superseded, Stale, RetryShape
  <2>4. FloorHolds' /\ CountsHold'
    BY <2>1, RetryConstants DEF FloorHolds, CountsHold, HasBudget, RetryShape, BudgetRow
  <2> QED BY <2>2, <2>3, <2>4
<1>9. CASE Pause
  <2>1. /\ job' = [job EXCEPT !.state = "paused"] /\ job.state # "paused" /\ Superseded
        /\ saved' \in BOOLEAN
        /\ UNCHANGED <<gate, budget, audit, wait, floor, retries, consents>>
    BY <1>9 DEF Pause, RetryShape
  <2>2. RetryShape'
    BY <1>b, <1>c, <2>1 DEF RetryShape, Superseded, Stale, States
  <2>3. Work'
    BY <2>1 DEF WorkHasOpenBudget, RetryWaitIsLive, BodyHasOpenBudget, ReopenHolds, HasBudget,
       Superseded, Stale, RetryShape, FailureRow
  <2>4. FloorHolds' /\ CountsHold'
    BY <2>1 DEF FloorHolds, CountsHold, HasBudget, RetryShape
  <2> QED BY <2>2, <2>3, <2>4
<1>10. CASE Resume
  <2>1. /\ job' = [job EXCEPT !.state = "queued"] /\ Superseded /\ (HasBudget => ~budget.exhausted)
        /\ UNCHANGED <<gate, wait, saved, floor, retries, consents>>
    BY <1>10 DEF Resume, CanResume
  <2>2. /\ audit' \in Seq(AuditRow) /\ (HasBudget' <=> HasBudget) /\ budget' \in BudgetRow
        /\ HasBudget => ~budget'.paused /\ ~budget'.exhausted
        /\ budget'.attempts = budget.attempts /\ budget'.number = budget.number
        /\ budget'.exhausted = budget.exhausted /\ (~HasBudget => budget' = budget)
    <3>1. CASE HasBudget /\ budget.paused
      <4>1. Recorded(audit, "ordinary_reopen", Reopened(budget)) /\ Reopened(budget) \in BudgetRow
        BY <1>10, <3>1 DEF Resume, Reopened, RetryShape, BudgetRow
      <4>2. budget' = Reopened(budget) /\ audit' \in Seq(AuditRow) /\ HasBudget'
        BY <4>1, RecordedShape DEF AuditKinds, RetryShape
      <4> QED BY <2>1, <3>1, <4>2 DEF Reopened, RetryShape, BudgetRow
    <3>2. CASE ~(HasBudget /\ budget.paused)
      BY <1>10, <2>1, <3>2 DEF Resume, RetryShape, HasBudget
    <3> QED BY <3>1, <3>2
  <2>3. RetryShape'
    BY <1>b, <1>c, <2>1, <2>2 DEF RetryShape, Superseded, Stale, States
  <2>4. Work'
    BY <2>1, <2>2 DEF WorkHasOpenBudget, RetryWaitIsLive, BodyHasOpenBudget, ReopenHolds,
       Superseded, Stale, RetryShape
  <2>5. FloorHolds' /\ CountsHold'
    BY <2>1, <2>2 DEF FloorHolds, CountsHold, RetryShape
  <2> QED BY <2>3, <2>4, <2>5
<1>11. CASE OpenExplicitRetry
  <2> DEFINE n == NextBudget(budget, job.generation + 1)
  <2>1. /\ job' = [generation |-> job.generation + 1, state |-> "paused"]
        /\ Recorded(audit, "explicit_resume", n)
        /\ failure' = [failure EXCEPT !.current = FALSE] /\ body' = body /\ reopen' = "owner"
        /\ retries' = 0 /\ consents' = consents + 1 /\ HasBudget
        /\ UNCHANGED <<gate, wait, saved, floor>>
    BY <1>11 DEF OpenExplicitRetry
  <2>2. n \in BudgetRow /\ ~n.paused /\ ~n.exhausted /\ n.attempts = 0 /\ n.number = budget.number + 1
    BY <1>a DEF NextBudget, BudgetRow, RetryShape
  <2>3. budget' = n /\ audit' \in Seq(AuditRow) /\ HasBudget'
    BY <2>1, <2>2, RecordedShape DEF AuditKinds, RetryShape
  <2> HIDE DEF n
  <2>4. RetryShape'
    BY <1>a, <1>c, <2>1, <2>2, <2>3 DEF RetryShape, States
  <2>5. Work'
    BY <2>1, <2>2, <2>3 DEF WorkHasOpenBudget, RetryWaitIsLive, BodyHasOpenBudget, ReopenHolds
  <2>6. FloorHolds'
    BY <2>1 DEF FloorHolds
  <2>7. CountsHold'
    BY <2>1, <2>2, <2>3, RetryConstants DEF CountsHold
  <2> QED BY <2>4, <2>5, <2>6, <2>7
<1>12. CASE ResumeExplicitRetry
  <2>1. /\ reopen' = "none" /\ UNCHANGED <<gate, budget, audit, wait, saved, floor, retries, consents>>
        /\ reopen = "owner" => /\ job' = [job EXCEPT !.state = "queued"]
                               /\ failure' = [failure EXCEPT !.current = FALSE]
                               /\ body' = Stale(body)
        /\ reopen # "owner" => UNCHANGED <<job, failure, body>>
    BY <1>12 DEF ResumeExplicitRetry
  <2>2. RetryShape'
    BY <1>b, <1>c, <2>1 DEF RetryShape, Stale, States
  <2>3. Work'
    BY <2>1 DEF WorkHasOpenBudget, RetryWaitIsLive, BodyHasOpenBudget, ReopenHolds, HasBudget, RetryShape
  <2>4. FloorHolds' /\ CountsHold'
    BY <2>1 DEF FloorHolds, CountsHold, HasBudget, RetryShape
  <2> QED BY <2>2, <2>3, <2>4
<1>13. CASE ColdStart
  <2>1. CASE HasBudget /\ ~CanRecord(audit)
    <3>1. UNCHANGED <<job, gate, budget, audit, failure, body, saved, reopen, wait, floor, retries, consents>>
      BY <1>13, <2>1 DEF ColdStart
    <3> QED
      BY <1>2, <3>1 DEF RetryShape, FloorHolds
  <2>2. CASE ~(HasBudget /\ ~CanRecord(audit))
    <3> DEFINE n == Fenced(budget, job.generation + 1)
    <3>1. /\ job' = [generation |-> job.generation + 1, state |-> "paused"] /\ gate' = "paused"
          /\ failure' = [failure EXCEPT !.current = FALSE, !.epochCurrent = FALSE]
          /\ body' = "none" /\ saved' \in BOOLEAN /\ reopen' = Stale(reopen)
          /\ HasBudget => Recorded(audit, "fenced", n)
          /\ ~HasBudget => UNCHANGED <<budget, audit>>
          /\ UNCHANGED <<wait, floor, retries, consents>>
      BY <1>13, <2>2 DEF ColdStart, RetryShape
    <3>2. /\ n \in BudgetRow /\ n.attempts = budget.attempts /\ n.number = budget.number
          /\ n.exhausted = budget.exhausted
      <4>1. budget \in BudgetRow /\ job.generation + 1 \in Nat
        BY <1>a DEF RetryShape
      <4> QED BY <4>1, FencedShape
    <3>3. /\ HasBudget => budget' = n /\ HasBudget' /\ audit' \in Seq(AuditRow)
          /\ ~HasBudget => ~HasBudget'
      BY <3>1, <3>2, RecordedShape DEF AuditKinds, RetryShape, HasBudget
    <3> HIDE DEF n
    <3>4. RetryShape'
      BY <1>a, <1>c, <3>1, <3>2, <3>3 DEF RetryShape, Stale, States
    <3>5. Work'
      BY <3>1, <3>2, <3>3 DEF WorkHasOpenBudget, RetryWaitIsLive, BodyHasOpenBudget, ReopenHolds,
         Stale, RetryShape, FailureRow
    <3>6. FloorHolds' /\ CountsHold'
      BY <3>1, <3>2, <3>3 DEF FloorHolds, CountsHold, RetryShape
    <3> QED BY <3>4, <3>5, <3>6
  <2> QED BY <2>1, <2>2
<1> QED
  BY <1>1, <1>3, <1>4, <1>5, <1>6, <1>7, <1>8, <1>9, <1>10, <1>11, <1>12, <1>13 DEF RetryNext

LEMMA RetryInductive == RetrySpec => []RetryInv
  BY RetryStart, RetryStep, PTL DEF RetrySpec

(***************************************************************************)
(* Whatever controls, resumes and cold starts close the budget of a job    *)
(* also take its work away: what is queued, runs or waits for its retry    *)
(* has an open budget (store.py, fail_direct_terminal, prepare_due_retry,  *)
(* recover_cold_start).                                                    *)
(***************************************************************************)
THEOREM WorkIsBudgeted == RetrySpec => []WorkHasOpenBudget
<1>1. RetryInv => WorkHasOpenBudget
  BY DEF RetryInv
<1> QED BY <1>1, RetryInductive, PTL

(***************************************************************************)
(* No body starts before the backoff and the Retry-After of the failure    *)
(* before it are over, whoever admits it (retry.py, the delay of decide).  *)
(***************************************************************************)
THEOREM RetryTurns == RetrySpec => RetryWaitsItsTurn
<1>1. ASSUME RetryInv, [RetryNext]_retryVars
      PROVE  [body' = "owner" /\ body # "owner" => floor = 0]_retryVars
  <2> SUFFICES ASSUME body' = "owner", body # "owner" PROVE floor = 0
    OBVIOUS
  <2>1. StartBody
    BY <1>1 DEF RetryNext, retryVars, Tick, SetQueueGate, FailBody, DueRetry, Pause, DrainBody,
       Resume, OpenExplicitRetry, ResumeExplicitRetry, ColdStart, Superseded, Stale
  <2>2. wait = 0
    BY <2>1 DEF StartBody
  <2> QED BY <1>1, <2>2 DEF RetryInv, FloorHolds
<1> QED
  BY <1>1, RetryInductive, PTL DEF RetrySpec, RetryWaitsItsTurn

(***************************************************************************)
(* Failed attempts and automatic retries stay below the limit in every     *)
(* budget, and each further budget was opened by an explicit retry         *)
(* (retry.py, _MAX_ORDINARY_ATTEMPTS).                                     *)
(***************************************************************************)
THEOREM RetriesBounded == RetrySpec => []RetriesAreBounded
<1>1. RetryInv => RetriesAreBounded
  BY DEF RetryInv, CountsHold, RetriesAreBounded
<1> QED BY <1>1, RetryInductive, PTL
-----------------------------------------------------------------------------
(* The audit as a proof of the budget.                                     *)

\* Every nonempty set of naturals has a least element.
LEMMA LeastNat ==
  ASSUME NEW T, T \subseteq Nat, T # {}
  PROVE  \E x \in T : \A y \in T : x <= y
<1>1. PICK x \in T : \A y \in T : ~ (<<y, x>> \in OpToRel(<, Nat))
  BY NatLessThanWellFounded, WFMin
<1>2. ASSUME NEW y \in T PROVE x <= y
  <2>1. ~ (<<y, x>> \in OpToRel(<, Nat))
    BY <1>1
  <2>2. ~(y < x)
    BY <2>1 DEF OpToRel
  <2> QED BY <2>2
<1> QED BY <1>2

\* f is what the first k events of an audit prove, one after the other.
Proves(f, log, k) ==
  f = [n \in 1..k |-> IF n = 1 THEN FirstProof(log[1]) ELSE NextProof(f[n - 1], log[n])]

\* Two audits with the same first events prove the same of them.
LEMMA ProofsAgree ==
  ASSUME NEW log, NEW other, NEW k \in Nat, NEW m \in Nat, NEW f, NEW g,
         Proves(f, log, k), Proves(g, other, m), k <= m,
         \A n \in 1..k : log[n] = other[n]
  PROVE  \A n \in 1..k : f[n] = g[n]
<1> DEFINE Bad == {n \in 1..k : f[n] # g[n]}
<1> SUFFICES ASSUME Bad # {} PROVE FALSE
  OBVIOUS
<1>1. PICK n \in Bad : \A j \in Bad : n <= j
  <2>1. Bad \subseteq Nat
    OBVIOUS
  <2> HIDE DEF Bad
  <2> QED BY <2>1, LeastNat
<1>2. n \in 1..k /\ n \in 1..m /\ log[n] = other[n] /\ log[1] = other[1]
  OBVIOUS
<1>3. CASE n = 1
  <2>1. f[n] = FirstProof(log[1])
    BY <1>2, <1>3 DEF Proves
  <2>2. g[n] = FirstProof(other[1])
    BY <1>2, <1>3 DEF Proves
  <2> QED BY <1>2, <2>1, <2>2
<1>4. CASE n # 1
  <2>1. n - 1 \in 1..k /\ n - 1 < n
    BY <1>2, <1>4
  <2>2. f[n - 1] = g[n - 1]
    BY <1>1, <2>1
  <2>3. f[n] = NextProof(f[n - 1], log[n])
    BY <1>2, <1>4 DEF Proves
  <2>4. g[n] = NextProof(g[n - 1], other[n])
    BY <1>2, <1>4 DEF Proves
  <2> QED BY <1>2, <2>2, <2>3, <2>4
<1> QED BY <1>3, <1>4

\* A proof of the first events extends by the next event.
LEMMA ProofExtends ==
  ASSUME NEW log, NEW k \in Nat, NEW f, Proves(f, log, k)
  PROVE  \E g : Proves(g, log, k + 1)
<1> DEFINE h == [n \in 1..k + 1 |->
                   IF n = 1 THEN FirstProof(log[1]) ELSE NextProof(f[n - 1], log[n])]
<1>1. ASSUME NEW n \in 1..k PROVE f[n] = h[n]
  <2>1. f[n] = IF n = 1 THEN FirstProof(log[1]) ELSE NextProof(f[n - 1], log[n])
    BY DEF Proves
  <2> QED BY <2>1
<1>2. ASSUME NEW n \in 1..k + 1, n # 1 PROVE f[n - 1] = h[n - 1]
  <2>1. n - 1 \in 1..k
    BY <1>2
  <2> HIDE DEF h
  <2> QED BY <1>1, <2>1
<1>3. h = [n \in 1..k + 1 |->
             IF n = 1 THEN FirstProof(log[1]) ELSE NextProof(h[n - 1], log[n])]
  <2> DEFINE G(n) == IF n = 1 THEN FirstProof(log[1]) ELSE NextProof(f[n - 1], log[n])
             H(n) == IF n = 1 THEN FirstProof(log[1]) ELSE NextProof(h[n - 1], log[n])
  <2>1. \A n \in 1..k + 1 : G(n) = H(n)
    <3> SUFFICES ASSUME NEW n \in 1..k + 1 PROVE G(n) = H(n)
      OBVIOUS
    <3> HIDE DEF h
    <3> QED BY <1>2
  <2>2. h = [n \in 1..k + 1 |-> G(n)]
    OBVIOUS
  <2> HIDE DEF h, G, H
  <2>3. h = [n \in 1..k + 1 |-> H(n)]
    BY <2>1, <2>2
  <2> QED BY <2>3 DEF H
<1> HIDE DEF h
<1> QED BY <1>3 DEF Proves

LEMMA ProofExists ==
  ASSUME NEW log, NEW k \in Nat
  PROVE  \E f : Proves(f, log, k)
<1> DEFINE Bad == {n \in Nat : ~ \E f : Proves(f, log, n)}
<1> SUFFICES ASSUME Bad # {} PROVE FALSE
  OBVIOUS
<1>1. PICK n \in Bad : \A j \in Bad : n <= j
  <2>1. Bad \subseteq Nat
    OBVIOUS
  <2> HIDE DEF Bad
  <2> QED BY <2>1, LeastNat
<1>2. Proves(<<>>, log, 0)
  <2> DEFINE G(i) == IF i = 1 THEN FirstProof(log[1]) ELSE NextProof(<<>>[i - 1], log[i])
  <2>1. 1..0 = {}
    OBVIOUS
  <2> HIDE DEF G
  <2>2. <<>> = [i \in 1..0 |-> G(i)]
    BY <2>1
  <2> QED BY <2>2 DEF Proves, G
<1>3. n # 0
  BY <1>2
<1>4. n - 1 \in Nat /\ n - 1 \notin Bad
  BY <1>1, <1>3
<1>5. PICK f : Proves(f, log, n - 1)
  BY <1>4
<1>6. \E g : Proves(g, log, (n - 1) + 1)
  BY <1>4, <1>5, ProofExtends
<1> QED BY <1>6

\* The recursive function of the model is that proof.
LEMMA ProofUnfolds ==
  ASSUME NEW log \in Seq(AuditRow)
  PROVE  Proves(ProofOf(log), log, Len(log))
<1>1. \E f : Proves(f, log, Len(log))
  <2>1. Len(log) \in Nat
    OBVIOUS
  <2> QED BY <2>1, ProofExists
<1>2. ProofOf(log) = CHOOSE f : Proves(f, log, Len(log))
  BY DEF ProofOf, Proves
<1> QED BY <1>1, <1>2

\* An audit of one event proves what its opening says.
LEMMA ReplayedOpening ==
  ASSUME NEW e \in AuditRow
  PROVE  Replayed(<<e>>) = FirstProof(e)
<1> DEFINE log == <<e>>
<1>1. log \in Seq(AuditRow) /\ Len(log) = 1 /\ log # <<>> /\ log[1] = e
  OBVIOUS
<1> HIDE DEF log
<1>2. Proves(ProofOf(log), log, 1)
  BY <1>1, ProofUnfolds
<1>3. ProofOf(log)[1] = FirstProof(log[1])
  BY <1>2 DEF Proves
<1> QED BY <1>1, <1>3 DEF Replayed, log

\* One more event is checked against what the audit before it proves.
LEMMA ReplayedAppend ==
  ASSUME NEW log \in Seq(AuditRow), log # <<>>, NEW e \in AuditRow
  PROVE  Replayed(Append(log, e)) = NextProof(Replayed(log), e)
<1> DEFINE longer == Append(log, e)
           k == Len(log)
<1>1. /\ longer \in Seq(AuditRow) /\ Len(longer) = k + 1 /\ longer # <<>> /\ longer[k + 1] = e
      /\ k \in Nat /\ k # 0 /\ \A n \in 1..k : log[n] = longer[n]
  OBVIOUS
<1> HIDE DEF longer, k
<1>2. Proves(ProofOf(log), log, k) /\ Proves(ProofOf(longer), longer, k + 1)
  BY <1>1, ProofUnfolds DEF k
<1>3. \A n \in 1..k : ProofOf(log)[n] = ProofOf(longer)[n]
  BY <1>1, <1>2, ProofsAgree
<1>4. ProofOf(log)[k] = ProofOf(longer)[k]
  BY <1>1, <1>3
<1>5. ProofOf(longer)[k + 1] = NextProof(ProofOf(longer)[k], longer[k + 1])
  <2>1. k + 1 \in 1..k + 1 /\ k + 1 # 1 /\ (k + 1) - 1 = k
    BY <1>1
  <2> QED BY <1>2, <2>1 DEF Proves
<1>6. Replayed(log) = ProofOf(log)[k] /\ Replayed(longer) = ProofOf(longer)[k + 1]
  BY <1>1 DEF Replayed, k
<1> QED BY <1>1, <1>4, <1>5, <1>6 DEF longer

\* An opened or replaced budget is told apart from none by its number.
LEMMA BudgetIsSome == ASSUME RetryInv, HasBudget PROVE budget # NoBudget
<1>1. budget.number = 1 + consents /\ consents \in Nat
  BY DEF RetryInv, CountsHold
<1>2. NoBudget.number = 0
  BY DEF NoBudget
<1> QED BY <1>1, <1>2

\* An event that may follow, and that leaves the new budget, is recorded with room to spare.
LEMMA RecordedReplays ==
  ASSUME NEW log \in Seq(AuditRow), log # <<>>, NEW b \in BudgetRow, NEW n \in BudgetRow,
         NEW kind \in AuditKinds, Replayed(log) = b, b # NoBudget,
         Follows(b, Event(kind, n)), Applied(b, Event(kind, n)) = n,
         Recorded(log, kind, n), CanRecord(log)
  PROVE  Replayed(audit') = budget' /\ Len(audit') <= AuditCapacity
<1>1. Event(kind, n) \in AuditRow
  BY DEF Event, AuditRow, BudgetRow
<1>2. audit' = Append(log, Event(kind, n)) /\ budget' = n
  BY DEF Recorded
<1>3. Replayed(audit') = NextProof(b, Event(kind, n))
  BY <1>1, <1>2, ReplayedAppend
<1>4. Len(audit') = Len(log) + 1
  BY <1>1, <1>2
<1>5. Len(audit') <= AuditCapacity
  BY <1>4, RetryConstants DEF CanRecord
<1> QED BY <1>2, <1>3, <1>5 DEF NextProof

\* A failed attempt is scheduled for its retry, or exhausts the budget.
LEMMA AttemptFollows ==
  ASSUME NEW b \in BudgetRow, ~b.paused, ~b.exhausted, NEW kind,
         kind = IF Attempted(b).exhausted THEN "exhausted" ELSE "retry_scheduled"
  PROVE  /\ Attempted(b) \in BudgetRow
         /\ Follows(b, Event(kind, Attempted(b)))
         /\ Applied(b, Event(kind, Attempted(b))) = Attempted(b)
<1> DEFINE spent == b.attempts + 1 >= MaxOrdinaryAttempts
           n == [b EXCEPT !.attempts = b.attempts + 1, !.exhausted = spent]
           e == Event(kind, n)
<1>1. Attempted(b) = n
  BY DEF Attempted
<1>2. spent \in BOOLEAN /\ b.attempts + 1 \in Nat
  BY RetryConstants DEF BudgetRow
<1>3. /\ n \in BudgetRow /\ n.attempts = b.attempts + 1 /\ n.exhausted = spent
      /\ n.generation = b.generation /\ n.number = b.number /\ n.paused = b.paused
  <2> HIDE DEF spent
  <2> QED BY <1>2 DEF BudgetRow
<1>4. Event(kind, [b EXCEPT !.attempts = @ + 1]) = e
  BY <1>3 DEF Event, BudgetRow
<1>5. e.kind = kind /\ e.attempts = b.attempts + 1
  BY <1>3 DEF Event
<1>6. ~spent => e.attempts < MaxOrdinaryAttempts
  BY <1>2, <1>5, RetryConstants
<1>7. ~spent => n = [b EXCEPT !.attempts = @ + 1]
  BY <1>3 DEF BudgetRow
<1>8. spent => n = [b EXCEPT !.attempts = @ + 1, !.exhausted = TRUE]
  BY <1>3 DEF BudgetRow
<1>9. kind = IF spent THEN "exhausted" ELSE "retry_scheduled"
  BY <1>1, <1>3
<1> HIDE DEF spent, n, e
<1>10. Follows(b, e)
  BY <1>4, <1>5, <1>6, <1>9 DEF Follows
<1>11. Applied(b, e) = n
  BY <1>5, <1>7, <1>8, <1>9 DEF Applied
<1> QED BY <1>1, <1>3, <1>10, <1>11 DEF e

\* A cold start may fence every budget of an older generation.
LEMMA FenceFollows ==
  ASSUME NEW b \in BudgetRow, NEW g \in Nat, g > b.generation
  PROVE  /\ Follows(b, Event("fenced", Fenced(b, g)))
         /\ Applied(b, Event("fenced", Fenced(b, g))) = Fenced(b, g)
<1> DEFINE e == Event("fenced", Fenced(b, g))
<1>1. e.kind = "fenced" /\ e.generation = g
  BY DEF Event, Fenced, BudgetRow
<1>2. e = Event(e.kind, Fenced(b, e.generation))
  BY <1>1
<1> HIDE DEF e
<1>3. Follows(b, e) /\ Applied(b, e) = Fenced(b, g)
  BY <1>1, <1>2 DEF Follows, Applied
<1> QED BY <1>3 DEF e

\* A paused budget that is not exhausted may be reopened.
LEMMA ReopenFollows ==
  ASSUME NEW b \in BudgetRow, b.paused, ~b.exhausted
  PROVE  /\ Reopened(b) \in BudgetRow
         /\ Follows(b, Event("ordinary_reopen", Reopened(b)))
         /\ Applied(b, Event("ordinary_reopen", Reopened(b))) = Reopened(b)
<1> DEFINE e == Event("ordinary_reopen", Reopened(b))
<1>1. e.kind = "ordinary_reopen" /\ e = Event(e.kind, b)
  BY DEF Event, Reopened, BudgetRow
<1>2. Reopened(b) \in BudgetRow
  BY DEF Reopened, BudgetRow
<1> HIDE DEF e
<1>3. Follows(b, e) /\ Applied(b, e) = Reopened(b)
  BY <1>1 DEF Follows, Applied
<1> QED BY <1>2, <1>3 DEF e

\* An explicit retry replaces an exhausted budget by the next one.
LEMMA ExplicitFollows ==
  ASSUME NEW b \in BudgetRow, b.exhausted, NEW g \in Nat, g > b.generation
  PROVE  /\ NextBudget(b, g) \in BudgetRow
         /\ Follows(b, Event("explicit_resume", NextBudget(b, g)))
         /\ Applied(b, Event("explicit_resume", NextBudget(b, g))) = NextBudget(b, g)
<1> DEFINE e == Event("explicit_resume", NextBudget(b, g))
<1>1. e.kind = "explicit_resume" /\ e.generation = g
  BY DEF Event, NextBudget
<1>2. e = Event(e.kind, NextBudget(b, e.generation))
  BY <1>1
<1>3. NextBudget(b, g) \in BudgetRow
  BY DEF NextBudget, BudgetRow
<1> HIDE DEF e
<1>4. Follows(b, e) /\ Applied(b, e) = NextBudget(b, g)
  BY <1>1, <1>2 DEF Follows, Applied
<1> QED BY <1>3, <1>4 DEF e

AuditInv ==
  /\ AuditReplays /\ Readable /\ Len(audit) <= AuditCapacity
  /\ bodies \in 0..2 /\ refused \in BOOLEAN

LEMMA AuditStart == RetryInit => AuditInv
<1>1. Len(<<>>) = 0 /\ 0 <= AuditCapacity
  BY RetryConstants
<1>2. RetryInit => AuditReplays /\ Readable
  BY DEF RetryInit, AuditReplays, Replayed, Readable, HasBudget
<1>3. RetryInit => Len(audit) <= AuditCapacity
  BY <1>1 DEF RetryInit
<1>4. RetryInit => bodies = 0
  BY DEF RetryInit
<1>5. bodies = 0 => bodies \in 0..2
  OBVIOUS
<1>6. RetryInit => refused \in BOOLEAN
  BY DEF RetryInit
<1> QED BY <1>2, <1>3, <1>4, <1>5, <1>6 DEF AuditInv

\* Only a failed body, a resume, an explicit retry and a cold start add to the audit, each one
\* event that may follow; the job and its budget change generation together.
LEMMA AuditStep == RetryInv /\ AuditInv /\ [RetryNext]_retryVars => AuditInv'
<1> SUFFICES ASSUME RetryInv, AuditInv, [RetryNext]_retryVars PROVE AuditInv'
  OBVIOUS
<1>a. /\ job.generation \in Nat /\ job \in [generation: Nat, state: States]
      /\ audit \in Seq(AuditRow) /\ budget \in BudgetRow
  BY DEF RetryInv, RetryShape
<1>b. Replayed(audit) = budget /\ (HasBudget => budget.generation = job.generation)
  BY DEF AuditInv, AuditReplays, Readable
<1>c. \A s : [job EXCEPT !.state = s].generation = job.generation
  BY <1>a
<1>1. ASSUME UNCHANGED <<budget, audit>>, ~HasBudget \/ job'.generation = job.generation,
             bodies' \in 0..2, refused' \in BOOLEAN
      PROVE  AuditInv'
  BY <1>1 DEF AuditInv, AuditReplays, Readable, HasBudget
<1>2. CASE UNCHANGED retryVars
  BY <1>1, <1>2 DEF retryVars, AuditInv
<1>3. CASE Tick \/ DrainBody \/ \E value \in {"running", "paused"} : SetQueueGate(value)
  BY <1>1, <1>3 DEF Tick, DrainBody, SetQueueGate, AuditInv
<1>4. CASE StartBody \/ Pause \/ \E outcome \in {"queued", "blocked"} : DueRetry(outcome)
  <2>1. UNCHANGED <<budget, audit, refused>> /\ job'.generation = job.generation
    BY <1>4, <1>c DEF StartBody, Pause, DueRetry
  <2>2. bodies' \in {bodies, 1, 2}
    BY <1>4 DEF StartBody, Pause, DueRetry
  <2> QED BY <1>1, <2>1, <2>2 DEF AuditInv
<1>5. CASE ResumeExplicitRetry
  BY <1>1, <1>5, <1>c DEF ResumeExplicitRetry, AuditInv
<1>6. ASSUME NEW o \in Observations, NEW retryAfter \in RetryAfters \cup {0},
             NEW jitter \in 0..MaxDelay, NEW action \in RetryActions,
             FailBody(o[1], o[2], retryAfter, jitter, action)
      PROVE  AuditInv'
  <2> DEFINE b == FailingBudget[1]
             log == FailingBudget[2]
             kind == FailureKind(o[1], o[2])
  <2>1. /\ job.state = "downloading" /\ Decide(b, log, kind, action)
        /\ job' = [job EXCEPT !.state = FailureState(action, o[2])] /\ UNCHANGED <<refused, bodies>>
    BY <1>6 DEF FailBody
  <2>2. /\ b \in BudgetRow /\ log \in Seq(AuditRow) /\ log # <<>>
        /\ b # NoBudget /\ ~b.paused /\ ~b.exhausted
        /\ Replayed(log) = b /\ b.generation = job.generation /\ Len(log) <= AuditCapacity
    <3>1. CASE HasBudget
      <4>1. b = budget /\ log = audit
        BY <3>1 DEF FailingBudget
      <4>2. ~budget.paused /\ ~budget.exhausted
        BY <2>1, <3>1 DEF RetryInv, WorkHasOpenBudget, BodyHasOpenBudget
      <4> QED BY <1>a, <1>b, <3>1, <4>1, <4>2, BudgetIsSome DEF AuditInv, HasBudget
    <3>2. CASE ~HasBudget
      <4>1. b = Opening(job.generation) /\ log = <<Event("opened", b)>>
        BY <3>2 DEF FailingBudget
      <4>2. b \in BudgetRow /\ b.number = 1 /\ ~b.paused /\ ~b.exhausted
        BY <1>a, <4>1, OpeningShape
      <4>3. b.generation = job.generation /\ NoBudget.number = 0
        BY <4>1 DEF Opening, NoBudget
      <4> DEFINE e == Event("opened", b)
      <4>4. e \in AuditRow /\ e.generation = job.generation
        BY <4>2, <4>3 DEF BudgetRow, Event, AuditRow, AuditKinds
      <4>5. FirstProof(e) = b
        BY <4>1, <4>4 DEF FirstProof
      <4>6. Replayed(<<e>>) = b
        BY <4>4, <4>5, ReplayedOpening
      <4>7. log \in Seq(AuditRow) /\ log # <<>> /\ Len(log) = 1
        BY <4>1, <4>4
      <4> QED BY <4>1, <4>2, <4>3, <4>6, <4>7, RetryConstants
    <3> QED BY <3>1, <3>2
  <2> HIDE DEF b, log, kind
  <2>3. CASE kind # "transient_host"
    <3>1. budget' = b /\ audit' = log
      BY <2>1, <2>2, <2>3 DEF Decide
    <3> QED BY <1>c, <2>1, <2>2, <3>1 DEF AuditInv, AuditReplays, Readable
  <2>4. CASE kind = "transient_host"
    <3> DEFINE event == IF Attempted(b).exhausted THEN "exhausted" ELSE "retry_scheduled"
    <3>1. Recorded(log, event, Attempted(b)) /\ CanRecord(log)
      BY <2>1, <2>2, <2>4 DEF Decide
    <3>2. event \in AuditKinds
      BY DEF AuditKinds
    <3> HIDE DEF event
    <3>3. /\ Attempted(b) \in BudgetRow /\ Follows(b, Event(event, Attempted(b)))
          /\ Applied(b, Event(event, Attempted(b))) = Attempted(b)
      BY <2>2, AttemptFollows DEF event
    <3>4. Replayed(audit') = budget' /\ Len(audit') <= AuditCapacity
      BY <2>2, <3>1, <3>2, <3>3, RecordedReplays
    <3>5. budget'.generation = job.generation
      BY <2>2, <3>1 DEF Recorded, Attempted, BudgetRow
    <3> QED BY <1>c, <2>1, <3>4, <3>5 DEF AuditInv, AuditReplays, Readable
  <2> QED BY <2>3, <2>4
<1>7. CASE Resume
  <2>1. /\ job' = [job EXCEPT !.state = "queued"] /\ UNCHANGED <<refused, bodies>>
        /\ HasBudget => ~budget.exhausted
    BY <1>7 DEF Resume, CanResume
  <2>2. CASE ~(HasBudget /\ budget.paused)
    BY <1>1, <1>7, <1>c, <2>1, <2>2 DEF Resume, AuditInv
  <2>3. CASE HasBudget /\ budget.paused
    <3>1. Recorded(audit, "ordinary_reopen", Reopened(budget)) /\ CanRecord(audit)
      BY <1>7, <2>3 DEF Resume
    <3>2. Replayed(audit') = budget' /\ Len(audit') <= AuditCapacity
      BY <1>a, <1>b, <2>1, <2>3, <3>1, ReopenFollows, RecordedReplays, BudgetIsSome
         DEF AuditKinds, HasBudget
    <3>3. budget'.generation = budget.generation
      BY <1>a, <3>1 DEF Recorded, Reopened, BudgetRow
    <3> QED BY <1>b, <1>c, <2>1, <2>3, <3>2, <3>3 DEF AuditInv, AuditReplays, Readable
  <2> QED BY <2>2, <2>3
<1>8. CASE OpenExplicitRetry
  <2> DEFINE g == job.generation + 1
  <2>1. /\ HasBudget /\ budget.exhausted /\ CanRecord(audit) /\ job'.generation = g
        /\ Recorded(audit, "explicit_resume", NextBudget(budget, g)) /\ UNCHANGED <<refused, bodies>>
    BY <1>8 DEF OpenExplicitRetry
  <2>2. g \in Nat /\ g > budget.generation
    BY <1>a, <1>b, <2>1
  <2> HIDE DEF g
  <2>3. Replayed(audit') = budget' /\ Len(audit') <= AuditCapacity
    BY <1>a, <1>b, <2>1, <2>2, ExplicitFollows, RecordedReplays, BudgetIsSome DEF AuditKinds, HasBudget
  <2>4. budget'.generation = g
    BY <2>1 DEF Recorded, NextBudget
  <2> QED BY <2>1, <2>3, <2>4 DEF AuditInv, AuditReplays, Readable
<1>9. CASE ColdStart
  <2>1. CASE HasBudget /\ ~CanRecord(audit)
    BY <1>1, <1>9, <2>1 DEF ColdStart, AuditInv
  <2>2. CASE ~HasBudget
    BY <1>1, <1>9, <2>2 DEF ColdStart, AuditInv
  <2>3. CASE HasBudget /\ CanRecord(audit)
    <3> DEFINE g == job.generation + 1
    <3>1. /\ job'.generation = g /\ UNCHANGED <<refused, bodies>>
          /\ Recorded(audit, "fenced", Fenced(budget, g))
      BY <1>9, <2>3 DEF ColdStart
    <3>2. g \in Nat /\ g > budget.generation
      BY <1>a, <1>b, <2>3
    <3> HIDE DEF g
    <3>3. Fenced(budget, g) \in BudgetRow
      BY <1>a, <3>2, FencedShape
    <3>4. Replayed(audit') = budget' /\ Len(audit') <= AuditCapacity
      BY <1>a, <1>b, <2>3, <3>1, <3>2, <3>3, FenceFollows, RecordedReplays, BudgetIsSome
         DEF AuditKinds, HasBudget
    <3>5. budget'.generation = g
      BY <1>a, <3>1 DEF Recorded, Fenced, BudgetRow
    <3> QED BY <3>1, <3>4, <3>5 DEF AuditInv, AuditReplays, Readable
  <2> QED BY <2>1, <2>2, <2>3
<1> QED
  BY <1>2, <1>3, <1>4, <1>5, <1>6, <1>7, <1>8, <1>9 DEF RetryNext

(***************************************************************************)
(* Every budget a job is ever left with is well formed, of the job's own   *)
(* generation, exactly what its audit proves and within its bounds, and    *)
(* the audit fits: whatever failures, pauses, resumes, explicit retries    *)
(* and cold starts came before, the next process accepts it (retry.py,     *)
(* _validate_retry_audit and the transitions of the budget).               *)
(***************************************************************************)
THEOREM BudgetIsSound == RetrySpec => []BudgetHolds
<1>1. RetryInv /\ AuditInv => BudgetHolds
  BY DEF RetryInv, RetryShape, FloorHolds, CountsHold, AuditInv, BudgetHolds, RetryTypeOK,
     BudgetIsReadable, RetriesAreBounded
<1> QED BY <1>1, RetryInductive, AuditStart, AuditStep, PTL DEF RetrySpec

-----------------------------------------------------------------------------
(* Naturals.                                                               *)

\* A set that holds 0 and with each natural the next one holds them all.
LEMMA AllNat ==
  ASSUME NEW P, 0 \in P, \A k \in Nat : k \in P => k + 1 \in P
  PROVE  \A k \in Nat : k \in P
<1> SUFFICES ASSUME Nat \ P # {} PROVE FALSE
  OBVIOUS
<1>1. PICK k \in Nat \ P : \A j \in Nat \ P : k <= j
  <2>1. Nat \ P \subseteq Nat
    OBVIOUS
  <2> QED BY <2>1, LeastNat
<1>2. k # 0
  BY <1>1
<1>3. k - 1 \in Nat /\ k - 1 \in P
  BY <1>1, <1>2
<1>4. (k - 1) + 1 \in P
  BY <1>3
<1> QED BY <1>1, <1>4

-----------------------------------------------------------------------------
(* Sets of owners and sums over them.                                      *)

LEMMA OwnersFinite ==
  /\ N \in Nat /\ N > 0 /\ Concurrency \in Nat /\ Owners \subseteq Nat
  /\ 0 \notin Owners /\ None \notin Nat /\ Unset \notin Nat /\ Unset # None
  /\ IsFiniteSet(Owners) /\ Cardinality(Owners) = N
<1>1. /\ N \in Nat /\ N > 0 /\ Concurrency \in Nat /\ Owners \subseteq Nat
      /\ 0 \notin Owners /\ None \notin Nat /\ Unset \notin Nat /\ Unset # None
  BY BandwidthAssumption DEF Owners
<1>2. IsFiniteSet(1..N) /\ Cardinality(1..N) = N
  BY <1>1, FS_Interval
<1> QED BY <1>1, <1>2 DEF Owners

LEMMA SomeOwners ==
  ASSUME NEW S, S \subseteq Owners
  PROVE  IsFiniteSet(S) /\ Cardinality(S) \in Nat /\ (Cardinality(S) = 0 <=> S = {})
BY OwnersFinite, FS_Subset, FS_CardinalityType, FS_EmptySet

LEMMA LeastOwner ==
  ASSUME NEW S, S \subseteq Owners, S # {}
  PROVE  Min(S) \in S
<1>1. \E x \in S : \A y \in S : x <= y
  BY OwnersFinite, LeastNat
<1> QED BY <1>1 DEF Min

LEMMA UnitsFinite ==
  ASSUME NEW S, NEW f, S \subseteq Owners, \A o \in S : f[o] \in Nat
  PROVE  IsFiniteSet(Units(S, f)) /\ Total(S, f) \in Nat
<1> DEFINE T == {{o} \X (1..f[o]) : o \in S}
           g == [o \in S |-> {o} \X (1..f[o])]
<1>1. IsFiniteSet(T)
  <2>1. g \in Surjection(S, T)
    BY DEF Surjection
  <2> HIDE DEF g, T
  <2> QED BY <2>1, SomeOwners, FS_Surjection
<1>2. ASSUME NEW t \in T PROVE IsFiniteSet(t)
  <2>1. PICK o \in S : t = {o} \X (1..f[o])
    OBVIOUS
  <2>2. IsFiniteSet({o}) /\ IsFiniteSet(1..f[o])
    <3>1. 1 \in Int /\ f[o] \in Int
      OBVIOUS
    <3> QED BY <3>1, FS_Singleton, FS_Interval
  <2> QED BY <2>1, <2>2, FS_Product
<1>3. IsFiniteSet(UNION T)
  <2> HIDE DEF T
  <2> QED BY <1>1, <1>2, FS_UNION
<1> QED BY <1>3, FS_CardinalityType DEF Units, Total

\* What is a unit of S.
LEMMA UnitOf ==
  ASSUME NEW S, NEW f
  PROVE  \A x : x \in Units(S, f) <=> \E o \in S : \E u \in 1..f[o] : x = <<o, u>>
BY DEF Units

LEMMA TotalGrows ==
  ASSUME NEW S, NEW T, NEW f, NEW g, S \subseteq T, T \subseteq Owners,
         \A o \in T : g[o] \in Nat, \A o \in S : f[o] \in Nat /\ f[o] <= g[o]
  PROVE  Total(S, f) <= Total(T, g) /\ Total(S, f) \in Nat /\ Total(T, g) \in Nat
<1>1. Units(S, f) \subseteq Units(T, g)
  <2> SUFFICES ASSUME NEW o \in S, NEW u \in 1..f[o] PROVE <<o, u>> \in Units(T, g)
    BY UnitOf
  <2>1. u \in 1..g[o]
    OBVIOUS
  <2> QED BY <2>1, UnitOf
<1>2. Total(S, f) \in Nat /\ Total(T, g) \in Nat /\ IsFiniteSet(Units(T, g))
  BY UnitsFinite
<1> QED BY <1>1, <1>2, FS_Subset DEF Total

LEMMA TotalSame ==
  ASSUME NEW S, NEW f, NEW g, \A o \in S : f[o] = g[o]
  PROVE  Total(S, f) = Total(S, g)
BY DEF Total, Units

LEMMA TotalSplit ==
  ASSUME NEW S, NEW T, NEW f, S \subseteq Owners, T \subseteq Owners, S \cap T = {},
         \A o \in S \cup T : f[o] \in Nat
  PROVE  Total(S \cup T, f) = Total(S, f) + Total(T, f)
<1>1. Units(S \cup T, f) = Units(S, f) \cup Units(T, f)
  BY DEF Units
<1>2. Units(S, f) \cap Units(T, f) = {}
  <2> SUFFICES ASSUME NEW x, x \in Units(S, f), x \in Units(T, f) PROVE FALSE
    OBVIOUS
  <2>1. PICK o \in S : \E u \in 1..f[o] : x = <<o, u>>
    BY UnitOf
  <2>2. PICK p \in T : \E u \in 1..f[p] : x = <<p, u>>
    BY UnitOf
  <2>3. o = p
    BY <2>1, <2>2
  <2> QED BY <2>3
<1>3. /\ IsFiniteSet(Units(S, f)) /\ IsFiniteSet(Units(T, f))
      /\ Total(S, f) \in Nat /\ Total(T, f) \in Nat
  BY UnitsFinite
<1>4. Cardinality(Units(S, f) \cap Units(T, f)) = 0
  BY <1>2, FS_EmptySet
<1>5. Cardinality(Units(S, f) \cup Units(T, f)) = Total(S, f) + Total(T, f) - 0
  BY <1>3, <1>4, FS_Union DEF Total
<1>6. Total(S \cup T, f) = Cardinality(Units(S, f) \cup Units(T, f))
  BY <1>1 DEF Total
<1> QED BY <1>3, <1>5, <1>6

LEMMA TotalConst ==
  ASSUME NEW S, NEW f, NEW q \in Nat, S \subseteq Owners, \A o \in S : f[o] = q
  PROVE  Total(S, f) = Cardinality(S) * q
<1>1. Units(S, f) = S \X (1..q)
  BY DEF Units
<1>2. IsFiniteSet(S) /\ IsFiniteSet(1..q) /\ Cardinality(1..q) = q
  BY SomeOwners, FS_Interval
<1> QED BY <1>1, <1>2, FS_Product DEF Total

\* Of the owners of a set in the order of the list, r have fewer than r before them.
Ahead(S, c, o) == Cardinality({p \in S : Before(c, p, o)})

LEMMA AheadCounts ==
  ASSUME NEW S, S \subseteq Owners, NEW c, NEW r \in Nat, r <= Cardinality(S)
  PROVE  /\ IsFiniteSet({o \in S : Ahead(S, c, o) < r})
         /\ Cardinality({o \in S : Ahead(S, c, o) < r}) = r
<1> DEFINE n == Cardinality(S)
           before(o) == {p \in S : Before(c, p, o)}
           rank == [o \in S |-> Ahead(S, c, o)]
           low == {o \in S : Ahead(S, c, o) < r}
           part == [o \in low |-> Ahead(S, c, o)]
<1>1. n \in Nat /\ IsFiniteSet(S) /\ S \subseteq Nat
  BY SomeOwners, OwnersFinite
<1>2. ASSUME NEW o \in S
      PROVE  /\ IsFiniteSet(before(o)) /\ before(o) \subseteq S \ {o}
             /\ Ahead(S, c, o) \in 0..(n - 1) /\ Ahead(S, c, o) \in Int
             /\ Ahead(S, c, o) = Cardinality(before(o))
  <2>1. before(o) \subseteq S \ {o}
    BY <1>1 DEF Before
  <2>2. IsFiniteSet(S \ {o}) /\ Cardinality(S \ {o}) = n - 1
    BY <1>1, FS_RemoveElement
  <2> HIDE DEF before
  <2>3. IsFiniteSet(before(o)) /\ Cardinality(before(o)) <= n - 1
    BY <2>1, <2>2, FS_Subset
  <2>4. Cardinality(before(o)) \in Nat
    BY <2>3, FS_CardinalityType
  <2>5. Ahead(S, c, o) = Cardinality(before(o))
    BY DEF Ahead, before
  <2> QED BY <1>1, <2>1, <2>3, <2>4, <2>5
<1>3. ASSUME NEW o \in S, NEW p \in S, Before(c, o, p)
      PROVE  Ahead(S, c, o) < Ahead(S, c, p)
  <2>1. before(o) \cup {o} \subseteq before(p) /\ o \notin before(o)
    <3>1. ASSUME NEW k \in S, Before(c, k, o) PROVE Before(c, k, p)
      <4>1. k \in Nat /\ o \in Nat /\ p \in Nat
        BY <1>1
      <4> QED BY <1>3, <3>1, <4>1 DEF Before
    <3>2. ~Before(c, o, o)
      BY <1>1 DEF Before
    <3> QED BY <1>3, <3>1, <3>2
  <2> HIDE DEF before
  <2>2. Cardinality(before(o) \cup {o}) = Cardinality(before(o)) + 1
    BY <1>2, <2>1, FS_AddElement
  <2>3. Cardinality(before(o) \cup {o}) <= Cardinality(before(p))
    BY <1>2, <2>1, FS_Subset
  <2>4. Ahead(S, c, o) = Cardinality(before(o)) /\ Ahead(S, c, p) = Cardinality(before(p))
    BY <1>2
  <2>5. Ahead(S, c, o) \in Int /\ Ahead(S, c, p) \in Int
    BY <1>2
  <2> QED BY <2>2, <2>3, <2>4, <2>5
<1>4. ASSUME NEW o \in S, NEW p \in S, Ahead(S, c, o) = Ahead(S, c, p) PROVE o = p
  <2>1. o = p \/ Before(c, o, p) \/ Before(c, p, o)
    BY <1>1 DEF Before
  <2>2. Ahead(S, c, o) \in Int /\ Ahead(S, c, p) \in Int
    BY <1>2
  <2> QED BY <1>3, <1>4, <2>1, <2>2
<1>5. IsFiniteSet(0..(n - 1)) /\ Cardinality(0..(n - 1)) = n
  <2>1. 0 \in Int /\ n - 1 \in Int
    BY <1>1
  <2>2. IsFiniteSet(0..(n - 1)) /\ Cardinality(0..(n - 1)) = IF 0 > n - 1 THEN 0 ELSE n - 1 - 0 + 1
    BY <2>1, FS_Interval
  <2> QED BY <1>1, <2>2
<1>6. rank \in Injection(S, 0..(n - 1))
  <2> HIDE DEF n
  <2>1. rank \in [S -> 0..(n - 1)]
    BY <1>2
  <2> QED BY <1>4, <2>1 DEF Injection, IsInjective
<1>7. rank \in Surjection(S, 0..(n - 1))
  <2> HIDE DEF rank
  <2> QED BY <1>1, <1>5, <1>6, FS_Injection
<1>8. part \in Bijection(low, 0..(r - 1))
  <2>1. part \in [low -> 0..(r - 1)]
    <3> SUFFICES ASSUME NEW o \in low PROVE Ahead(S, c, o) \in 0..(r - 1)
      OBVIOUS
    <3>1. Ahead(S, c, o) \in 0..(n - 1) /\ Ahead(S, c, o) < r
      BY <1>2
    <3> HIDE DEF low, n
    <3> QED BY <1>1, <3>1
  <2>2. part \in Injection(low, 0..(r - 1))
    BY <1>4, <2>1 DEF Injection, IsInjective
  <2>3. ASSUME NEW x \in 0..(r - 1) PROVE \E o \in low : part[o] = x
    <3>1. x \in 0..(n - 1) /\ x < r
      BY <1>1
    <3>2. PICK o \in S : rank[o] = x
      <4> HIDE DEF rank, n
      <4> QED BY <1>7, <3>1 DEF Surjection
    <3>3. o \in low /\ part[o] = x
      BY <3>1, <3>2
    <3> QED BY <3>3
  <2> HIDE DEF part, low
  <2> QED BY <2>1, <2>2, <2>3 DEF Bijection, Surjection
<1>9. IsFiniteSet(low)
  <2>1. low \subseteq S
    OBVIOUS
  <2> HIDE DEF low
  <2> QED BY <1>1, <2>1, FS_Subset
<1>10. Cardinality(0..(r - 1)) = r
  <2>1. 0 \in Int /\ r - 1 \in Int
    OBVIOUS
  <2>2. Cardinality(0..(r - 1)) = IF 0 > r - 1 THEN 0 ELSE r - 1 - 0 + 1
    BY <2>1, FS_Interval
  <2> QED BY <2>2
<1>11. Cardinality(0..(r - 1)) = Cardinality(low)
  <2> HIDE DEF part, low
  <2>1. ExistsBijection(low, 0..(r - 1))
    BY <1>8 DEF ExistsBijection
  <2> QED BY <1>9, <2>1, FS_Bijection
<1> QED BY <1>9, <1>10, <1>11

-----------------------------------------------------------------------------
(* One round of the allocation.                                            *)

Quot(S, left) == left \div Cardinality(S)

LEMMA Division ==
  ASSUME NEW a \in Nat, NEW n \in Nat, n > 0
  PROVE  /\ a \div n \in Nat /\ a % n \in Nat /\ a % n < n
         /\ a = n * (a \div n) + (a % n)
OBVIOUS

\* A quotient is at least what fits into it that often.
LEMMA QuotientAtLeast ==
  ASSUME NEW a \in Nat, NEW n \in Nat, NEW q \in Nat, n > 0, n * q <= a
  PROVE  q <= a \div n
<1>1. a = n * (a \div n) + (a % n) /\ a % n < n /\ a \div n \in Nat /\ a % n \in Nat
  BY Division
<1>2. SUFFICES ASSUME a \div n + 1 <= q PROVE FALSE
  BY <1>1
<1>3. n * (a \div n + 1) <= n * q
  BY <1>1, <1>2
<1>4. n * (a \div n + 1) = n * (a \div n) + n
  BY <1>1
<1> QED BY <1>1, <1>3, <1>4

LEMMA PortionIs ==
  ASSUME NEW S, S \subseteq Owners, S # {}, NEW left \in Nat, NEW c, NEW o \in S
  PROVE  /\ Quot(S, left) \in Nat
         /\ Portion(S, left, c, o) =
              Quot(S, left) + (IF Ahead(S, c, o) < left % Cardinality(S) THEN 1 ELSE 0)
         /\ Portion(S, left, c, o) \in {Quot(S, left), Quot(S, left) + 1}
<1>1. Cardinality(S) \in Nat /\ Cardinality(S) > 0
  BY SomeOwners
<1> QED BY <1>1, Division DEF Portion, Quot, Ahead

\* The portions use up what is left.
LEMMA PortionsSum ==
  ASSUME NEW S, S \subseteq Owners, S # {}, NEW left \in Nat, NEW c
  PROVE  Total(S, [o \in S |-> Portion(S, left, c, o)]) = left
<1> DEFINE n == Cardinality(S)
           q == left \div n
           r == left % n
           f == [o \in S |-> Portion(S, left, c, o)]
           low == {o \in S : Ahead(S, c, o) < r}
<1>1. n \in Nat /\ n > 0
  BY SomeOwners
<1>2. q \in Nat /\ r \in Nat /\ r < n /\ left = n * q + r
  BY <1>1, Division
<1>3. Cardinality(low) = r /\ IsFiniteSet(low) /\ low \subseteq S
  <2>1. low \subseteq S
    OBVIOUS
  <2>2. r \in Nat /\ r <= Cardinality(S)
    BY <1>1, <1>2
  <2> HIDE DEF r
  <2>3. Cardinality(low) = r /\ IsFiniteSet(low)
    BY <2>2, AheadCounts
  <2> QED BY <2>1, <2>3
<1>4. IsFiniteSet(S \ low) /\ Cardinality(S \ low) = n - r
  <2>1. S \cap low = low /\ IsFiniteSet(S)
    BY SomeOwners
  <2> HIDE DEF low, r
  <2>2. Cardinality(S \ low) = n - Cardinality(S \cap low) /\ IsFiniteSet(S \ low)
    BY <2>1, FS_Difference
  <2> QED BY <1>3, <2>1, <2>2
<1>5. \A o \in low : f[o] = q + 1
  BY PortionIs DEF Quot
<1>6. \A o \in S \ low : f[o] = q
  BY PortionIs DEF Quot
<1>7. S = low \cup (S \ low) /\ low \cap (S \ low) = {}
  OBVIOUS
<1> HIDE DEF f, low, q, r, n
<1>8. Total(low, f) = r * (q + 1)
  <2>1. q + 1 \in Nat /\ low \subseteq Owners
    BY <1>2, <1>3
  <2> QED BY <2>1, <1>3, <1>5, TotalConst
<1>9. Total(S \ low, f) = (n - r) * q
  BY <1>2, <1>4, <1>6, TotalConst
<1>10. \A o \in low \cup (S \ low) : f[o] \in Nat
  BY <1>2, <1>5, <1>6
<1>11. Total(S, f) = Total(low, f) + Total(S \ low, f)
  BY <1>3, <1>7, <1>10, TotalSplit
<1>12. r * (q + 1) + (n - r) * q = n * q + r
  BY <1>1, <1>2
<1> QED BY <1>2, <1>8, <1>9, <1>11, <1>12 DEF f

-----------------------------------------------------------------------------
(* The rounds, and what the last one leaves.                               *)

\* What the rounds of one allocation keep: what is left and the caps paid out make up the
\* limit, the part of each of the others does not shrink, and who left is capped below it.
RoundOK(r, global, caps) ==
  LET out == DOMAIN caps \ r.active IN
  /\ r.active \subseteq DOMAIN caps /\ r.left \in Nat
  /\ \A o \in out : caps[o] \in Nat
  /\ Total(out, caps) + r.left = global
  /\ r.active # {} =>
       /\ Quot(DOMAIN caps, global) <= Quot(r.active, r.left)
       /\ \A o \in out : caps[o] <= Quot(r.active, r.left) + 1

\* The caps of live owners.
CapsOK(caps) ==
  /\ DOMAIN caps \subseteq Owners
  /\ \A o \in DOMAIN caps : caps[o] = None \/ (caps[o] \in Nat /\ caps[o] # 0)

LEMMA CappedIs ==
  ASSUME NEW caps, CapsOK(caps), NEW c, NEW r, r.active \subseteq DOMAIN caps
  PROVE  /\ Capped(r, caps, c) \subseteq r.active /\ Capped(r, caps, c) \subseteq Owners
         /\ \A o \in Capped(r, caps, c) :
              caps[o] \in Nat /\ caps[o] <= Portion(r.active, r.left, c, o)
BY DEF Capped, CapsOK

LEMMA RoundStarts ==
  ASSUME NEW caps, CapsOK(caps), NEW global \in Nat
  PROVE  RoundOK([active |-> DOMAIN caps, left |-> global], global, caps)
<1>1. Total({}, caps) = 0
  BY FS_EmptySet DEF Total, Units
<1>2. DOMAIN caps # {} => Quot(DOMAIN caps, global) \in Nat
  BY PortionIs DEF CapsOK
<1> QED BY <1>1, <1>2 DEF RoundOK

LEMMA RoundKeeps ==
  ASSUME NEW caps, CapsOK(caps), NEW global \in Nat, NEW c, NEW r, RoundOK(r, global, caps)
  PROVE  RoundOK(NextRound(r, caps, c), global, caps)
<1> DEFINE D == DOMAIN caps
           A == r.active
           C == Capped(r, caps, c)
           B == A \ C
           part == [o \in A |-> Portion(A, r.left, c, o)]
           left == r.left - Total(C, caps)
           q == Quot(A, r.left)
<1>1. A \subseteq Owners /\ A \subseteq D /\ D \subseteq Owners /\ r.left \in Nat
  BY DEF RoundOK, CapsOK
<1>2. C \subseteq A /\ \A o \in C : caps[o] \in Nat /\ caps[o] <= Portion(A, r.left, c, o)
  BY <1>1, CappedIs
<1>3. CASE A = {}
  <2>1. C = {} /\ B = {}
    BY <1>2, <1>3
  <2>2. Total(C, caps) = 0
    BY <2>1, FS_EmptySet DEF Total, Units
  <2> QED BY <1>3, <2>1, <2>2 DEF RoundOK, NextRound
<1>4. CASE A # {}
  <2>1. q \in Nat /\ \A o \in A : part[o] \in Nat /\ part[o] >= q /\ part[o] <= q + 1
                               /\ part[o] = Portion(A, r.left, c, o)
    <3>1. q \in Nat
      BY <1>1, <1>4, PortionIs
    <3>2. \A o \in A : Portion(A, r.left, c, o) \in {q, q + 1}
      BY <1>1, <1>4, PortionIs
    <3> HIDE DEF q, A
    <3> QED BY <3>1, <3>2
  <2>2. Total(A, part) = r.left
    BY <1>1, <1>4, PortionsSum
  <2> HIDE DEF q, part, C
  <2>3. Total(A, part) = Total(C, part) + Total(B, part)
    <3>1. A = C \cup B /\ C \cap B = {} /\ C \subseteq Owners /\ B \subseteq Owners
      BY <1>1, <1>2
    <3> QED BY <2>1, <3>1, TotalSplit
  <2>4. /\ Total(C, caps) <= Total(C, part)
        /\ Total(C, caps) \in Nat /\ Total(C, part) \in Nat
    BY <1>1, <1>2, <2>1, TotalGrows
  <2>5. Total(B, part) \in Nat /\ Cardinality(B) * q <= Total(B, part)
    <3> DEFINE flat == [o \in A |-> q]
    <3>1. Total(B, flat) = Cardinality(B) * q
      BY <1>1, <2>1, TotalConst
    <3>2. /\ B \subseteq Owners /\ B \subseteq B /\ \A o \in B : part[o] \in Nat
          /\ \A o \in B : flat[o] \in Nat /\ flat[o] <= part[o]
      BY <1>1, <2>1
    <3> HIDE DEF flat, B
    <3> QED BY <3>1, <3>2, TotalGrows
  <2>6. left \in Nat /\ Total(B, part) <= left
    BY <2>2, <2>3, <2>4, <2>5, <1>1
  <2>7. D \ B = (D \ A) \cup C /\ (D \ A) \cap C = {}
    BY <1>1, <1>2
  <2>8. \A o \in D \ B : caps[o] \in Nat
    BY <1>2, <2>7 DEF RoundOK
  <2>9. Total(D \ B, caps) + left = global
    <3>1. Total((D \ A) \cup C, caps) = Total(D \ A, caps) + Total(C, caps)
      BY <1>1, <1>2, <2>7, <2>8, TotalSplit
    <3>2. Total(D \ A, caps) + r.left = global
      BY DEF RoundOK
    <3>3. Total(D \ A, caps) \in Nat
      BY <1>1, <2>7, <2>8, UnitsFinite
    <3>4. Total(D \ B, caps) = Total(D \ A, caps) + Total(C, caps)
      BY <2>7, <3>1
    <3> HIDE DEF D, B, A
    <3> QED BY <1>1, <2>4, <3>2, <3>3, <3>4
  <2>10. ASSUME B # {} PROVE Quot(B, left) \in Nat /\ q <= Quot(B, left)
    <3>1. Cardinality(B) \in Nat /\ Cardinality(B) > 0
      BY <1>1, <2>10, SomeOwners
    <3>2. Cardinality(B) * q \in Nat /\ Cardinality(B) * q <= left
      BY <2>1, <2>5, <2>6, <3>1
    <3> HIDE DEF left, B
    <3> QED BY <2>1, <2>6, <3>1, <3>2, QuotientAtLeast, Division DEF Quot
  <2>11. ASSUME B # {}
         PROVE  /\ Quot(D, global) <= Quot(B, left)
                /\ \A o \in D \ B : caps[o] <= Quot(B, left) + 1
    <3>1. Quot(D, global) <= q /\ Quot(D, global) \in Nat
      <4>1. D # {}
        BY <1>1, <1>4
      <4> QED BY <1>1, <1>4, <4>1, PortionIs DEF RoundOK, q
    <3>2. \A o \in D \ A : caps[o] <= q + 1
      BY <1>4 DEF RoundOK, q
    <3>3. \A o \in C : caps[o] <= q + 1
      BY <1>2, <2>1
    <3> HIDE DEF left, B, D, A
    <3> QED BY <2>1, <2>7, <2>8, <2>10, <2>11, <3>1, <3>2, <3>3
  <2>12. NextRound(r, caps, c) = [active |-> B, left |-> left]
    BY DEF NextRound, C
  <2> HIDE DEF left
  <2> QED BY <1>1, <2>6, <2>8, <2>9, <2>11, <2>12 DEF RoundOK
<1> QED BY <1>3, <1>4

\* f is the first k rounds, one after the other.
Runs(f, k, global, caps, c) ==
  f = [n \in 0..k |-> IF n = 0 THEN [active |-> DOMAIN caps, left |-> global]
                      ELSE NextRound(f[n - 1], caps, c)]

LEMMA RunsUnfold ==
  ASSUME NEW f, NEW k \in Nat, NEW global, NEW caps, NEW c, Runs(f, k, global, caps, c)
  PROVE  /\ f[0] = [active |-> DOMAIN caps, left |-> global]
         /\ \A n \in Nat : n < k => f[n + 1] = NextRound(f[n], caps, c)
<1> DEFINE G(n) == IF n = 0 THEN [active |-> DOMAIN caps, left |-> global]
                   ELSE NextRound(f[n - 1], caps, c)
<1>1. f = [n \in 0..k |-> G(n)]
  BY DEF Runs
<1>2. \A n \in 0..k : f[n] = G(n)
  <2> HIDE DEF G
  <2> QED BY <1>1
<1>3. f[0] = G(0)
  <2> HIDE DEF G
  <2> QED BY <1>2
<1>4. ASSUME NEW n \in Nat, n < k PROVE f[n + 1] = G(n + 1)
  <2> HIDE DEF G
  <2> QED BY <1>2, <1>4
<1>5. \A n \in Nat : n + 1 # 0 /\ (n + 1) - 1 = n
  OBVIOUS
<1> QED BY <1>3, <1>4, <1>5

LEMMA RunsExist ==
  ASSUME NEW global, NEW caps, NEW c
  PROVE  \A k \in Nat : \E f : Runs(f, k, global, caps, c)
<1> DEFINE P == {k \in Nat : \E f : Runs(f, k, global, caps, c)}
           first == [active |-> DOMAIN caps, left |-> global]
<1>1. 0 \in P
  <2> DEFINE f == [n \in 0..0 |-> first]
             G(n) == IF n = 0 THEN first ELSE NextRound(f[n - 1], caps, c)
  <2>1. \A n \in 0..0 : first = G(n)
    OBVIOUS
  <2> HIDE DEF G, first
  <2>2. f = [n \in 0..0 |-> G(n)]
    BY <2>1
  <2> HIDE DEF f
  <2>3. Runs(f, 0, global, caps, c)
    BY <2>2 DEF Runs, G, first
  <2> QED BY <2>3
<1>2. ASSUME NEW k \in Nat, k \in P PROVE k + 1 \in P
  <2>1. PICK f : Runs(f, k, global, caps, c)
    BY <1>2
  <2> DEFINE F(n) == IF n = 0 THEN first ELSE NextRound(f[n - 1], caps, c)
             g == [n \in 0..k + 1 |-> F(n)]
             G(n) == IF n = 0 THEN first ELSE NextRound(g[n - 1], caps, c)
  <2>2. f = [n \in 0..k |-> F(n)]
    BY <2>1 DEF Runs
  <2>3. ASSUME NEW n \in 0..k PROVE f[n] = g[n]
    <3>1. f[n] = F(n)
      <4> HIDE DEF F
      <4> QED BY <2>2
    <3>2. n \in 0..k + 1
      OBVIOUS
    <3> HIDE DEF F
    <3> QED BY <3>1, <3>2
  <2>4. ASSUME NEW n \in 0..k + 1 PROVE F(n) = G(n)
    <3>1. CASE n = 0
      BY <3>1
    <3>2. CASE n # 0
      <4>1. n - 1 \in 0..k
        BY <3>2
      <4> HIDE DEF g
      <4> QED BY <2>3, <3>2, <4>1
    <3> QED BY <3>1, <3>2
  <2>5. g = [n \in 0..k + 1 |-> G(n)]
    <3> HIDE DEF F, G
    <3> QED BY <2>4
  <2> HIDE DEF g
  <2>6. Runs(g, k + 1, global, caps, c)
    BY <2>5 DEF Runs
  <2> QED BY <2>6
<1> HIDE DEF P
<1>3. \A k \in Nat : k \in P
  BY <1>1, <1>2, AllNat
<1> QED BY <1>3 DEF P

LEMMA LastRoundRuns ==
  ASSUME NEW global, NEW caps, NEW c
  PROVE  \E f : Runs(f, N, global, caps, c) /\ LastRound(global, caps, c) = f[N]
<1>1. \E f : Runs(f, N, global, caps, c)
  BY OwnersFinite, RunsExist
<1> DEFINE f == CHOOSE f : Runs(f, N, global, caps, c)
<1>2. Runs(f, N, global, caps, c)
  BY <1>1
<1>3. LastRound(global, caps, c) = f[N]
  BY DEF LastRound, Runs
<1> QED BY <1>2, <1>3

\* Every round keeps the account, and in the last one nobody is capped any more: as long as
\* somebody is, each round has fewer owners than the one before.
LEMMA LastRoundOK ==
  ASSUME NEW caps, CapsOK(caps), NEW global \in Nat, NEW c
  PROVE  LET last == LastRound(global, caps, c)
         IN  RoundOK(last, global, caps) /\ Capped(last, caps, c) = {}
<1>1. PICK f : Runs(f, N, global, caps, c) /\ LastRound(global, caps, c) = f[N]
  BY LastRoundRuns
<1>2. /\ f[0] = [active |-> DOMAIN caps, left |-> global]
      /\ \A n \in Nat : n < N => f[n + 1] = NextRound(f[n], caps, c)
  BY <1>1, OwnersFinite, RunsUnfold
<1> DEFINE P == {k \in Nat : k <= N => RoundOK(f[k], global, caps)}
           Fewer(k) == \/ Capped(f[k], caps, c) = {}
                       \/ Cardinality(f[k].active) + k <= Cardinality(DOMAIN caps)
           R == {k \in Nat : k <= N => Fewer(k)}
<1>3. \A k \in Nat : k \in P
  <2>1. 0 \in P
    BY <1>2, RoundStarts
  <2>2. ASSUME NEW k \in Nat, k \in P PROVE k + 1 \in P
    <3> SUFFICES ASSUME k + 1 <= N PROVE RoundOK(f[k + 1], global, caps)
      OBVIOUS
    <3>1. k < N /\ k <= N
      BY OwnersFinite
    <3>2. RoundOK(f[k], global, caps) /\ f[k + 1] = NextRound(f[k], caps, c)
      BY <1>2, <2>2, <3>1
    <3> QED BY <3>2, RoundKeeps
  <2> HIDE DEF P
  <2> QED BY <2>1, <2>2, AllNat
<1>4. \A k \in Nat : k \in R
  <2>1. 0 \in R
    <3>1. Cardinality(DOMAIN caps) \in Nat
      BY SomeOwners DEF CapsOK
    <3> QED BY <1>2, <3>1
  <2>2. ASSUME NEW k \in Nat, k \in R PROVE k + 1 \in R
    <3> SUFFICES ASSUME k + 1 <= N PROVE Fewer(k + 1)
      OBVIOUS
    <3> DEFINE A == f[k].active
               C == Capped(f[k], caps, c)
    <3>1. k < N /\ k <= N
      BY OwnersFinite
    <3>2. Fewer(k) /\ f[k + 1] = NextRound(f[k], caps, c) /\ RoundOK(f[k], global, caps)
      BY <1>2, <1>3, <2>2, <3>1
    <3>3. A \subseteq Owners /\ C \subseteq A /\ f[k].left \in Nat
      BY <3>2, CappedIs DEF RoundOK, CapsOK
    <3>4. CASE C = {}
      <4>1. Total(C, caps) = 0
        BY <3>4, FS_EmptySet DEF Total, Units
      <4>2. f[k + 1].active = f[k].active /\ f[k + 1].left = f[k].left
        BY <3>2, <3>3, <3>4, <4>1 DEF NextRound
      <4>3. Capped(f[k + 1], caps, c) = C
        BY <4>2 DEF Capped
      <4> QED BY <3>4, <4>3
    <3>5. CASE C # {}
      <4>1. Cardinality(A) + k <= Cardinality(DOMAIN caps)
        BY <3>2, <3>5
      <4>2. f[k + 1].active = A \ C
        BY <3>2 DEF NextRound
      <4>3. PICK o \in C : TRUE
        BY <3>5
      <4>4. IsFiniteSet(A) /\ Cardinality(A) \in Nat /\ Cardinality(DOMAIN caps) \in Nat
        BY <3>3, SomeOwners DEF CapsOK
      <4>5. A \ C \subseteq A \ {o} /\ o \in A
        BY <3>3, <4>3
      <4> HIDE DEF A, C
      <4>6. IsFiniteSet(A \ {o}) /\ Cardinality(A \ {o}) = Cardinality(A) - 1
        BY <4>4, <4>5, FS_RemoveElement
      <4>7. Cardinality(A \ C) <= Cardinality(A) - 1 /\ IsFiniteSet(A \ C)
        BY <4>5, <4>6, FS_Subset
      <4>8. Cardinality(A \ C) \in Nat
        BY <4>7, FS_CardinalityType
      <4>9. Cardinality(A \ C) + (k + 1) <= Cardinality(DOMAIN caps)
        BY <4>1, <4>4, <4>7, <4>8
      <4> QED BY <4>2, <4>9
    <3> QED BY <3>4, <3>5
  <2> HIDE DEF R
  <2> QED BY <2>1, <2>2, AllNat
<1>5. RoundOK(f[N], global, caps) /\ Fewer(N)
  BY <1>3, <1>4, OwnersFinite
<1>6. Capped(f[N], caps, c) = {}
  <2> SUFFICES ASSUME Cardinality(f[N].active) + N <= Cardinality(DOMAIN caps)
               PROVE  f[N].active = {}
    BY <1>5 DEF Capped
  <2>1. DOMAIN caps \subseteq Owners /\ f[N].active \subseteq Owners
    BY <1>5 DEF RoundOK, CapsOK
  <2>2. Cardinality(DOMAIN caps) <= N
    BY <2>1, OwnersFinite, FS_Subset
  <2>3. Cardinality(f[N].active) \in Nat /\ Cardinality(DOMAIN caps) \in Nat
    BY <2>1, SomeOwners
  <2>4. Cardinality(f[N].active) = 0
    BY <2>2, <2>3, OwnersFinite
  <2> QED BY <2>1, <2>4, SomeOwners
<1> QED BY <1>1, <1>5, <1>6

\* What allocate promises of its shares.
SharesFit(share, caps, global) ==
  /\ DOMAIN share = DOMAIN caps
  /\ \A o \in DOMAIN caps : share[o] \in Nat \cup {None} /\ AtMost(share[o], caps[o])
  /\ global = None => \A o \in DOMAIN caps : share[o] # 0
  /\ global # None =>
       /\ \A o \in DOMAIN caps : share[o] \in Nat
       /\ Total(DOMAIN caps, share) <= global
       /\ Total(DOMAIN caps, share) < global => \A o \in DOMAIN caps : share[o] = caps[o]
       /\ \A o, p \in DOMAIN caps : share[o] + 1 < share[p] => share[o] = caps[o]
       /\ Cardinality(DOMAIN caps) <= global => \A o \in DOMAIN caps : share[o] # 0

\* For any owners, limits and caps the shares fit the limit and the caps, use the limit up
\* unless everybody is capped, and are as equal as the caps allow.
LEMMA AllocateFits ==
  ASSUME NEW caps, CapsOK(caps), NEW global \in Nat \cup {None}, NEW c
  PROVE  SharesFit(Allocate(global, caps, c), caps, global)
<1> DEFINE D == DOMAIN caps
           last == LastRound(global, caps, c)
           A == last.active
           share == [o \in D |-> IF o \in A THEN Portion(A, last.left, c, o) ELSE caps[o]]
           q == Quot(A, last.left)
<1>1. CASE global = None
  BY <1>1, OwnersFinite DEF Allocate, SharesFit, CapsOK, AtMost
<1>2. CASE global # None
  <2>1. global \in Nat /\ Allocate(global, caps, c) = share
    BY <1>2 DEF Allocate
  <2>2. RoundOK(last, global, caps) /\ Capped(last, caps, c) = {}
    BY <2>1, LastRoundOK
  <2> HIDE DEF last
  <2>3. /\ A \subseteq D /\ D \subseteq Owners /\ A \subseteq Owners /\ last.left \in Nat
        /\ \A o \in D \ A : caps[o] \in Nat
        /\ Total(D \ A, caps) + last.left = global
    BY <2>2 DEF RoundOK, CapsOK
  <2>4. ASSUME NEW o \in A
        PROVE  /\ q \in Nat /\ share[o] = Portion(A, last.left, c, o)
               /\ share[o] \in {q, q + 1} /\ share[o] \in Nat
               /\ caps[o] # None => caps[o] \in Nat /\ share[o] < caps[o]
    <3>1. q \in Nat /\ Portion(A, last.left, c, o) \in {q, q + 1}
      BY <2>3, PortionIs
    <3>2. share[o] = Portion(A, last.left, c, o)
      BY <2>3
    <3>3. caps[o] # None => caps[o] \in Nat /\ ~(caps[o] <= Portion(A, last.left, c, o))
      BY <2>2, <2>3 DEF Capped, CapsOK
    <3> HIDE DEF share, q, A
    <3> QED BY <3>1, <3>2, <3>3
  <2>5. \A o \in D \ A : share[o] = caps[o] /\ share[o] \in Nat /\ share[o] # 0
    <3> SUFFICES ASSUME NEW o \in D \ A
                 PROVE  share[o] = caps[o] /\ share[o] \in Nat /\ share[o] # 0
      OBVIOUS
    <3>1. share[o] = caps[o] /\ caps[o] \in Nat
      BY <2>3
    <3>2. caps[o] # 0
      BY <3>1, OwnersFinite DEF CapsOK
    <3> QED BY <3>1, <3>2
  <2>6. \A o \in D : share[o] \in Nat
    BY <2>4, <2>5
  <2>7. \A o \in D : AtMost(share[o], caps[o])
    <3> SUFFICES ASSUME NEW o \in D PROVE AtMost(share[o], caps[o])
      OBVIOUS
    <3>1. share[o] # None
      BY <2>6, OwnersFinite
    <3>2. CASE o \in A
      <4> HIDE DEF share
      <4> QED BY <2>4, <3>1, <3>2 DEF AtMost
    <3>3. CASE o \notin A
      <4>1. share[o] = caps[o] /\ share[o] \in Nat
        BY <2>5, <3>3
      <4> HIDE DEF share
      <4> QED BY <3>1, <4>1 DEF AtMost
    <3> QED BY <3>2, <3>3
  <2>8. Total(D, share) = Total(D \ A, caps) + Total(A, share)
    <3>1. D = (D \ A) \cup A /\ (D \ A) \cap A = {} /\ D \ A \subseteq Owners
      BY <2>3
    <3> HIDE DEF share
    <3>2. Total(D, share) = Total(D \ A, share) + Total(A, share)
      <4> DEFINE B == D \ A
      <4> HIDE DEF B, A, D
      <4>1. \A o \in B \cup A : share[o] \in Nat
        BY <2>6, <3>1 DEF B
      <4>2. Total(B \cup A, share) = Total(B, share) + Total(A, share)
        BY <2>3, <3>1, <4>1, TotalSplit DEF B
      <4> QED BY <3>1, <4>2 DEF B
    <3>3. Total(D \ A, share) = Total(D \ A, caps)
      BY <2>5, TotalSame
    <3> QED BY <3>2, <3>3
  <2>9. A # {} => Total(A, share) = last.left
    <3> SUFFICES ASSUME A # {} PROVE Total(A, share) = last.left
      OBVIOUS
    <3>1. Total(A, [o \in A |-> Portion(A, last.left, c, o)]) = last.left
      BY <2>3, PortionsSum
    <3>2. Total(A, share) = Total(A, [o \in A |-> Portion(A, last.left, c, o)])
      <4> DEFINE f == [o \in A |-> Portion(A, last.left, c, o)]
      <4>1. \A o \in A : share[o] = f[o]
        BY <2>4
      <4> HIDE DEF f, share, A
      <4> QED BY <4>1, TotalSame DEF f
    <3> QED BY <3>1, <3>2
  <2>10. A = {} => Total(A, share) = 0
    BY FS_EmptySet DEF Total, Units
  <2>11. Total(D \ A, caps) \in Nat
    BY <2>3, UnitsFinite
  <2>12. /\ Total(D, share) <= global
         /\ A # {} => Total(D, share) = global
    <3> HIDE DEF share, D, A
    <3> QED BY <2>3, <2>8, <2>9, <2>10, <2>11
  <2>13. Total(D, share) < global => \A o \in D : share[o] = caps[o]
    <3> SUFFICES ASSUME Total(D, share) < global PROVE A = {}
      BY <2>5
    <3> HIDE DEF share, A
    <3> QED BY <2>1, <2>12
  <2>14. ASSUME NEW o \in D, NEW p \in D, share[o] + 1 < share[p]
         PROVE  share[o] = caps[o]
    <3> SUFFICES ASSUME o \in A PROVE FALSE
      BY <2>5
    <3>1. share[o] \in {q, q + 1} /\ q \in Nat
      BY <2>4
    <3>2. share[p] <= q + 1 /\ share[p] \in Nat
      <4>1. CASE p \in A
        <5> HIDE DEF share, q
        <5> QED BY <2>4, <3>1, <4>1
      <4>2. CASE p \notin A
        <5>1. share[p] = caps[p] /\ share[p] \in Nat
          BY <2>5, <4>2
        <5>2. caps[p] <= q + 1
          BY <2>2, <4>2 DEF RoundOK
        <5> QED BY <5>1, <5>2
      <4> QED BY <4>1, <4>2
    <3> HIDE DEF share, q
    <3> QED BY <2>14, <3>1, <3>2
  <2>15. ASSUME Cardinality(D) <= global, NEW o \in D
         PROVE  share[o] # 0
    <3> SUFFICES ASSUME o \in A PROVE share[o] # 0
      BY <2>5
    <3>1. Quot(D, global) <= q /\ q \in Nat
      BY <2>2, <2>4 DEF RoundOK
    <3>2. Cardinality(D) \in Nat /\ Cardinality(D) > 0
      BY <2>3, SomeOwners
    <3>3. 1 <= Quot(D, global) /\ Quot(D, global) \in Nat
      <4>1. Cardinality(D) * 1 <= global
        BY <2>15, <3>2
      <4> HIDE DEF D
      <4> QED BY <2>1, <3>2, <4>1, QuotientAtLeast, Division DEF Quot
    <3>4. share[o] \in {q, q + 1}
      BY <2>4
    <3> HIDE DEF share, q
    <3> QED BY <3>1, <3>3, <3>4
  <2>16. DOMAIN share = D
    OBVIOUS
  <2> HIDE DEF share
  <2> QED BY <1>2, <2>1, <2>6, <2>7, <2>12, <2>13, <2>14, <2>15, <2>16 DEF SharesFit
<1> QED BY <1>1, <1>2

-----------------------------------------------------------------------------
(* The inductive invariant.                                                *)

Phases == {"off", "paused", "running", "complete", "finalizing", "pending", "sealing", "sealed"}
Rows == [phase : Phases, cap : Caps \cup {None}, share : Rates \cup {Unset},
         overall : Rates, item : Rates]

LoopTyped ==
  /\ limit \in Limits \cup {None} /\ rev \in 0..MaxRev /\ applied \in 0..rev
  /\ pc \in {"serve", "settings", "pass", "dispatch", "poll"}
  /\ limit \in inForce
RowsTyped ==
  /\ owner \in [Owners -> Rows]
  /\ \A o \in Owners :
       owner[o].phase \in {"off", "pending", "sealing", "sealed"} => owner[o].share = Unset

CapsOf(ow, D) == [o \in D |-> ow[o].cap]
Shared == IF pass.candidate = 0 THEN Live ELSE Live \cup {pass.candidate}
\* An allocation in progress: its shares fit those it is for, and who was told has its share.
PassOK ==
  /\ pc # "pass" => pass = NoPass
  /\ \A o \in Owners : owner[o].phase = "paused" <=> pass.candidate = o
  /\ pc = "pass" =>
       /\ pass.candidate \in Owners \cup {0}
       /\ pass.todo \subseteq Shared /\ DOMAIN pass.share = Shared
       /\ SharesFit(pass.share, CapsOf(owner, Shared), limit)
       /\ \A o \in Shared : pass.share[o] # 0
       /\ \A o \in Shared \ pass.todo : owner[o].share = pass.share[o]

LoopInv == LoopTyped /\ RowsTyped /\ PassOK

LEMMA LimitIs ==
  ASSUME LoopTyped
  PROVE  limit \in Nat \cup {None} /\ rev \in Nat /\ applied \in Nat /\ applied <= rev /\ MaxRev \in Nat
BY BandwidthAssumption DEF LoopTyped

\* At most k of those are left whom the first k do not cover.
LEMMA NoExcess ==
  ASSUME NEW S, S \subseteq Owners, NEW k \in Nat,
         {o \in S : Cardinality({p \in S : p <= o}) > k} = {}
  PROVE  Cardinality(S) <= k
<1>1. CASE S = {}
  BY <1>1, FS_EmptySet
<1>2. CASE S # {}
  <2> DEFINE T == {N - o : o \in S}
  <2>1. T \subseteq Nat /\ T # {} /\ \A o \in S : o \in Nat /\ o <= N
    <3>1. N \in Nat /\ \A o \in S : o \in 1..N
      BY OwnersFinite DEF Owners
    <3>2. \A o \in S : o \in Nat /\ o <= N /\ N - o \in Nat
      BY <3>1
    <3>3. PICK o \in S : TRUE
      BY <1>2
    <3>4. N - o \in T
      OBVIOUS
    <3> QED BY <3>2, <3>4
  <2>2. PICK t \in T : \A y \in T : t <= y
    <3> HIDE DEF T
    <3> QED BY <2>1, LeastNat
  <2>3. PICK m \in S : t = N - m
    OBVIOUS
  <2>4. \A p \in S : p <= m
    <3> SUFFICES ASSUME NEW p \in S PROVE p <= m
      OBVIOUS
    <3>1. N - p \in T
      OBVIOUS
    <3>2. t <= N - p
      BY <2>2, <3>1
    <3>3. p \in Nat /\ m \in Nat /\ N \in Nat
      BY <2>1, OwnersFinite
    <3> HIDE DEF T
    <3> QED BY <2>3, <3>2, <3>3
  <2>5. {p \in S : p <= m} = S
    BY <2>4
  <2>6. ~(Cardinality(S) > k)
    BY <2>3, <2>5
  <2> QED BY <2>6, SomeOwners
<1> QED BY <1>1, <1>2

LEMMA SlotsFit ==
  ASSUME LoopTyped, limit # None
  PROVE  Slots \in Nat /\ Slots <= limit
BY LimitIs, OwnersFinite DEF Slots

\* The shares of a new allocation.
LEMMA PlanFits ==
  ASSUME LoopTyped, NEW ow, ow \in [Owners -> Rows], NEW o \in Owners \cup {0}, NEW D, D \subseteq Owners,
         o = 0 => D = Live, o # 0 => D = Live \cup {o}, limit # None => Cardinality(D) <= limit,
         NEW p, p = Plan(ow, o)
  PROVE  /\ p.todo = D /\ p.candidate = o /\ DOMAIN p.share = D
         /\ SharesFit(p.share, CapsOf(ow, D), limit)
         /\ \A d \in D : p.share[d] # 0
<1> DEFINE caps == CapsOf(ow, D)
           share == Allocate(limit, caps, o)
<1>1. CapsOK(caps) /\ DOMAIN caps = D
  BY BandwidthAssumption DEF CapsOK, Rows, CapsOf
<1>2. limit \in Nat \cup {None}
  BY LimitIs
<1>3. SharesFit(share, caps, limit)
  BY <1>1, <1>2, AllocateFits
<1>4. Plan(ow, o) = [todo |-> D, share |-> share, candidate |-> o, called |-> FALSE]
  BY DEF Plan, CapsOf
<1> HIDE DEF share, caps
<1>5. DOMAIN share = D /\ \A d \in D : share[d] # 0
  BY <1>1, <1>3 DEF SharesFit
<1> QED BY <1>3, <1>4, <1>5 DEF caps

LEMMA ToldIs ==
  ASSUME PassOK, pc = "pass", pass.todo # {}
  PROVE  /\ Shared \subseteq Owners /\ Told \in pass.todo /\ Told \in Shared
         /\ Share \in Rates /\ Share # 0
         /\ Raised(Told) => \A o \in pass.todo : Raised(o)
<1> DEFINE low == {o \in pass.todo : ~Raised(o)}
           S == IF low # {} THEN low ELSE pass.todo
<1>1. Shared \subseteq Owners /\ pass.todo \subseteq Shared
  <2>1. pass.candidate # 0 => pass.candidate \in Owners
    BY DEF PassOK
  <2> QED BY <2>1 DEF PassOK, Shared, Live
<1>2. S # {} /\ S \subseteq pass.todo /\ S \subseteq Owners
  BY <1>1
<1>3. Told = FirstOf(S)
  BY DEF Told
<1> HIDE DEF S
<1>4. FirstOf(S) \in S
  <2>1. CASE S \subseteq {pass.candidate}
    BY <1>2, <2>1 DEF FirstOf
  <2>2. CASE ~(S \subseteq {pass.candidate})
    <3>1. S \ {pass.candidate} # {} /\ S \ {pass.candidate} \subseteq Owners
      BY <1>2, <2>2
    <3>2. Min(S \ {pass.candidate}) \in S \ {pass.candidate}
      BY <3>1, LeastOwner
    <3> QED BY <2>2, <3>2 DEF FirstOf
  <2> QED BY <2>1, <2>2
<1>5. Told \in pass.todo /\ Told \in Shared /\ Told \in S
  BY <1>1, <1>2, <1>3, <1>4
<1>6. Share \in Rates /\ Share # 0
  BY <1>5 DEF PassOK, SharesFit, Share, Rates
<1>7. ASSUME Raised(Told), NEW o \in pass.todo PROVE Raised(o)
  <2>1. Told \notin low
    BY <1>7
  <2>2. low = {}
    BY <1>5, <2>1 DEF S
  <2> QED BY <2>2
<1> QED BY <1>1, <1>5, <1>6, <1>7

LEMMA InitLoop == Init => LoopInv
<1> SUFFICES ASSUME Init PROVE LoopInv
  OBVIOUS
<1>1. LoopTyped
  BY BandwidthAssumption DEF Init, LoopTyped
<1>2. Off \in Rows
  BY DEF Off, Rows, Phases, Rates
<1>3. RowsTyped
  BY <1>2 DEF Init, RowsTyped, Off
<1>4. PassOK
  BY OwnersFinite DEF Init, PassOK, NoPass, Off
<1> QED BY <1>1, <1>3, <1>4 DEF LoopInv

\* An engine waits for its share only during an allocation.
LEMMA NobodyPaused ==
  ASSUME PassOK, pc # "pass"
  PROVE  \A o \in Owners : owner[o].phase # "paused"
<1>1. pass.candidate = 0
  BY DEF PassOK, NoPass
<1>2. \A o \in Owners : owner[o].phase = "paused" <=> pass.candidate = o
  BY DEF PassOK
<1> QED BY <1>1, <1>2, OwnersFinite

\* The phases of the owners outside a pass can change as they like, as long as nobody is paused.
LEMMA IdleKeeps ==
  ASSUME PassOK, pc # "pass", pc' # "pass", pass' = pass,
         \A o \in Owners : owner'[o].phase # "paused"
  PROVE  PassOK'
<1>1. pass' = NoPass /\ pass'.candidate = 0
  BY DEF PassOK, NoPass
<1>2. \A o \in Owners : ~(owner'[o].phase = "paused") /\ ~(pass'.candidate = o)
  BY <1>1, OwnersFinite
<1> QED BY <1>1, <1>2 DEF PassOK

\* A pass stays what it is while nobody joins or leaves and who was told has its share.
LEMMA SharedKeeps ==
  ASSUME PassOK, pc' = pc, limit' = limit, pc # "pass" => pass' = pass,
         pass'.candidate = pass.candidate, pass'.share = pass.share, pass'.todo \subseteq pass.todo,
         \A o \in Owners : /\ owner'[o].phase \in {"running", "complete"}
                                 <=> owner[o].phase \in {"running", "complete"}
                           /\ owner'[o].phase = "paused" <=> owner[o].phase = "paused"
                           /\ owner'[o].cap = owner[o].cap,
         pc = "pass" => \A o \in Shared \ pass'.todo : owner'[o].share = pass.share[o]
  PROVE  PassOK'
<1>1. Live' = Live
  BY DEF Live
<1>2. Shared' = Shared
  BY <1>1 DEF Shared
<1>3. pc = "pass" => Shared \subseteq Owners
  <2>1. pc = "pass" /\ pass.candidate # 0 => pass.candidate \in Owners
    BY DEF PassOK
  <2> QED BY <2>1 DEF Shared, Live
<1>4. pc = "pass" => CapsOf(owner', Shared') = CapsOf(owner, Shared)
  BY <1>2, <1>3 DEF CapsOf
<1>5. ASSUME pc = "pass"
      PROVE  SharesFit(pass.share, CapsOf(owner, Shared), limit)'
  <2>1. SharesFit(pass.share, CapsOf(owner, Shared), limit)'
         = SharesFit(pass'.share, CapsOf(owner', Shared'), limit')
    BY DEF SharesFit, AtMost, Total, Units, CapsOf
  <2> QED BY <1>4, <1>5, <2>1 DEF PassOK
<1> QED BY <1>2, <1>5 DEF PassOK

LEMMA StoppedIs ==
  ASSUME RowsTyped, NEW S, S \subseteq Owners, Stopped(S)
  PROVE  /\ RowsTyped'
         /\ \A o \in S : owner'[o].phase \in {"off", "pending", "sealing"} /\ owner'[o].share = Unset
         /\ \A o \in Owners \ S : owner'[o] = owner[o]
<1>1. PICK next \in [S -> {"off", "pending", "sealing"}] :
        owner' = [o \in Owners |-> IF o \in S THEN [Off EXCEPT !.phase = next[o]] ELSE owner[o]]
  BY DEF Stopped
<1>2. ASSUME NEW o \in S
      PROVE  /\ [Off EXCEPT !.phase = next[o]] \in Rows
             /\ [Off EXCEPT !.phase = next[o]].phase \in {"off", "pending", "sealing"}
             /\ [Off EXCEPT !.phase = next[o]].share = Unset
  <2>1. next[o] \in {"off", "pending", "sealing"}
    OBVIOUS
  <2> QED BY <2>1 DEF Off, Rows, Phases, Rates
<1>3. \A o \in S : owner'[o] = [Off EXCEPT !.phase = next[o]]
  BY <1>1
<1>4. \A o \in Owners \ S : owner'[o] = owner[o]
  BY <1>1
<1>5. owner' \in [Owners -> Rows]
  BY <1>1, <1>2 DEF RowsTyped
<1>6. \A o \in S : owner'[o].phase \in {"off", "pending", "sealing"} /\ owner'[o].share = Unset
  BY <1>2, <1>3
<1>7. ASSUME NEW o \in Owners, owner'[o].phase \in {"off", "pending", "sealing", "sealed"}
      PROVE  owner'[o].share = Unset
  <2>1. CASE o \in S
    BY <1>6, <2>1
  <2>2. CASE o \notin S
    BY <1>4, <1>7, <2>2 DEF RowsTyped
  <2> QED BY <2>1, <2>2
<1> QED BY <1>4, <1>5, <1>6, <1>7 DEF RowsTyped

LEMMA SettingsKeeps ==
  ASSUME LoopInv, Settings
  PROVE  LoopInv'
<1>0. LoopTyped /\ RowsTyped /\ PassOK /\ pc = "settings"
  BY DEF LoopInv, Settings
<1>1. LoopTyped'
  BY <1>0 DEF LoopTyped, Settings, Begin
<1>2. \A o \in Owners : owner[o].phase # "paused"
  BY <1>0, NobodyPaused
<1>3. CASE Excess # {} /\ Stopped(Excess) /\ pc' = "dispatch" /\ pass' = pass
  <2>1. Excess \subseteq Owners
    BY DEF Excess, Active
  <2>2. RowsTyped' /\ \A o \in Owners : owner'[o].phase # "paused"
    BY <1>0, <1>2, <1>3, <2>1, StoppedIs
  <2> QED BY <1>0, <1>1, <1>3, <2>2, IdleKeeps DEF LoopInv
<1>4. CASE pc' = "dispatch" /\ owner' = owner /\ pass' = pass
  <2>1. RowsTyped'
    BY <1>0, <1>4 DEF RowsTyped
  <2> QED BY <1>0, <1>1, <1>2, <1>4, <2>1, IdleKeeps DEF LoopInv
<1>5. CASE Excess = {} /\ Begin(owner, 0)
  <2>1. pc' = "pass" /\ owner' = owner /\ pass' = Plan(owner, 0) /\ limit' = limit
    BY <1>5 DEF Begin, Settings
  <2>2. limit # None => Cardinality(Live) <= limit
    <3> SUFFICES ASSUME limit # None PROVE Cardinality(Live) <= limit
      OBVIOUS
    <3>1. Slots \in Nat /\ Slots <= limit /\ limit \in Nat
      BY <1>0, SlotsFit, LimitIs
    <3>2. Active \subseteq Owners /\ Live \subseteq Active
      BY DEF Active, Live
    <3>3. Cardinality(Active) <= Slots
      BY <1>5, <3>1, <3>2, NoExcess DEF Excess
    <3>4. Cardinality(Live) <= Cardinality(Active)
      BY <3>2, SomeOwners, FS_Subset
    <3>5. Cardinality(Live) \in Nat /\ Cardinality(Active) \in Nat
      <4>1. Live \subseteq Owners
        BY <3>2
      <4> QED BY <3>2, <4>1, SomeOwners
    <3> QED BY <3>1, <3>3, <3>4, <3>5
  <2>3. owner \in [Owners -> Rows] /\ Live \subseteq Owners
    BY <1>0 DEF RowsTyped, Live
  <2>4. /\ pass'.todo = Live /\ pass'.candidate = 0 /\ DOMAIN pass'.share = Live
        /\ SharesFit(pass'.share, CapsOf(owner, Live), limit)
        /\ \A d \in Live : pass'.share[d] # 0
    BY <1>0, <2>1, <2>2, <2>3, PlanFits
  <2>5. Live' = Live /\ Shared' = Live
    BY <2>1, <2>4 DEF Live, Shared
  <2>6. SharesFit(pass.share, CapsOf(owner, Shared), limit)'
    <3>1. SharesFit(pass.share, CapsOf(owner, Shared), limit)'
           = SharesFit(pass'.share, CapsOf(owner', Shared'), limit')
      BY DEF SharesFit, AtMost, Total, Units, CapsOf
    <3> QED BY <2>1, <2>4, <2>5, <3>1
  <2>7. PassOK'
    BY <1>2, <2>1, <2>4, <2>5, <2>6, OwnersFinite DEF PassOK
  <2>8. RowsTyped'
    BY <1>0, <2>1 DEF RowsTyped
  <2> QED BY <1>1, <2>7, <2>8 DEF LoopInv
<1> QED BY <1>3, <1>4, <1>5 DEF Settings

LEMMA DispatchKeeps ==
  ASSUME LoopInv, NEW cap \in Caps, Dispatch(cap)
  PROVE  LoopInv'
<1> DEFINE idle == {o \in Owners : owner[o].phase = "off"}
           new == Min(idle)
           ow == [owner EXCEPT ![new] = [Off EXCEPT !.phase = "paused", !.cap = cap]]
<1>0. LoopTyped /\ RowsTyped /\ PassOK /\ pc = "dispatch"
  BY DEF LoopInv, Dispatch
<1>1. LoopTyped'
  BY <1>0 DEF LoopTyped, Dispatch, Begin
<1>2. \A o \in Owners : owner[o].phase # "paused"
  BY <1>0, NobodyPaused
<1>3. /\ idle # {} /\ N - Cardinality(idle) < Slots /\ limit' = limit
      /\ pc' = "pass" /\ owner' = ow /\ pass' = Plan(ow, new)
  BY DEF Dispatch, Begin
<1>4. new \in idle /\ new \in Owners /\ owner[new].phase = "off"
  <2>1. idle \subseteq Owners /\ idle # {}
    BY <1>3
  <2> HIDE DEF idle
  <2>2. new \in idle
    BY <2>1, LeastOwner
  <2> QED BY <2>1, <2>2 DEF idle
<1>5. [Off EXCEPT !.phase = "paused", !.cap = cap] \in Rows
  BY DEF Off, Rows, Phases, Rates
<1>6. /\ ow \in [Owners -> Rows] /\ ow[new].phase = "paused" /\ ow[new].share = Unset
      /\ \A o \in Owners : o # new => ow[o] = owner[o]
  <2> HIDE DEF new
  <2> QED BY <1>0, <1>4, <1>5 DEF RowsTyped, Off
<1> HIDE DEF new, ow
<1>7. RowsTyped'
  BY <1>0, <1>3, <1>4, <1>6 DEF RowsTyped
<1> DEFINE D == Live \cup {new}
<1>8. D \subseteq Owners /\ new # 0
  BY <1>4, OwnersFinite DEF Live
<1>9. limit # None => Cardinality(D) <= limit
  <2> SUFFICES ASSUME limit # None PROVE Cardinality(D) <= limit
    OBVIOUS
  <2>1. Slots \in Nat /\ Slots <= limit /\ limit \in Nat
    BY <1>0, SlotsFit, LimitIs
  <2>2. Live \subseteq Owners \ idle /\ idle \subseteq Owners /\ Owners \cap idle = idle
    BY DEF Live
  <2> HIDE DEF idle
  <2>3. Cardinality(Owners \ idle) = N - Cardinality(idle) /\ IsFiniteSet(Owners \ idle)
    BY <2>2, OwnersFinite, FS_Difference
  <2>4. Cardinality(Live) <= Cardinality(Owners \ idle) /\ IsFiniteSet(Live)
    BY <2>2, <2>3, FS_Subset
  <2>5. Cardinality(D) <= Cardinality(Live) + 1 /\ Cardinality(Live) \in Nat
    <3>1. Cardinality(D) = IF new \in Live THEN Cardinality(Live) ELSE Cardinality(Live) + 1
      BY <2>4, FS_AddElement
    <3>2. Cardinality(Live) \in Nat
      BY <2>4, FS_CardinalityType
    <3> HIDE DEF D
    <3> QED BY <3>1, <3>2
  <2>6. Cardinality(D) \in Nat /\ Cardinality(idle) \in Nat /\ N \in Nat
    BY <1>8, <2>2, SomeOwners, OwnersFinite
  <2> HIDE DEF D
  <2> QED BY <1>3, <2>1, <2>3, <2>4, <2>5, <2>6
<1>10. /\ pass'.todo = D /\ pass'.candidate = new /\ DOMAIN pass'.share = D
       /\ SharesFit(pass'.share, CapsOf(ow, D), limit)
       /\ \A d \in D : pass'.share[d] # 0
  <2>1. new # 0 /\ D = Live \cup {new} /\ new \in Owners \cup {0}
    BY <1>4, <1>8
  <2>2. ow \in [Owners -> Rows] /\ pass' = Plan(ow, new) /\ D \subseteq Owners /\ LoopTyped
        /\ (limit # None => Cardinality(D) <= limit)
    BY <1>0, <1>3, <1>6, <1>8, <1>9
  <2> HIDE DEF D
  <2> QED BY <2>1, <2>2, PlanFits
<1>11. Live' = Live /\ Shared' = D
  <2>1. Live' = Live
    BY <1>3, <1>4, <1>6 DEF Live
  <2> QED BY <1>8, <1>10, <2>1 DEF Shared
<1>12. SharesFit(pass.share, CapsOf(owner, Shared), limit)'
  <2>1. SharesFit(pass.share, CapsOf(owner, Shared), limit)'
         = SharesFit(pass'.share, CapsOf(owner', Shared'), limit')
    BY DEF SharesFit, AtMost, Total, Units, CapsOf
  <2> QED BY <1>3, <1>10, <1>11, <2>1
<1>13. PassOK'
  <2>1. \A o \in Owners : owner'[o].phase = "paused" <=> pass'.candidate = o
    BY <1>2, <1>3, <1>6, <1>10
  <2> HIDE DEF D
  <2> QED BY <1>3, <1>4, <1>10, <1>11, <1>12, <2>1 DEF PassOK
<1> QED BY <1>1, <1>7, <1>13 DEF LoopInv

LEMMA CallsKeep ==
  ASSUME LoopInv, Skip \/ SetGlobalLimit \/ SetAllocation
  PROVE  LoopInv'
<1>0. LoopTyped /\ RowsTyped /\ PassOK /\ pc = "pass" /\ pass.todo # {} /\ pc' = pc /\ limit' = limit
  BY DEF LoopInv, Skip, SetGlobalLimit, SetAllocation, InPass
<1>1. LoopTyped'
  BY <1>0 DEF LoopTyped, Skip, SetGlobalLimit, SetAllocation, InPass
<1>2. /\ Shared \subseteq Owners /\ Told \in pass.todo /\ Told \in Shared /\ Told \in Owners
      /\ Share \in Rates
  BY <1>0, ToldIs
<1>3. \A o \in Shared \ pass.todo : owner[o].share = pass.share[o]
  BY <1>0 DEF PassOK
<1>4. pass.todo \subseteq Shared
  BY <1>0 DEF PassOK
<1>5. \A o \in Owners : owner[o] \in Rows
  BY <1>0 DEF RowsTyped
<1>6. CASE Skip
  <2>1. /\ owner' = owner /\ pass'.candidate = pass.candidate /\ pass'.share = pass.share
        /\ pass'.todo = pass.todo \ {Told} /\ owner[Told].share = pass.share[Told]
    BY <1>6 DEF Skip, Done, Share
  <2>2. RowsTyped'
    BY <1>0, <2>1 DEF RowsTyped
  <2>3. PassOK'
    BY <1>0, <1>3, <2>1, SharedKeeps
  <2> QED BY <1>1, <2>2, <2>3 DEF LoopInv
<1>7. CASE SetGlobalLimit
  <2>1. /\ owner' = [owner EXCEPT ![Told].overall = Share]
        /\ pass'.candidate = pass.candidate /\ pass'.share = pass.share /\ pass'.todo = pass.todo
    BY <1>7 DEF SetGlobalLimit
  <2>2. /\ owner' \in [Owners -> Rows]
        /\ \A o \in Owners : /\ owner'[o].phase = owner[o].phase /\ owner'[o].cap = owner[o].cap
                             /\ owner'[o].share = owner[o].share
    BY <1>0, <1>2, <1>5, <2>1 DEF RowsTyped, Rows
  <2>3. RowsTyped'
    BY <1>0, <2>2 DEF RowsTyped
  <2>4. PassOK'
    BY <1>0, <1>2, <1>3, <2>1, <2>2, SharedKeeps
  <2> QED BY <1>1, <2>3, <2>4 DEF LoopInv
<1>8. CASE SetAllocation
  <2> DEFINE new == IF owner[Told].phase = "complete" THEN owner[Told].item ELSE Share
  <2>1. /\ owner' = [owner EXCEPT ![Told].share = Share, ![Told].item = new]
        /\ pass'.candidate = pass.candidate /\ pass'.share = pass.share
        /\ pass'.todo = pass.todo \ {Told}
    BY <1>8 DEF SetAllocation, Done
  <2>2. /\ owner' \in [Owners -> Rows]
        /\ \A o \in Owners : /\ owner'[o].phase = owner[o].phase /\ owner'[o].cap = owner[o].cap
                             /\ o # Told => owner'[o].share = owner[o].share
        /\ owner'[Told].share = Share
    BY <1>0, <1>2, <1>5, <2>1 DEF RowsTyped, Rows
  <2>3. owner[Told].phase \in {"running", "complete", "paused"}
    BY <1>0, <1>2 DEF PassOK, Shared, Live
  <2>4. RowsTyped'
    BY <1>0, <2>2, <2>3 DEF RowsTyped
  <2>5. \A o \in Shared \ pass'.todo : owner'[o].share = pass.share[o]
    BY <1>2, <1>3, <2>1, <2>2 DEF Share
  <2>6. PassOK'
    BY <1>0, <2>1, <2>2, <2>5, SharedKeeps
  <2> QED BY <1>1, <2>4, <2>6 DEF LoopInv
<1> QED BY <1>6, <1>7, <1>8

LEMMA FailKeeps ==
  ASSUME LoopInv, CallFails
  PROVE  LoopInv'
<1>0. LoopTyped /\ RowsTyped /\ PassOK /\ pc = "pass" /\ pass.todo # {}
  BY DEF LoopInv, CallFails
<1>1. /\ Told \in Owners /\ Share \in Rates
  BY <1>0, ToldIs
<1>2. PICK ow : Fail(ow) /\ ow \in [Owners -> Rows]
               /\ \A o \in Owners : ow[o].phase = owner[o].phase /\ ow[o].share = owner[o].share
  <2> DEFINE item == [owner EXCEPT ![Told].item = Share]
             overall == [owner EXCEPT ![Told].overall = Share]
             Like(ow) == /\ ow \in [Owners -> Rows]
                         /\ \A o \in Owners : /\ ow[o].phase = owner[o].phase
                                               /\ ow[o].share = owner[o].share
  <2>1. owner \in [Owners -> Rows]
    BY <1>0 DEF RowsTyped
  <2>2. Like(owner)
    BY <2>1
  <2>3. Like(item)
    BY <1>1, <2>1 DEF Rows
  <2>4. Like(overall)
    BY <1>1, <2>1 DEF Rows
  <2>5. Fail(owner) \/ Fail(item) \/ Fail(overall)
    BY DEF CallFails
  <2> HIDE DEF item, overall, Like
  <2>6. \E ow : Fail(ow) /\ Like(ow)
    BY <2>2, <2>3, <2>4, <2>5
  <2> QED BY <2>6 DEF Like
<1>3. Off \in Rows /\ Off.phase = "off" /\ Off.share = Unset
  BY DEF Off, Rows, Phases, Rates
<1>4. LoopTyped'
  BY <1>0, <1>2 DEF Fail, LoopTyped
<1>5. CASE pass.candidate = 0
  <2>1. pc' = "serve" /\ pass' = NoPass /\ owner' = [o \in Owners |-> Off]
    BY <1>2, <1>5 DEF Fail
  <2>2. RowsTyped' /\ PassOK'
    BY <1>3, <2>1, OwnersFinite DEF RowsTyped, PassOK, NoPass
  <2> QED BY <1>4, <2>2 DEF LoopInv
<1>6. CASE pass.candidate # 0
  <2>1. pc' = "poll" /\ pass' = NoPass /\ owner' = [ow EXCEPT ![pass.candidate] = Off]
    BY <1>2, <1>6 DEF Fail
  <2>2. pass.candidate \in Owners
    BY <1>0, <1>6 DEF PassOK
  <2>3. RowsTyped'
    BY <1>0, <1>2, <1>3, <2>1, <2>2 DEF RowsTyped
  <2>4. \A o \in Owners : owner'[o].phase # "paused"
    BY <1>0, <1>2, <1>3, <2>1, <2>2 DEF PassOK
  <2>5. PassOK'
    BY <2>1, <2>4, OwnersFinite DEF PassOK, NoPass
  <2> QED BY <1>4, <2>3, <2>5 DEF LoopInv
<1> QED BY <1>5, <1>6

LEMMA EndPassKeeps ==
  ASSUME LoopInv, EndPass
  PROVE  LoopInv'
<1>0. LoopTyped /\ RowsTyped /\ PassOK /\ pc = "pass" /\ pass.todo = {} /\ pass' = NoPass
  BY DEF LoopInv, EndPass
<1>1. LoopTyped'
  BY <1>0, LimitIs DEF LoopTyped, EndPass
<1>2. CASE pass.candidate = 0
  <2>1. pc' = "dispatch" /\ owner' = owner
    BY <1>2 DEF EndPass
  <2>2. RowsTyped' /\ PassOK'
    BY <1>0, <1>2, <2>1, OwnersFinite DEF RowsTyped, PassOK, NoPass
  <2> QED BY <1>1, <2>2 DEF LoopInv
<1>3. CASE pass.candidate # 0
  <2>1. pc' = "poll" /\ owner' = [owner EXCEPT ![pass.candidate].phase = "running"]
    BY <1>3 DEF EndPass
  <2>2. pass.candidate \in Owners /\ owner[pass.candidate] \in Rows
    BY <1>0, <1>3 DEF PassOK, RowsTyped
  <2>3. owner' \in [Owners -> Rows]
    BY <1>0, <2>1, <2>2 DEF RowsTyped, Rows, Phases
  <2>4. /\ owner'[pass.candidate].phase = "running"
        /\ \A o \in Owners : o # pass.candidate => owner'[o] = owner[o]
    BY <1>0, <2>1, <2>2 DEF RowsTyped, Rows
  <2>5. RowsTyped'
    BY <1>0, <2>3, <2>4 DEF RowsTyped
  <2>6. \A o \in Owners : owner'[o].phase # "paused"
    BY <1>0, <2>4 DEF PassOK
  <2>7. PassOK'
    BY <1>0, <2>1, <2>6, OwnersFinite DEF PassOK, NoPass
  <2> QED BY <1>1, <2>5, <2>7 DEF LoopInv
<1> QED BY <1>2, <1>3

\* An owner outside a pass changes its phase, or is released.
LEMMA OwnerMoves ==
  ASSUME LoopInv, NEW o \in Owners, NEW row \in Rows,
         owner' = [owner EXCEPT ![o] = row],
         row.phase \in {"off", "pending", "sealing", "sealed"} => row.share = Unset
  PROVE  /\ RowsTyped' /\ owner'[o] = row
         /\ \A p \in Owners : p # o => owner'[p] = owner[p]
BY DEF LoopInv, RowsTyped

LEMMA PollKeeps ==
  ASSUME LoopInv, NEW o \in Owners, Poll(o)
  PROVE  LoopInv'
<1>0. LoopTyped /\ RowsTyped /\ PassOK /\ pc = "poll" /\ owner[o] \in Rows
  BY DEF LoopInv, Poll, RowsTyped
<1>1. LoopTyped'
  BY <1>0 DEF LoopTyped, Poll
<1>2. \A p \in Owners : owner[p].phase # "paused"
  BY <1>0, NobodyPaused
<1>3. Off \in Rows /\ Off.phase = "off" /\ Off.share = Unset
  BY DEF Off, Rows, Phases, Rates
<1>4. owner \in [Owners -> Rows]
  BY <1>0 DEF RowsTyped
<1>5. \E row \in Rows : /\ owner' = [owner EXCEPT ![o] = row] /\ row.phase # "paused"
                        /\ row.phase \in {"off", "pending", "sealing", "sealed"} => row.share = Unset
  <2>1. CASE owner' = owner
    <3>1. owner = [owner EXCEPT ![o] = owner[o]]
      BY <1>4
    <3> QED BY <1>0, <1>2, <2>1, <3>1 DEF RowsTyped
  <2>2. CASE owner' = [owner EXCEPT ![o] = Off]
    BY <1>3, <2>2
  <2>3. ASSUME NEW p \in {"complete", "finalizing"}, owner[o].phase = "complete",
               owner' = [owner EXCEPT ![o].phase = p]
        PROVE  <1>5!:
    <3> DEFINE row == [owner[o] EXCEPT !.phase = p]
    <3>1. row \in Rows /\ row.phase = p
      BY <1>0 DEF Rows, Phases
    <3>2. owner' = [owner EXCEPT ![o] = row]
      BY <1>4, <2>3
    <3> HIDE DEF row
    <3> QED BY <3>1, <3>2
  <2>4. ASSUME NEW p \in {"pending", "sealing"}, owner[o].phase = "pending",
               owner' = [owner EXCEPT ![o].phase = p]
        PROVE  <1>5!:
    <3> DEFINE row == [owner[o] EXCEPT !.phase = p]
    <3>1. row \in Rows /\ row.phase = p /\ row.share = owner[o].share
      BY <1>0 DEF Rows, Phases
    <3>2. owner' = [owner EXCEPT ![o] = row]
      BY <1>4, <2>4
    <3>3. owner[o].share = Unset
      BY <1>0, <2>4 DEF RowsTyped
    <3> HIDE DEF row
    <3> QED BY <3>1, <3>2, <3>3
  <2> QED BY <2>1, <2>2, <2>3, <2>4 DEF Poll
<1>6. RowsTyped' /\ \A p \in Owners : owner'[p].phase # "paused"
  BY <1>2, <1>5, OwnerMoves
<1>7. PassOK'
  BY <1>0, <1>6, IdleKeeps DEF Poll
<1> QED BY <1>1, <1>6, <1>7 DEF LoopInv

\* The engines and the checkpoint threads, which move at any time.
LEMMA EngineKeeps ==
  ASSUME LoopInv, NEW o \in Owners, Exit(o) \/ Complete(o)
  PROVE  LoopInv'
<1> DEFINE p == IF Exit(o) THEN "sealed" ELSE "complete"
           row == [owner[o] EXCEPT !.phase = p]
<1>0. LoopTyped /\ RowsTyped /\ PassOK /\ owner[o] \in Rows /\ owner \in [Owners -> Rows]
  BY DEF LoopInv, RowsTyped
<1>1. LoopTyped'
  BY <1>0 DEF LoopTyped, Exit, Complete
<1>2. owner' = [owner EXCEPT ![o] = row]
  <2>1. owner' = [owner EXCEPT ![o].phase = p]
    BY DEF Exit, Complete
  <2> QED BY <1>0, <2>1
<1>3. /\ row \in Rows /\ row.phase = p /\ row.share = owner[o].share /\ row.cap = owner[o].cap
  BY <1>0 DEF Rows, Phases
<1>4. \/ owner[o].phase = "sealing" /\ p = "sealed"
      \/ owner[o].phase = "running" /\ p = "complete"
  BY DEF Exit, Complete
<1>5. p = "sealed" => owner[o].share = Unset
  BY <1>0, <1>4 DEF RowsTyped
<1> HIDE DEF row, p
<1>6. RowsTyped' /\ owner'[o] = row /\ \A q \in Owners : q # o => owner'[q] = owner[q]
  BY <1>2, <1>3, <1>4, <1>5, OwnerMoves
<1>7. /\ pc' = pc /\ pass' = pass /\ limit' = limit
  BY DEF Exit, Complete
<1>8. \A q \in Owners : /\ owner'[q].phase \in {"running", "complete"}
                               <=> owner[q].phase \in {"running", "complete"}
                        /\ owner'[q].phase = "paused" <=> owner[q].phase = "paused"
                        /\ owner'[q].cap = owner[q].cap /\ owner'[q].share = owner[q].share
  BY <1>3, <1>4, <1>6
<1>9. pc = "pass" => \A q \in Shared \ pass'.todo : owner'[q].share = pass.share[q]
  <2> SUFFICES ASSUME pc = "pass" PROVE \A q \in Shared \ pass'.todo : owner'[q].share = pass.share[q]
    OBVIOUS
  <2>1. Shared \subseteq Owners
    <3>1. pass.candidate # 0 => pass.candidate \in Owners
      BY <1>0 DEF PassOK
    <3> QED BY <3>1 DEF Shared, Live
  <2> QED BY <1>0, <1>7, <1>8, <2>1 DEF PassOK
<1>10. PassOK'
  BY <1>0, <1>7, <1>8, <1>9, SharedKeeps
<1> QED BY <1>1, <1>6, <1>10 DEF LoopInv

LEMMA ServeKeeps ==
  ASSUME LoopInv,
         \/ Serve \/ NoDispatch \/ EndPoll \/ \E l \in Limits : Configure(l)
         \/ \E o \in Owners : PauseJob(o)
         \/ \E c \in Caps : LegacyDispatch(c)
  PROVE  LoopInv'
<1>0. LoopTyped /\ RowsTyped /\ PassOK /\ pc # "pass" /\ pc' # "pass" /\ pass' = pass
  BY DEF LoopInv, Serve, NoDispatch, EndPoll, Configure, PauseJob, LegacyDispatch
<1>1. LoopTyped'
  <2>1. CASE \E l \in Limits : Configure(l)
    BY <1>0, <2>1, LimitIs DEF LoopTyped, Configure
  <2>2. CASE ~ \E l \in Limits : Configure(l)
    BY <1>0, <2>2 DEF LoopTyped, Serve, NoDispatch, EndPoll, PauseJob, LegacyDispatch
  <2> QED BY <2>1, <2>2
<1>2. \A p \in Owners : owner[p].phase # "paused"
  BY <1>0, NobodyPaused
<1>3. RowsTyped' /\ \A p \in Owners : owner'[p].phase # "paused"
  <2>1. CASE owner' = owner
    BY <1>0, <1>2, <2>1 DEF RowsTyped
  <2>2. ASSUME NEW o \in Owners, PauseJob(o) PROVE <1>3!:
    <3>1. Stopped({o}) /\ {o} \subseteq Owners
      BY <2>2 DEF PauseJob
    <3> QED BY <1>0, <1>2, <3>1, StoppedIs
  <2>3. ASSUME NEW c \in Caps, LegacyDispatch(c) PROVE <1>3!:
    <3> DEFINE row == [Off EXCEPT !.phase = "running", !.cap = c]
    <3>1. row \in Rows /\ row.phase = "running"
      BY DEF Off, Rows, Phases, Rates
    <3>2. owner' = [owner EXCEPT ![1] = row] /\ 1 \in Owners
      <4>1. 1 \in Owners
        BY OwnersFinite DEF Owners
      <4> QED BY <2>3, <4>1 DEF LegacyDispatch
    <3> HIDE DEF row
    <3>3. RowsTyped' /\ owner'[1] = row /\ \A p \in Owners : p # 1 => owner'[p] = owner[p]
      BY <3>1, <3>2, OwnerMoves
    <3> QED BY <1>2, <3>1, <3>3
  <2> QED BY <2>1, <2>2, <2>3 DEF Serve, NoDispatch, EndPoll, Configure
<1>4. PassOK'
  BY <1>0, <1>3, IdleKeeps
<1> QED BY <1>1, <1>3, <1>4 DEF LoopInv

LEMMA LoopStep == LoopInv /\ [Next]_vars => LoopInv'
<1> SUFFICES ASSUME LoopInv, [Next]_vars PROVE LoopInv'
  OBVIOUS
<1>1. CASE UNCHANGED vars
  <2>1. LoopTyped' /\ RowsTyped'
    BY <1>1 DEF vars, LoopInv, LoopTyped, RowsTyped
  <2>2. PassOK'
    <3>1. PassOK' = PassOK
      BY <1>1 DEF vars, PassOK, Shared, Live, SharesFit, CapsOf, AtMost, Total, Units
    <3> QED BY <3>1 DEF LoopInv
  <2> QED BY <2>1, <2>2 DEF LoopInv
<1>2. CASE Next
  BY <1>2, ServeKeeps, SettingsKeeps, DispatchKeeps, PollKeeps, EngineKeeps, CallsKeep, FailKeeps,
     EndPassKeeps DEF Next, PassStep
<1> QED BY <1>1, <1>2

LEMMA LoopInductive == Spec => []LoopInv
BY InitLoop, LoopStep, PTL DEF Spec

\* For any number of owners, any limits and caps: no allocation gives an engine a share of zero,
\* its shares use the limit up, and they differ only by what caps demand and the remainder.
THEOREM FairAllocation == Spec => []SharesAreFair
<1>1. LoopInv => SharesAreFair
  <2> SUFFICES ASSUME LoopInv, pc = "pass"
               PROVE  /\ \A o \in DOMAIN pass.share : pass.share[o] # 0
                      /\ limit # None =>
                           /\ Total(DOMAIN pass.share, pass.share) <= limit
                           /\ Total(DOMAIN pass.share, pass.share) < limit =>
                                \A o \in DOMAIN pass.share : pass.share[o] = owner[o].cap
                           /\ \A o, p \in DOMAIN pass.share :
                                pass.share[o] + 1 < pass.share[p] => pass.share[o] = owner[o].cap
    BY DEF SharesAreFair, NobodyStarves, FairShares
  <2>1. /\ DOMAIN pass.share = Shared /\ SharesFit(pass.share, CapsOf(owner, Shared), limit)
        /\ \A o \in Shared : pass.share[o] # 0
    BY DEF LoopInv, PassOK
  <2>2. DOMAIN CapsOf(owner, Shared) = Shared /\ \A o \in Shared : CapsOf(owner, Shared)[o] = owner[o].cap
    BY DEF CapsOf
  <2> QED BY <2>1, <2>2 DEF SharesFit
<1> QED BY <1>1, LoopInductive, PTL

-----------------------------------------------------------------------------
(* What the engines were granted.                                          *)

\* The confirmed shares of the running transfers stay within l.
Grants == [o \in Running |-> owner[o].share]
Granted(l) == l = None \/ (/\ \A o \in Running : owner[o].share \in Nat
                           /\ Total(Running, Grants) <= l)

\* Only an engine that runs alone can be without a share (the legacy surface starts it).  What
\* is confirmed is what the engine was told, unless the answer to a call can be lost.
GrantInv ==
  /\ inForce \subseteq Nat \cup {None} /\ \E l \in inForce : Granted(l)
  /\ \A o \in Live : owner[o].share = Unset => Live = {o}
  /\ \A o \in Owners : owner[o].phase \in {"running", "paused"} /\ owner[o].share # Unset
                         => /\ AtMost(owner[o].share, owner[o].cap)
                            /\ ~LostAnswers => owner[o].item = owner[o].share

LEMMA GrantsAre ==
  /\ Running \subseteq Live /\ Running \subseteq Owners /\ Live \subseteq Owners
  /\ \A o \in Running : Grants[o] = owner[o].share
BY DEF Running, Grants, Live

\* Grants that nobody joins and that nobody raises stay within what they were within.
LEMMA GrantsShrink ==
  ASSUME RowsTyped, NEW l \in Nat \cup {None}, Granted(l),
         \A o \in Running' : /\ o \in Running
                             /\ owner[o].share \in Nat =>
                                  owner'[o].share \in Nat /\ owner'[o].share <= owner[o].share
  PROVE  Granted(l)'
<1>1. CASE l = None
  BY <1>1 DEF Granted
<1>2. CASE l # None
  <2>1. /\ \A o \in Running : owner[o].share \in Nat /\ Grants[o] = owner[o].share
        /\ Total(Running, Grants) <= l /\ l \in Nat
    BY <1>2, GrantsAre DEF Granted
  <2>2. \A o \in Running' : Grants'[o] = owner'[o].share
    BY DEF Grants
  <2>3. Running' \subseteq Running /\ Running \subseteq Owners
    BY GrantsAre
  <2>4. /\ \A o \in Running : Grants[o] \in Nat
        /\ \A o \in Running' : Grants'[o] \in Nat /\ Grants'[o] <= Grants[o]
    BY <2>1, <2>2, <2>3
  <2>5. /\ Total(Running', Grants') <= Total(Running, Grants)
        /\ Total(Running', Grants') \in Nat /\ Total(Running, Grants) \in Nat
    <3> DEFINE S == Running'
               g == Grants'
    <3>1. S \subseteq Running /\ \A o \in S : g[o] \in Nat /\ g[o] <= Grants[o]
      BY <2>3, <2>4
    <3> HIDE DEF S, g
    <3>2. Total(S, g) <= Total(Running, Grants) /\ Total(S, g) \in Nat /\ Total(Running, Grants) \in Nat
      BY <2>3, <2>4, <3>1, TotalGrows
    <3> QED BY <3>2 DEF S, g
  <2>6. Total(Running, Grants)' = Total(Running', Grants')
    BY DEF Total, Units
  <2>7. Total(Running, Grants)' <= l
    BY <2>1, <2>5, <2>6
  <2> QED BY <2>1, <2>3, <2>7 DEF Granted
<1> QED BY <1>1, <1>2

\* Grants that are at most the shares of the allocation stay within its limit.
LEMMA GrantsFit ==
  ASSUME LoopInv, pc = "pass", NEW l \in Nat \cup {None}, l = limit, Running' \subseteq Shared,
         l # None => \A o \in Running' : owner'[o].share \in Nat /\ owner'[o].share <= pass.share[o]
  PROVE  Granted(l)'
<1>1. CASE l = None
  BY <1>1 DEF Granted
<1>2. CASE l # None
  <2> DEFINE S == Running'
             g == Grants'
             f == pass.share
  <2>1. Shared \subseteq Owners
    <3>1. pass.candidate # 0 => pass.candidate \in Owners
      BY DEF LoopInv, PassOK
    <3> QED BY <3>1 DEF Shared, Live
  <2>2. /\ \A o \in Shared : f[o] \in Nat
        /\ Total(Shared, f) <= l /\ l \in Nat
    <3>1. DOMAIN CapsOf(owner, Shared) = Shared
      BY DEF CapsOf
    <3>2. SharesFit(f, CapsOf(owner, Shared), limit)
      BY DEF LoopInv, PassOK
    <3> QED BY <1>2, <3>1, <3>2 DEF SharesFit
  <2>3. \A o \in S : g[o] = owner'[o].share
    BY DEF Grants
  <2>4. S \subseteq Shared /\ \A o \in S : g[o] \in Nat /\ g[o] <= f[o]
    BY <1>2, <2>3
  <2> HIDE DEF S, g, f
  <2>5. Total(S, g) <= Total(Shared, f) /\ Total(S, g) \in Nat /\ Total(Shared, f) \in Nat
    BY <2>1, <2>2, <2>4, TotalGrows
  <2>6. Total(S, g) <= l
    BY <2>2, <2>5
  <2>7. Total(Running, Grants)' = Total(S, g)
    BY DEF Total, Units, S, g
  <2>8. \A o \in Running' : owner'[o].share \in Nat
    BY <2>3, <2>4 DEF S
  <2>9. Total(Running, Grants)' <= l
    BY <2>6, <2>7
  <2> QED BY <2>8, <2>9 DEF Granted
<1> QED BY <1>1, <1>2

\* A step that resumes nobody and changes no share keeps the grants.
LEMMA GrantsKeep ==
  ASSUME RowsTyped, GrantInv, inForce \subseteq inForce', inForce' \subseteq Nat \cup {None},
         \A o \in Owners : owner'[o].phase \in {"running", "complete", "paused"} =>
           \/ owner'[o].phase = "paused" /\ owner'[o].share = Unset
           \/ /\ owner'[o].share = owner[o].share /\ owner'[o].cap = owner[o].cap
              /\ ~LostAnswers => owner'[o].item = owner[o].item
              /\ \/ owner'[o].phase = owner[o].phase
                 \/ owner'[o].phase = "complete" /\ owner[o].phase = "running"
  PROVE  GrantInv'
<1>1. PICK l \in inForce : Granted(l)
  BY DEF GrantInv
<1>2. \A o \in Running' : o \in Running /\ owner'[o].share = owner[o].share
  BY DEF Running
<1>3. l \in inForce' /\ l \in Nat \cup {None}
  BY <1>1
<1>4. Granted(l)'
  <2>1. \A o \in Running' : /\ o \in Running
                            /\ owner[o].share \in Nat =>
                                 owner'[o].share \in Nat /\ owner'[o].share <= owner[o].share
    BY <1>2
  <2> QED BY <1>1, <1>3, <2>1, GrantsShrink
<1>5. \A o \in Live' : o \in Live /\ owner'[o].share = owner[o].share
  BY DEF Live
<1>6. \A o \in Live' : owner'[o].share = Unset => Live' = {o}
  <2> SUFFICES ASSUME NEW o \in Live', owner'[o].share = Unset PROVE Live' = {o}
    OBVIOUS
  <2>1. Live = {o}
    BY <1>5 DEF GrantInv
  <2> QED BY <1>5, <2>1
<1>7. \A o \in Owners : owner'[o].phase \in {"running", "paused"} /\ owner'[o].share # Unset
                          => /\ AtMost(owner'[o].share, owner'[o].cap)
                             /\ ~LostAnswers => owner'[o].item = owner'[o].share
  BY DEF GrantInv
<1>8. (\E k \in inForce : Granted(k))'
  BY <1>3, <1>4
<1> QED BY <1>6, <1>7, <1>8 DEF GrantInv, AtMost

\* A share that is confirmed: a lowered one leaves the others what they had, and when the
\* first of the raised ones is told everybody is at most at his new share.
LEMMA ConfirmKeeps ==
  ASSUME LoopInv, GrantInv, SetAllocation
  PROVE  GrantInv'
<1>0. LoopTyped /\ RowsTyped /\ PassOK /\ pc = "pass" /\ pass.todo # {} /\ inForce' = inForce /\ limit \in inForce
  BY DEF LoopInv, LoopTyped, SetAllocation, InPass
<1>1. /\ Shared \subseteq Owners /\ Told \in pass.todo /\ Told \in Shared
      /\ Share \in Rates /\ Share # 0
      /\ Raised(Told) => \A o \in pass.todo : Raised(o)
  BY <1>0, ToldIs
<1> DEFINE new == IF owner[Told].phase = "complete" THEN owner[Told].item ELSE Share
<1>2. owner' = [owner EXCEPT ![Told].share = Share, ![Told].item = new]
  BY DEF SetAllocation
<1>3. /\ \A o \in Owners : /\ owner'[o].phase = owner[o].phase /\ owner'[o].cap = owner[o].cap
                           /\ o # Told => owner'[o].share = owner[o].share /\ owner'[o].item = owner[o].item
      /\ owner'[Told].share = Share
      /\ owner[Told].phase # "complete" => owner'[Told].item = Share
  BY <1>0, <1>1, <1>2 DEF RowsTyped, Rows
<1>4. Live' = Live /\ Running \subseteq Running' /\ Running' \subseteq Running \cup {Told}
      /\ Running' \subseteq Live /\ Live \subseteq Shared
  <2>1. Share # Unset
    BY <1>1, OwnersFinite DEF Rates
  <2> QED BY <1>1, <1>3, <2>1 DEF Live, Running, Shared
<1>5. /\ DOMAIN CapsOf(owner, Shared) = Shared
      /\ SharesFit(pass.share, CapsOf(owner, Shared), limit)
      /\ \A o \in Shared : CapsOf(owner, Shared)[o] = owner[o].cap
  BY <1>0 DEF CapsOf, PassOK
<1>6. limit # None => \A o \in Shared : pass.share[o] \in Nat
  BY <1>5 DEF SharesFit
<1>7. \A o \in Live' : owner'[o].share = Unset => Live' = {o}
  <2>1. Share # Unset
    BY <1>1, OwnersFinite DEF Rates
  <2> QED BY <1>0, <1>1, <1>3, <1>4, <2>1 DEF GrantInv, Live
<1>8. \A o \in Owners : owner'[o].phase \in {"running", "paused"} /\ owner'[o].share # Unset
                          => /\ AtMost(owner'[o].share, owner'[o].cap)
                             /\ ~LostAnswers => owner'[o].item = owner'[o].share
  <2>1. AtMost(Share, owner[Told].cap)
    BY <1>1, <1>5 DEF SharesFit, Share
  <2> QED BY <1>1, <1>3, <2>1 DEF GrantInv
<1>9. limit \in Nat \cup {None}
  BY <1>0, LimitIs
<1>10. \E l \in inForce' : Granted(l)'
  <2>1. CASE Raised(Told)
    <3>1. ASSUME limit # None, NEW o \in Running'
          PROVE  owner'[o].share \in Nat /\ owner'[o].share <= pass.share[o]
      <4>1. o \in Shared /\ pass.share[o] \in Nat
        BY <1>4, <1>6, <3>1
      <4>2. CASE o = Told
        BY <1>3, <4>1, <4>2 DEF Share
      <4>3. CASE o # Told /\ o \in pass.todo
        <5>1. Raised(o) /\ pass.share[o] # None
          BY <1>1, <2>1, <4>1, <4>3, OwnersFinite
        <5>2. owner[o].share \notin {Unset, None} /\ pass.share[o] > owner[o].share
          BY <5>1 DEF Raised
        <5>3. owner[o].share \in Nat
          BY <1>0, <1>1, <4>1, <5>2 DEF RowsTyped, Rows, Rates
        <5> QED BY <1>1, <1>3, <4>1, <4>3, <5>2, <5>3
      <4>4. CASE o # Told /\ o \notin pass.todo
        <5>1. owner[o].share = pass.share[o]
          BY <1>0, <4>1, <4>4 DEF PassOK
        <5> QED BY <1>1, <1>3, <4>1, <4>4, <5>1
      <4> QED BY <4>2, <4>3, <4>4
    <3>2. Running' \subseteq Shared
      BY <1>4
    <3>3. ASSUME NEW l, l = limit PROVE Granted(l)'
      BY <1>0, <1>9, <3>1, <3>2, <3>3, GrantsFit
    <3> QED BY <1>0, <3>3
  <2>2. CASE ~Raised(Told)
    <3>0. PICK l \in inForce : Granted(l)
      BY DEF GrantInv
    <3>1. l \in Nat \cup {None} /\ l \in inForce'
      BY <1>0, <3>0 DEF GrantInv
    <3>2. Share \in Nat
      BY <1>1, <2>2 DEF Raised, Rates, Share
    <3>3. CASE owner[Told].share \in Nat \/ Told \notin Running' \/ (Told \in Running /\ owner[Told].share = None)
      <4>1. CASE l # None
        <5>1. ASSUME NEW o \in Running'
              PROVE  /\ o \in Running
                     /\ owner[o].share \in Nat => owner'[o].share \in Nat /\ owner'[o].share <= owner[o].share
          <6>1. CASE o # Told
            BY <1>1, <1>3, <1>4, <6>1
          <6>2. CASE o = Told
            <7>1. owner[o].share \in Nat /\ o \in Running
              <8>1. Told \in Running => owner[Told].share \in Nat
                BY <3>0, <4>1 DEF Granted
              <8>2. owner[Told].share \in Nat
                BY <3>3, <6>2, <8>1, OwnersFinite
              <8> QED BY <1>1, <1>3, <6>2, <8>2, OwnersFinite DEF Running
            <7>2. pass.share[o] <= owner[o].share
              <8>1. owner[o].share \notin {Unset, None}
                BY <7>1, OwnersFinite
              <8> QED BY <2>2, <3>2, <6>2, <7>1, <8>1 DEF Raised, Share
            <7> QED BY <1>3, <3>2, <6>2, <7>1, <7>2 DEF Share
          <6> QED BY <6>1, <6>2
        <5>2. \A o \in Running' : /\ o \in Running
                                  /\ owner[o].share \in Nat =>
                                       owner'[o].share \in Nat /\ owner'[o].share <= owner[o].share
          BY <5>1
        <5>3. Granted(l)'
          BY <1>0, <3>0, <3>1, <5>2, GrantsShrink
        <5> QED BY <3>1, <5>3
      <4>3. CASE l = None
        <5>1. Granted(l)'
          BY <4>3 DEF Granted
        <5> QED BY <3>1, <5>1
      <4> QED BY <4>1, <4>3
    <3>4. CASE owner[Told].share = Unset /\ Told \in Running'
      <4>1. Told \in Live /\ Live = {Told} /\ Running' = {Told}
        BY <1>4, <3>4 DEF GrantInv
      <4>2. ASSUME limit # None, NEW o \in Running'
            PROVE  owner'[o].share \in Nat /\ owner'[o].share <= pass.share[o]
        BY <1>3, <3>2, <4>1, <4>2 DEF Share
      <4>3. ASSUME NEW k, k = limit PROVE Granted(k)'
        BY <1>0, <1>1, <1>9, <4>1, <4>2, <4>3, GrantsFit
      <4> QED BY <1>0, <4>3
    <3>5. \/ owner[Told].share \in Nat \/ Told \notin Running'
          \/ Told \in Running /\ owner[Told].share = None
          \/ owner[Told].share = Unset /\ Told \in Running'
      <4>1. owner[Told].share \in Nat \cup {None, Unset}
        BY <1>0, <1>1 DEF RowsTyped, Rows, Rates
      <4>2. Told \in Running' /\ owner[Told].share # Unset => Told \in Running
        BY <1>1, <1>3 DEF Running
      <4> QED BY <4>1, <4>2
    <3> QED BY <3>3, <3>4, <3>5
  <2> QED BY <2>1, <2>2
<1>11. (\E l \in inForce : Granted(l))'
  BY <1>10
<1> QED BY <1>0, <1>7, <1>8, <1>11 DEF GrantInv, AtMost

\* The allocation ends: everybody who runs has his share of it.
LEMMA EndPassGrants ==
  ASSUME LoopInv, GrantInv, EndPass
  PROVE  GrantInv'
<1>0. LoopTyped /\ RowsTyped /\ PassOK /\ pc = "pass" /\ pass.todo = {} /\ inForce' = {limit}
  BY DEF LoopInv, EndPass
<1>1. limit \in Nat \cup {None}
  BY <1>0, LimitIs
<1>2. /\ \A o \in Shared : owner[o].share = pass.share[o]
      /\ DOMAIN CapsOf(owner, Shared) = Shared /\ SharesFit(pass.share, CapsOf(owner, Shared), limit)
  BY <1>0 DEF PassOK, CapsOf
<1>3. /\ \A o \in Shared : owner[o].share \in Nat \cup {None}
      /\ limit # None => \A o \in Shared : owner[o].share \in Nat
  BY <1>2 DEF SharesFit
<1>4. /\ \A o \in Owners : /\ owner'[o].share = owner[o].share /\ owner'[o].cap = owner[o].cap
                           /\ owner'[o].item = owner[o].item
      /\ \A o \in Owners : \/ owner'[o].phase = owner[o].phase
                          \/ /\ owner'[o].phase = "running" /\ owner[o].phase = "paused"
                             /\ o = pass.candidate /\ pass.candidate # 0
  <2>1. CASE pass.candidate = 0
    BY <2>1 DEF EndPass
  <2>2. CASE pass.candidate # 0
    <3>1. pass.candidate \in Owners /\ owner[pass.candidate] \in Rows /\ owner[pass.candidate].phase = "paused"
      BY <1>0, <2>2 DEF PassOK, RowsTyped
    <3>2. owner' = [owner EXCEPT ![pass.candidate].phase = "running"]
      BY <2>2 DEF EndPass
    <3> QED BY <1>0, <2>2, <3>1, <3>2 DEF RowsTyped, Rows
  <2> QED BY <2>1, <2>2
<1>5. Live' \subseteq Shared /\ Running' \subseteq Live' /\ Live' \subseteq Owners
  BY <1>4 DEF Live, Shared, Running
<1>6. \A o \in Live' : owner'[o].share # Unset
  BY <1>3, <1>4, <1>5, OwnersFinite
<1>7. ASSUME NEW l, l = limit PROVE Granted(l)'
  <2>1. limit # None => \A o \in Running' : owner'[o].share \in Nat /\ owner'[o].share <= pass.share[o]
    BY <1>2, <1>3, <1>4, <1>5
  <2>2. Running' \subseteq Shared
    BY <1>5
  <2> QED BY <1>0, <1>1, <1>7, <2>1, <2>2, GrantsFit
<1>8. (\E l \in inForce : Granted(l))'
  BY <1>0, <1>7
<1>9. \A o \in Owners : owner'[o].phase \in {"running", "paused"} /\ owner'[o].share # Unset
                          => /\ AtMost(owner'[o].share, owner'[o].cap)
                             /\ ~LostAnswers => owner'[o].item = owner'[o].share
  BY <1>4 DEF GrantInv
<1> QED BY <1>0, <1>1, <1>6, <1>8, <1>9 DEF GrantInv, AtMost

\* The legacy surface starts a transfer only when there is no other.
LEMMA LegacyGrants ==
  ASSUME LoopInv, GrantInv, NEW cap \in Caps, LegacyDispatch(cap)
  PROVE  GrantInv'
<1>0. LoopTyped /\ RowsTyped /\ inForce' = inForce /\ \A o \in Owners : owner[o].phase = "off"
  BY DEF LoopInv, LegacyDispatch
<1> DEFINE row == [Off EXCEPT !.phase = "running", !.cap = cap]
<1>1. row.phase = "running" /\ row.share = Unset
  BY DEF Off
<1>2. owner' = [owner EXCEPT ![1] = row] /\ 1 \in Owners /\ owner \in [Owners -> Rows]
  BY <1>0, OwnersFinite DEF LegacyDispatch, Owners, RowsTyped
<1> HIDE DEF row
<1>3. /\ owner'[1].phase = "running" /\ owner'[1].share = Unset
      /\ \A o \in Owners : o # 1 => owner'[o].phase = "off"
  BY <1>0, <1>1, <1>2
<1>4. Running' = {} /\ Live' \subseteq {1} /\ Running' \subseteq Owners
  BY <1>3 DEF Running, Live
<1>5. PICK l \in inForce : Granted(l)
  BY DEF GrantInv
<1>6. l \in Nat \cup {None} /\ l \in inForce'
  BY <1>0, <1>5 DEF GrantInv
<1>7. Granted(l)'
  <2>1. \A o \in Running' : /\ o \in Running
                            /\ owner[o].share \in Nat =>
                                 owner'[o].share \in Nat /\ owner'[o].share <= owner[o].share
    BY <1>4
  <2> QED BY <1>0, <1>5, <1>6, <2>1, GrantsShrink
<1>8. (\E k \in inForce : Granted(k))'
  BY <1>6, <1>7
<1>9. \A o \in Live' : Live' = {o}
  BY <1>4
<1>10. \A o \in Owners : owner'[o].phase \in {"running", "paused"} => owner'[o].share = Unset
  BY <1>3
<1> QED BY <1>0, <1>8, <1>9, <1>10 DEF GrantInv, AtMost

\* The other steps resume nobody and raise no share.
LEMMA OtherGrants ==
  ASSUME LoopInv, GrantInv,
         \/ Serve \/ Settings \/ NoDispatch \/ EndPoll \/ Skip \/ SetGlobalLimit \/ CallFails
         \/ \E l \in Limits : Configure(l)
         \/ \E c \in Caps : Dispatch(c)
         \/ \E o \in Owners : PauseJob(o) \/ Poll(o) \/ Complete(o) \/ Exit(o)
  PROVE  GrantInv'
<1>0. LoopTyped /\ RowsTyped /\ PassOK /\ owner \in [Owners -> Rows]
  BY DEF LoopInv, RowsTyped
<1>1. inForce \subseteq inForce' /\ inForce' \subseteq Nat \cup {None}
  <2>1. CASE \E l \in Limits : Configure(l)
    BY <2>1, BandwidthAssumption DEF Configure, GrantInv
  <2>2. CASE ~ \E l \in Limits : Configure(l)
    BY <2>2 DEF GrantInv, Serve, Settings, NoDispatch, EndPoll, Skip, SetGlobalLimit, CallFails, Fail, InPass,
       Dispatch, PauseJob, Poll, Complete, Exit
  <2> QED BY <2>1, <2>2
<1> DEFINE Kept(o) == owner'[o].phase \in {"running", "complete", "paused"} =>
           \/ owner'[o].phase = "paused" /\ owner'[o].share = Unset
           \/ /\ owner'[o].share = owner[o].share /\ owner'[o].cap = owner[o].cap
              /\ ~LostAnswers => owner'[o].item = owner[o].item
              /\ \/ owner'[o].phase = owner[o].phase
                 \/ owner'[o].phase = "complete" /\ owner[o].phase = "running"
<1>2. CASE owner' = owner
  BY <1>0, <1>1, <1>2, GrantsKeep
<1>3. CASE \E S \in SUBSET Owners : Stopped(S)
  <2>1. \A o \in Owners : Kept(o)
    BY <1>0, <1>3, StoppedIs
  <2> QED BY <1>0, <1>1, <2>1, GrantsKeep
<1>4. CASE SetGlobalLimit
  <2>1. pc = "pass" /\ pass.todo # {} /\ owner' = [owner EXCEPT ![Told].overall = Share]
    BY <1>4 DEF SetGlobalLimit, InPass
  <2>2. Told \in Owners
    BY <1>0, <2>1, ToldIs
  <2>3. \A o \in Owners : Kept(o)
    BY <1>0, <2>1, <2>2 DEF Rows
  <2> QED BY <1>0, <1>1, <2>3, GrantsKeep
<1>5. CASE CallFails
  <2>1. pc = "pass" /\ pass.todo # {} /\ Told \in Owners
    BY <1>0, <1>5, ToldIs DEF CallFails
  <2> DEFINE item == [owner EXCEPT ![Told].item = Share]
             overall == [owner EXCEPT ![Told].overall = Share]
             Like(ow) == /\ \A o \in Owners : /\ ow[o].phase = owner[o].phase /\ ow[o].share = owner[o].share
                                              /\ ow[o].cap = owner[o].cap
                                              /\ ~LostAnswers => ow[o].item = owner[o].item
                         /\ DOMAIN ow = Owners
  <2>2. PICK ow : Fail(ow) /\ Like(ow)
    <3>1. Like(owner) /\ Like(overall) /\ (LostAnswers => Like(item))
      BY <1>0, <2>1 DEF Rows
    <3>2. Fail(owner) \/ (LostAnswers /\ Fail(item)) \/ Fail(overall)
      BY <1>5 DEF CallFails
    <3> HIDE DEF item, overall, Like
    <3> QED BY <3>1, <3>2
  <2>3. owner' = [o \in Owners |-> Off] \/ owner' = [ow EXCEPT ![pass.candidate] = Off]
    BY <2>2 DEF Fail
  <2>4. Off.phase = "off"
    BY DEF Off
  <2>5. \A o \in Owners : Kept(o)
    BY <2>2, <2>3, <2>4
  <2> HIDE DEF Like
  <2> QED BY <1>0, <1>1, <2>5, GrantsKeep
<1>6. ASSUME NEW c \in Caps, Dispatch(c) PROVE GrantInv'
  <2> DEFINE idle == {o \in Owners : owner[o].phase = "off"}
             new == Min(idle)
             row == [Off EXCEPT !.phase = "paused", !.cap = c]
  <2>1. owner' = [owner EXCEPT ![new] = row]
    BY <1>6 DEF Dispatch, Begin
  <2>2. row.phase = "paused" /\ row.share = Unset
    BY DEF Off
  <2> HIDE DEF new, row
  <2>3. \A o \in Owners : Kept(o)
    BY <1>0, <2>1, <2>2
  <2> QED BY <1>0, <1>1, <2>3, GrantsKeep
<1>7. ASSUME NEW o \in Owners, Poll(o) \/ Complete(o) \/ Exit(o) PROVE GrantInv'
  <2>1. \A p \in Owners : Kept(p)
    <3>1. CASE owner' = [owner EXCEPT ![o] = Off]
      BY <1>0, <3>1 DEF Off
    <3>2. ASSUME NEW ph \in {"complete", "finalizing", "pending", "sealing", "sealed"},
                 owner' = [owner EXCEPT ![o].phase = ph],
                 ph = "complete" => owner[o].phase \in {"running", "complete"}
          PROVE  \A p \in Owners : Kept(p)
      BY <1>0, <3>2 DEF Rows
    <3>3. CASE Poll(o)
      BY <3>1, <3>2, <3>3 DEF Poll
    <3>4. CASE Complete(o)
      BY <3>2, <3>4 DEF Complete
    <3>5. CASE Exit(o)
      BY <3>2, <3>5 DEF Exit
    <3> QED BY <1>7, <3>3, <3>4, <3>5
  <2> QED BY <1>0, <1>1, <2>1, GrantsKeep
<1>8. ASSUME NEW o \in Owners, PauseJob(o) PROVE \E S \in SUBSET Owners : Stopped(S)
  <2>1. Stopped({o}) /\ {o} \in SUBSET Owners
    BY <1>8 DEF PauseJob
  <2> QED BY <2>1
<1>9. ASSUME Settings PROVE (owner' = owner) \/ \E S \in SUBSET Owners : Stopped(S)
  <2>1. Excess \in SUBSET Owners
    BY DEF Excess, Active
  <2> QED BY <1>9, <2>1 DEF Settings, Begin
<1> QED BY <1>2, <1>3, <1>4, <1>5, <1>6, <1>7, <1>8, <1>9
      DEF Serve, NoDispatch, EndPoll, Skip, Configure

LEMMA GrantStep == LoopInv /\ GrantInv /\ [Next]_vars => GrantInv'
<1> SUFFICES ASSUME LoopInv, GrantInv, [Next]_vars PROVE GrantInv'
  OBVIOUS
<1>1. CASE UNCHANGED vars
  <2>1. RowsTyped /\ inForce' = inForce /\ owner' = owner /\ inForce \subseteq Nat \cup {None}
    BY <1>1 DEF vars, LoopInv, GrantInv
  <2> QED BY <2>1, GrantsKeep
<1>2. CASE Next
  BY <1>2, ConfirmKeeps, EndPassGrants, LegacyGrants, OtherGrants DEF Next, PassStep
<1> QED BY <1>1, <1>2

LEMMA InitGrants == Init => GrantInv
<1> SUFFICES ASSUME Init PROVE GrantInv
  OBVIOUS
<1>1. \A o \in Owners : owner[o].phase = "off"
  BY DEF Init, Off
<1>2. Live = {} /\ Running = {}
  BY <1>1 DEF Live, Running
<1> QED BY <1>1, <1>2 DEF Init, GrantInv, Granted

LEMMA GrantInductive == Spec => [](LoopInv /\ GrantInv)
<1>1. Init => LoopInv /\ GrantInv
  BY InitLoop, InitGrants
<1>2. LoopInv /\ GrantInv /\ [Next]_vars => (LoopInv /\ GrantInv)'
  BY LoopStep, GrantStep
<1> QED BY <1>1, <1>2, PTL DEF Spec

\* An engine obeys no more than its confirmed share.
LEMMA RateAtMost ==
  ASSUME LoopInv, GrantInv, ~LostAnswers, NEW o \in Running
  PROVE  /\ owner[o].share \in Nat => Rate(o) \in Nat /\ Rate(o) <= owner[o].share
         /\ AtMost(Rate(o), owner[o].cap)
<1>1. owner[o] \in Rows /\ o \in Owners /\ owner[o].phase = "running" /\ owner[o].share # Unset
  BY DEF LoopInv, RowsTyped, Running
<1>2. /\ owner[o].item = owner[o].share /\ AtMost(owner[o].share, owner[o].cap)
  BY <1>1 DEF GrantInv
<1>3. /\ owner[o].share \in Nat \cup {None} /\ owner[o].overall \in Nat \cup {None}
      /\ owner[o].cap \in Nat \cup {None} /\ None \notin Nat
  BY <1>1, BandwidthAssumption DEF Rows, Rates
<1>4. owner[o].share \in Nat => Rate(o) \in Nat /\ Rate(o) <= owner[o].share
  BY <1>2, <1>3 DEF Rate
<1>5. AtMost(Rate(o), owner[o].cap)
  <2> SUFFICES ASSUME owner[o].cap # None PROVE Rate(o) # None /\ Rate(o) <= owner[o].cap
    BY DEF AtMost
  <2>1. owner[o].share \in Nat /\ owner[o].share <= owner[o].cap /\ owner[o].cap \in Nat
    BY <1>2, <1>3 DEF AtMost
  <2> QED BY <1>3, <1>4, <2>1
<1> QED BY <1>4, <1>5

LEMMA LoopTypeOK ==
  ASSUME LoopInv
  PROVE  BandwidthTypeOK
<1>1. \A o \in Owners : /\ owner[o].phase \in Phases
                        /\ {owner[o].overall, owner[o].item} \subseteq Rates
                        /\ owner[o].share \in Rates \cup {Unset}
  BY DEF LoopInv, RowsTyped, Rows
<1> QED BY <1>1 DEF LoopInv, LoopTyped, RowsTyped, PassOK, Phases, BandwidthTypeOK

\* For any number of owners, any limits and caps, and any failures of calls: if a call that
\* failed had no effect, then at every call of every allocation, completed or broken off, the
\* engines together obey a limit desired since the last completed one, and each its job's own.
THEOREM RatesAreHeld == ASSUME ~LostAnswers PROVE Spec => []RatesHold
<1>1. LoopInv /\ GrantInv => RatesHold
  <2> SUFFICES ASSUME LoopInv, GrantInv PROVE RatesHold
    OBVIOUS
  <2>1. \A o \in Running : /\ owner[o].share \in Nat => Rate(o) \in Nat /\ Rate(o) <= owner[o].share
                           /\ AtMost(Rate(o), owner[o].cap)
    BY RateAtMost
  <2>2. PICK l \in inForce : Granted(l)
    BY DEF GrantInv
  <2>3. ASSUME l = None PROVE Within(l)
    BY <2>3 DEF Within
  <2>4. ASSUME l # None PROVE Within(l)
    <3> DEFINE f == [o \in Running |-> Rate(o)]
    <3>1. l \in Nat
      BY <2>4 DEF GrantInv
    <3>2. /\ \A o \in Running : owner[o].share \in Nat /\ Grants[o] = owner[o].share
          /\ Total(Running, Grants) <= l /\ Running \subseteq Owners
      BY <2>2, <2>4, GrantsAre DEF Granted
    <3>3. /\ \A o \in Running : Grants[o] \in Nat
          /\ \A o \in Running : f[o] \in Nat /\ f[o] <= Grants[o]
      BY <2>1, <3>2
    <3>4. None \notin {Rate(o) : o \in Running}
      BY <2>1, <3>2, OwnersFinite
    <3> HIDE DEF f
    <3>5. Total(Running, f) <= Total(Running, Grants) /\ Total(Running, f) \in Nat /\ Total(Running, Grants) \in Nat
      BY <3>2, <3>3, TotalGrows
    <3>6. Total(Running, f) <= l
      BY <3>1, <3>2, <3>5
    <3> QED BY <3>4, <3>6 DEF Within, f
  <2>5. BandwidthTypeOK
    BY LoopTypeOK
  <2>6. Within(l) /\ l \in inForce
    BY <2>2, <2>3, <2>4
  <2> QED BY <2>1, <2>5, <2>6 DEF RatesHold, CapHolds, WithinLimits
<1> QED BY <1>1, GrantInductive, PTL
====
