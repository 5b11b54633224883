----------------------------- MODULE RetryBudget -----------------------------
(***************************************************************************)
(* The retry authority of one direct job: the audited budget of retry.py   *)
(* together with the store transactions that consult and replace it - the  *)
(* typed failure of a body, the automatic retry once it is due, the pause  *)
(* of a cold start and the operator's resume and explicit retry.           *)
(*                                                                         *)
(* Revisions are compared for equality only, so each captured revision is  *)
(* kept as a Boolean: "is it still the job's own".  Time is counted in     *)
(* ticks left until the persisted due time.  Definitions ending in _Faulty  *)
(* or _Forgets are plausible mistakes that some property must refute.       *)
(***************************************************************************)
EXTENDS Integers, Sequences, FiniteSets

CONSTANTS
  MaxOrdinaryAttempts,  \* _MAX_ORDINARY_ATTEMPTS: failed attempts in one budget
  AuditCapacity,        \* _MAX_RETRY_AUDIT_EVENTS: events one audit can hold
  BaseDelay, MaxDelay,  \* RetryPolicy.base_delay_seconds, max_delay_seconds
  JitterDivisor,        \* 1 / RetryPolicy.max_jitter_fraction
  RetryAfters,          \* the Retry-After values a host may send, 0 for none
  MaxGeneration         \* bound: generations one job may go through

ASSUME RetryConstants ==
  /\ MaxOrdinaryAttempts \in Nat \ {0}
  /\ AuditCapacity \in Nat \ {0}
  /\ BaseDelay \in Nat \ {0} /\ MaxDelay \in Nat /\ BaseDelay <= MaxDelay
  /\ JitterDivisor \in Nat \ {0}
  /\ RetryAfters \subseteq Nat
  /\ MaxGeneration \in Nat

VARIABLES
  job,      \* jobs row: [generation, state]
  gate,     \* settings.queue_gate
  budget,   \* job_retry row
  audit,    \* job_retry_audit rows, in order of audit_index
  failure,  \* the latest body's direct_failures row and whether it is current
  wait,     \* ticks until the failure's retry_due_ms
  body,     \* the running body's terminal plan: does it still own the job
  bodies,   \* bodies admitted so far (admission serial), 2 for any more
  saved,    \* a saved checkpoint of the latest body's partial exists
  reopen,   \* a direct_retry_reopens row that still waits for its resume
  \* History, read by properties only.
  floor,    \* ticks until the failure's backoff and Retry-After are over
  retries,  \* automatic retries since the budget was opened
  consents, \* explicit retries the operator asked for
  refused   \* a cold start was rolled back

retryVars == <<job, gate, budget, audit, failure, wait, body, bodies, saved, reopen,
               floor, retries, consents, refused>>

States == {"queued", "downloading", "retry_wait", "needs_auth", "needs_link",
           "blocked", "paused"}
RetryActions == {"none", "retry_wait", "needs_auth", "needs_link",
                 "needs_decision", "blocked", "exhausted", "paused"}
AuditKinds == {"opened", "retry_scheduled", "exhausted", "paused", "fenced",
               "explicit_resume", "ordinary_reopen"}

BudgetRow == [generation: Nat, number: Nat, attempts: Nat,
              paused: BOOLEAN, exhausted: BOOLEAN]
AuditRow == [kind: AuditKinds, generation: Nat, number: Nat, attempts: Nat]
FailureRow == [action: RetryActions, epochCurrent: BOOLEAN, current: BOOLEAN]

HasBudget == audit # <<>>
NoBudget == [generation |-> 0, number |-> 0, attempts |-> 0,
             paused |-> FALSE, exhausted |-> FALSE]
NoFailure == [action |-> "none", epochCurrent |-> FALSE, current |-> FALSE]
Opening(generation) == [NoBudget EXCEPT !.generation = generation, !.number = 1]

-----------------------------------------------------------------------------
(* retry.py: classification, backoff and the transitions of the budget.    *)

\* An HTTP status the engine observed, 0 when it observed none, and its exit code.
Observations == {401, 403, 404, 400, 429, 503} \X {22} \cup {0} \X {9, 2, 13, 8}

StatusKind(status) ==
  CASE status \in {401, 407} -> "auth_needed"
    [] status = 403 -> "forbidden"
    [] status \in {404, 410} -> "link_needed"
    [] status \in {408, 425, 429} \cup 500..599 -> "transient_host"
    [] OTHER -> "permanent_host"

FailureKind(status, code) ==
  CASE status >= 400 -> StatusKind(status)
    [] status < 400 /\ code = 9 -> "disk_full"
    [] status < 400 /\ code \in {2, 5, 6, 19, 29} -> "transient_host"
    [] status < 400 /\ code \in (10..18 \cup {20, 21, 23, 25, 26, 27, 28, 30, 31}) -> "permanent_host"
    [] OTHER -> "forbidden"

\* Doubling from BaseDelay to MaxDelay.
Backoff(attempt) ==
  LET doubled == BaseDelay * 2^(attempt - 1)
  IN  IF doubled < MaxDelay THEN doubled ELSE MaxDelay

\* A Retry-After lengthens the delay, past MaxDelay too; jitter never does.
Delay_Faulty(attempt, retryAfter, jitter) ==  \* Retry-After capped as well
  IF retryAfter + jitter < MaxDelay THEN retryAfter + jitter ELSE MaxDelay

Delay(attempt, retryAfter, jitter) ==
  LET requested == IF Backoff(attempt) + jitter < MaxDelay
                   THEN Backoff(attempt) + jitter ELSE MaxDelay
  IN  IF retryAfter > requested THEN retryAfter ELSE requested

Event(kind, b) == [kind |-> kind, generation |-> b.generation,
                   number |-> b.number, attempts |-> b.attempts]

\* _transition_budget: every change is one audit event, and a full audit refuses.
CanRecord(log) == Len(log) < AuditCapacity

Recorded(log, kind, b) ==
  /\ budget' = b
  /\ audit' = Append(log, Event(kind, b))

DirectAction(kind) ==
  CASE kind = "auth_needed" -> "needs_auth"
    [] kind = "link_needed" -> "needs_link"
    [] kind = "forbidden" -> "needs_decision"
    [] OTHER -> "blocked"

Attempted(b) == [b EXCEPT !.attempts = @ + 1,
                          !.exhausted = b.attempts + 1 >= MaxOrdinaryAttempts]

\* RetryAuthority.decide for a failure of this kind: the action it returns, and
\* the budget that becomes current.
Decide(b, log, kind, action) ==
  \/ /\ b.paused \/ b.exhausted \/ kind # "transient_host"
     /\ action = IF b.paused THEN "paused" ELSE
                 IF b.exhausted THEN "exhausted" ELSE DirectAction(kind)
     /\ budget' = b /\ audit' = log
  \/ /\ ~b.paused /\ ~b.exhausted /\ kind = "transient_host"
     /\ CanRecord(log)
     /\ action = IF Attempted(b).exhausted THEN "exhausted" ELSE "retry_wait"
     /\ Recorded(log, IF Attempted(b).exhausted THEN "exhausted" ELSE "retry_scheduled",
                 Attempted(b))

Fenced(b, generation) == [b EXCEPT !.generation = generation, !.paused = TRUE]
Reopened(b) == [b EXCEPT !.paused = FALSE]
NextBudget(b, generation) ==
  [generation |-> generation, number |-> b.number + 1, attempts |-> 0,
   paused |-> FALSE, exhausted |-> FALSE]

-----------------------------------------------------------------------------
RetryInit ==
  /\ job = [generation |-> 0, state |-> "queued"]
  /\ gate = "paused"
  /\ budget = NoBudget /\ audit = <<>>
  /\ failure = NoFailure /\ wait = 0
  /\ body = "none" /\ bodies = 0 /\ saved = FALSE
  /\ reopen = "none"
  /\ floor = 0 /\ retries = 0 /\ consents = 0 /\ refused = FALSE

\* What one captured revision becomes when the job moves to another.
Stale(fence) == IF fence = "none" THEN "none" ELSE "stale"

\* A revision of the job that nobody captured yet: every captured one is stale.
Superseded ==
  /\ failure' = [failure EXCEPT !.current = FALSE]
  /\ body' = Stale(body)
  /\ reopen' = Stale(reopen)

\* _read_retry_budget refuses a budget of another generation than the job's.
Readable == HasBudget => budget.generation = job.generation

Tick ==
  /\ wait > 0 \/ floor > 0
  /\ wait' = IF wait > 0 THEN wait - 1 ELSE 0
  /\ floor' = IF floor > 0 THEN floor - 1 ELSE 0
  /\ UNCHANGED <<job, gate, budget, audit, failure, body, saved, reopen,
                 retries, consents, refused, bodies>>

SetQueueGate(value) ==
  /\ gate # value
  /\ gate' = value
  /\ UNCHANGED <<job, budget, audit, failure, wait, body, bodies, saved, reopen, floor,
                 retries, consents, refused>>

\* Admission of a queued job's body: the retry that is not due yet holds it back.
StartBody ==
  /\ job.state = "queued" /\ gate = "running"
  /\ body = "none"
  /\ wait = 0
  /\ job' = [job EXCEPT !.state = "downloading"]
  /\ failure' = NoFailure
  /\ body' = "owner" /\ saved' = FALSE
  /\ bodies' = IF bodies = 0 THEN 1 ELSE 2
  /\ reopen' = Stale(reopen)
  /\ UNCHANGED <<gate, budget, audit, wait, floor, retries, consents, refused>>

\* The state a failure leaves; a resumed body whose partial the host cannot
\* continue (exit code 8) is paused for a decision.
FailureState(action, code) ==
  CASE action \in {"retry_wait", "needs_auth", "needs_link"} -> action
    [] action = "needs_decision" /\ code = 8 /\ bodies > 1 -> "paused"
    [] OTHER -> "blocked"

\* fail_direct_terminal: one transaction decides, moves the job, keeps the typed
\* failure with its due time and replaces the budget.
FailingBudget_Faulty ==  \* each failed body opens a budget of its own
  <<Opening(job.generation), <<Event("opened", Opening(job.generation))>>>>

FailingBudget ==
  IF HasBudget THEN <<budget, audit>>
  ELSE <<Opening(job.generation), <<Event("opened", Opening(job.generation))>>>>

FailBody(status, code, retryAfter, jitter, action) ==
  LET b   == FailingBudget[1]
      log == FailingBudget[2]
  IN  /\ body = "owner" /\ job.state = "downloading"
      /\ Readable
      /\ retryAfter = 0 \/ StatusKind(status) = "transient_host"
      /\ jitter <= Backoff(b.attempts + 1) \div JitterDivisor
      /\ Decide(b, log, FailureKind(status, code), action)
      /\ job' = [job EXCEPT !.state = FailureState(action, code)]
      /\ failure' = [action |-> action, epochCurrent |-> TRUE, current |-> TRUE]
      /\ wait' = IF action = "retry_wait"
                 THEN Delay(b.attempts + 1, retryAfter, jitter) ELSE 0
      /\ floor' = IF action # "retry_wait" THEN 0 ELSE
                  IF retryAfter > Backoff(b.attempts + 1) THEN retryAfter
                  ELSE Backoff(b.attempts + 1)
      /\ body' = "none"
      /\ saved' \in BOOLEAN
      /\ UNCHANGED <<gate, reopen, retries, consents, refused, bodies>>

DueRetry_Faulty(outcome) ==  \* a partial that no longer qualifies is skipped
  /\ job.state = "retry_wait" /\ outcome = "queued" /\ saved
  /\ failure.current /\ failure.epochCurrent
  /\ wait = 0
  /\ HasBudget /\ Readable /\ ~budget.paused /\ ~budget.exhausted
  /\ gate = "running"
  /\ job' = [job EXCEPT !.state = outcome]
  /\ retries' = retries + 1
  /\ Superseded
  /\ UNCHANGED <<gate, budget, audit, wait, saved, floor, consents, refused, bodies>>

\* prepare_due_retry: only the failure that still is the job's newest revision,
\* in this worker's epoch and with a live budget, is retried by itself.  A partial
\* that no longer qualifies, or bytes without a checkpoint, block the job instead.
DueRetry(outcome) ==
  /\ job.state = "retry_wait"
  /\ failure.current /\ failure.epochCurrent
  /\ wait = 0
  /\ HasBudget /\ Readable /\ ~budget.paused /\ ~budget.exhausted
  /\ gate = "running"
  /\ job' = [job EXCEPT !.state = outcome]
  /\ retries' = IF outcome = "queued" THEN retries + 1 ELSE retries
  /\ Superseded
  /\ UNCHANGED <<gate, budget, audit, wait, saved, floor, consents, refused, bodies>>

\* apply_job_control(pause), and the pause of a drained active body.
Pause ==
  /\ job.state # "paused"
  /\ job' = [job EXCEPT !.state = "paused"]
  /\ Superseded
  /\ saved' \in (IF body = "owner" THEN BOOLEAN ELSE {saved})
  /\ UNCHANGED <<gate, budget, audit, wait, floor, retries, consents, refused, bodies>>

\* The worker has drained an engine whose plan no longer owns the job.
DrainBody ==
  /\ body = "stale"
  /\ body' = "none"
  /\ UNCHANGED <<job, gate, budget, audit, failure, wait, saved, reopen, floor,
                 retries, consents, refused, bodies>>

\* An operator's resume of saved bytes (_saved_resume_eligible and
\* _create_saved_continuation): a paused budget is reopened with it, an exhausted
\* one is not.
CanResume_Faulty ==
  job.state \in {"paused", "retry_wait", "blocked", "needs_auth", "needs_link"} /\ saved

CanResume ==
  /\ job.state \in {"paused", "retry_wait", "blocked", "needs_auth", "needs_link"}
  /\ saved
  /\ HasBudget => ~budget.exhausted

Resume ==
  /\ body = "none" /\ Readable /\ CanResume
  /\ IF HasBudget /\ budget.paused
     THEN CanRecord(audit) /\ Recorded(audit, "ordinary_reopen", Reopened(budget))
     ELSE UNCHANGED <<budget, audit>>
  /\ job' = [job EXCEPT !.state = "queued"]
  /\ Superseded
  /\ UNCHANGED <<gate, wait, saved, floor, retries, consents, refused, bodies>>

\* apply_explicit_retry, first transaction: the only way out of an exhausted budget.
OpenExplicitRetry ==
  /\ job.state \in {"blocked", "paused"}
  /\ HasBudget /\ Readable /\ budget.exhausted
  /\ body = "none" /\ failure.action = "exhausted"
  /\ job.generation < MaxGeneration
  /\ CanRecord(audit)
  /\ job' = [generation |-> job.generation + 1, state |-> "paused"]
  /\ Recorded(audit, "explicit_resume", NextBudget(budget, job.generation + 1))
  /\ failure' = [failure EXCEPT !.current = FALSE]
  /\ body' = body
  /\ reopen' = "owner"
  /\ retries' = 0 /\ consents' = consents + 1
  /\ UNCHANGED <<gate, wait, saved, floor, refused, bodies>>

\* Second transaction: the resume it carries, blocked when the fence moved on.
ResumeExplicitRetry ==
  /\ reopen # "none"
  /\ IF reopen = "owner"
     THEN /\ job' = [job EXCEPT !.state = "queued"]
          /\ failure' = [failure EXCEPT !.current = FALSE]
          /\ body' = Stale(body)
     ELSE UNCHANGED <<job, failure, body>>
  /\ reopen' = "none"
  /\ UNCHANGED <<gate, budget, audit, wait, saved, floor, retries, consents, refused, bodies>>

\* recover_cold_start of a new worker: one transaction for every job, so a budget
\* whose audit is full rolls the whole recovery back.  A blocked job with neither failure
\* nor budget would be left as it is; here a job is blocked only with a budget.
ColdStart ==
  /\ job.generation < MaxGeneration
  /\ Readable
  /\ IF HasBudget /\ ~CanRecord(audit)
     THEN /\ refused' = TRUE
          /\ UNCHANGED <<job, gate, budget, audit, failure, body, saved, reopen>>
     ELSE /\ job' = [generation |-> job.generation + 1, state |-> "paused"]
          /\ gate' = "paused"
          /\ IF HasBudget
             THEN Recorded(audit, "fenced", Fenced(budget, job.generation + 1))
             ELSE UNCHANGED <<budget, audit>>
          /\ failure' = [failure EXCEPT !.current = FALSE, !.epochCurrent = FALSE]
          /\ body' = "none"
          /\ saved' \in (IF body = "owner" THEN BOOLEAN ELSE {saved})
          /\ reopen' = Stale(reopen)
          /\ UNCHANGED refused
  /\ UNCHANGED <<wait, floor, retries, consents, bodies>>

RetryNext ==
  \/ Tick
  \/ \E value \in {"running", "paused"}: SetQueueGate(value)
  \/ StartBody
  \/ \E o \in Observations, retryAfter \in RetryAfters \cup {0},
       jitter \in 0..MaxDelay, action \in RetryActions:
         FailBody(o[1], o[2], retryAfter, jitter, action)
  \/ \E outcome \in {"queued", "blocked"}: DueRetry(outcome)
  \/ Pause \/ DrainBody \/ Resume
  \/ OpenExplicitRetry \/ ResumeExplicitRetry
  \/ ColdStart

\* The worker's loop polls the due retries; time passes.
RetryFairness == WF_retryVars(Tick) /\ WF_retryVars(\E outcome \in {"queued", "blocked"}: DueRetry(outcome))
RetrySpec == RetryInit /\ [][RetryNext]_retryVars
RetryFairSpec == RetrySpec /\ RetryFairness
-----------------------------------------------------------------------------
(* Properties.                                                             *)

\* Types of the rows; the audit never outgrows its capacity.
RetryTypeOK ==
  /\ job \in [generation: Nat, state: States]
  /\ gate \in {"running", "paused"}
  /\ budget \in BudgetRow /\ audit \in Seq(AuditRow) /\ Len(audit) <= AuditCapacity
  /\ failure \in FailureRow
  /\ wait \in Nat /\ floor \in Nat
  /\ body \in {"none", "owner", "stale"} /\ bodies \in 0..2 /\ saved \in BOOLEAN
  /\ reopen \in {"none", "owner", "stale"}
  /\ retries \in Nat /\ consents \in Nat /\ refused \in BOOLEAN

\* Whatever moves the job to another generation takes its budget with it: a budget
\* of another generation makes every later read of the job raise.
BudgetIsReadable == Readable

\* One step of _validate_retry_audit: may this event follow this budget?
Follows(b, e) ==
  CASE e.kind = "retry_scheduled" ->
         /\ ~b.paused /\ ~b.exhausted
         /\ e = Event(e.kind, [b EXCEPT !.attempts = @ + 1])
         /\ e.attempts < MaxOrdinaryAttempts
    [] e.kind = "exhausted" ->
         /\ ~b.paused /\ ~b.exhausted
         /\ e = Event(e.kind, [b EXCEPT !.attempts = @ + 1])
    [] e.kind = "fenced" ->
         e.generation > b.generation /\ e = Event(e.kind, Fenced(b, e.generation))
    [] e.kind = "paused" ->
         ~b.paused /\ ~b.exhausted /\ e = Event(e.kind, Fenced(b, b.generation + 1))
    [] e.kind = "ordinary_reopen" ->
         b.paused /\ ~b.exhausted /\ e = Event(e.kind, b)
    [] e.kind = "explicit_resume" ->
         /\ b.exhausted /\ e.generation > b.generation
         /\ e = Event(e.kind, NextBudget(b, e.generation))
    [] OTHER -> FALSE

\* The budget an event leaves behind.
Applied(b, e) ==
  CASE e.kind = "retry_scheduled" -> [b EXCEPT !.attempts = @ + 1]
    [] e.kind = "exhausted" -> [b EXCEPT !.attempts = @ + 1, !.exhausted = TRUE]
    [] e.kind \in {"fenced", "paused"} -> Fenced(b, e.generation)
    [] e.kind = "ordinary_reopen" -> Reopened(b)
    [] OTHER -> NextBudget(b, e.generation)

\* _validate_retry_audit: the budget an audit proves, event by event; NoBudget when it proves none.
FirstProof(e) ==
  IF e = Event("opened", Opening(e.generation)) THEN Opening(e.generation) ELSE NoBudget
NextProof(b, e) == IF b # NoBudget /\ Follows(b, e) THEN Applied(b, e) ELSE NoBudget

ProofOf(log) ==
  LET proven[n \in 1..Len(log)] ==
        IF n = 1 THEN FirstProof(log[1]) ELSE NextProof(proven[n - 1], log[n])
  IN  proven

Replayed(log) == IF log = <<>> THEN NoBudget ELSE ProofOf(log)[Len(log)]

\* Every persisted snapshot is the one its audit proves, so the next restore of the
\* budget, in a later process too, accepts it.
AuditReplays == Replayed(audit) = budget

\* A job waiting for its automatic retry can get it: the typed failure still is the
\* job's newest revision, of this epoch, and its budget is open.  A control or a
\* cold start that moves the fence must also take the job out of retry_wait.
RetryWaitIsLive ==
  job.state = "retry_wait" =>
    /\ failure.current /\ failure.epochCurrent /\ failure.action = "retry_wait"
    /\ HasBudget /\ ~budget.paused /\ ~budget.exhausted

\* No body runs, or is about to run, on a closed budget: its failure would neither be
\* counted nor retried.  An exhausted budget keeps the typed failure that exhausted
\* it, which an explicit retry needs.
BodyHasOpenBudget ==
  /\ job.state \in {"queued", "downloading"} /\ HasBudget =>
       ~budget.paused /\ ~budget.exhausted
  /\ HasBudget /\ budget.exhausted => failure.action = "exhausted"

\* Plan T11: at most MaxOrdinaryAttempts failed attempts per budget, so one automatic
\* retry less, and one budget more for each explicit retry the operator asked for -
\* whatever pauses, resumes and restarts happened in between.
RetriesAreBounded ==
  HasBudget => /\ budget.attempts <= MaxOrdinaryAttempts
               /\ retries < MaxOrdinaryAttempts
               /\ budget.number = 1 + consents

\* The budget of a job is, through pauses, resumes, retries and restarts, well formed, of
\* the job's own generation, the one its audit proves, and within its bounds: every later
\* restore of it, in any process, accepts it, and no failure is counted twice or forgotten.
BudgetHolds == RetryTypeOK /\ BudgetIsReadable /\ AuditReplays /\ RetriesAreBounded

\* Work that is waiting, about to run or running does so on an open budget: a control,
\* a resume or a cold start that closes the budget also stops the work.
WorkHasOpenBudget == RetryWaitIsLive /\ BodyHasOpenBudget

\* Backoff and Retry-After are a floor: no body of the job starts before they are
\* over, not even one the operator resumed or a restarted worker admitted.
RetryWaitsItsTurn == [][body' = "owner" /\ body # "owner" => floor = 0]_retryVars

\* While the queue runs, a scheduled retry is not forgotten.
RetryIsNotForgotten ==
  <>[](gate = "running") => (job.state = "retry_wait" ~> job.state # "retry_wait")

\* Plan T16: recovery maps incomplete direct jobs to paused.  The code rolls the whole
\* recovery back when one job's audit is full.
ColdStartIsNeverRefused == ~refused
=============================================================================
