------------------------- MODULE AuthorizationRounds -------------------------
(***************************************************************************)
(* Authority over many jobs at once: target commands and their heads, the  *)
(* authorization rounds they open, the captured starts the worker applies  *)
(* one cohort per poll, and the completion events a closed round produces. *)
(*                                                                         *)
(* "active" stands for resolving, downloading and finalizing.  The queue   *)
(* gate, collection holds and due times only delay an admission and are    *)
(* left out; so are the saved bytes that qualify a resume.  Definitions    *)
(* ending in _Faulty are plausible mistakes that some property refutes.    *)
(***************************************************************************)
EXTENDS Integers, Sequences, FiniteSets

CONSTANTS
  NJobs,       \* jobs 1..NJobs, in job_id order
  CohortOf,    \* creation cohort of each job: its batch, or itself when added singly
  Targets,     \* request ids of target_authorize commands
  Starts,      \* request ids of captured starts (accept_control_intent)
  CohortSize,  \* members of one captured cohort, 500 in the code
  MaxEpoch,    \* bound: worker epochs
  MaxRevision, \* bound: revisions of one job, but for the one a captured start adds
  None

Jobs == 1..NJobs

ASSUME RoundConstants ==
  /\ NJobs \in Nat \ {0} /\ CohortSize \in Nat \ {0}
  /\ MaxEpoch \in Nat \ {0} /\ MaxRevision \in Nat
  /\ CohortOf = [j \in Jobs |-> CohortOf[j]]

VARIABLES
  epoch,     \* settings.worker_epoch
  job,       \* jobs and materialized_jobs rows
  head,      \* job_authorization_heads rows, None for an unmanaged job
  commands,  \* target_commands with the members each gave authority
  rounds,    \* authorization_rounds of each cohort, by round_generation
  control,   \* direct_control_requests with their direct_control_cohorts
  applying,  \* the captured start the worker's poll is in the middle of
  outbox,    \* completion rows of notification_outbox
  touched    \* history: jobs controlled or restarted since a start captured them

roundVars == <<epoch, job, head, commands, rounds, control, applying, outbox, touched>>

Terminal == {"completed", "removed"}
Children == Starts \X (1..NJobs)
CommandIds == Targets \cup Children
States == {"queued", "paused", "active", "completed", "removed"}
JobRow == [state: States, authorized: BOOLEAN, hold: BOOLEAN, revision: Nat]
HeadRow == [owner: CommandIds, activation: CommandIds, round: Nat \ {0}, revision: Nat,
            state: States, epoch: Nat, status: {"current", "inactive", "terminal"}]
RoundRow == [owner: CommandIds, status: {"open", "terminal"}]
CommandRow == [epoch: Nat, new: SUBSET Jobs, existing: SUBSET Jobs]
NoCommand == [epoch |-> 0, new |-> {}, existing |-> {}]
NoControl == [status |-> "none", epoch |-> 0, cohorts |-> <<>>, closed |-> FALSE]

\* None is not a row, and no client uses the request id of a captured cohort.
ASSUME RoundMarkers ==
  /\ None \notin HeadRow /\ None \notin Starts \X {"mark", "settle"}
  /\ Targets \cap Children = {}

RoundInit ==
  /\ epoch = 1
  /\ job = [j \in Jobs |-> [state |-> "queued", authorized |-> FALSE, hold |-> FALSE, revision |-> 0]]
  /\ head = [j \in Jobs |-> None]
  /\ commands = [c \in CommandIds |-> NoCommand]
  /\ rounds = [h \in {CohortOf[j] : j \in Jobs} |-> <<>>]
  /\ control = [r \in Starts |-> NoControl]
  /\ applying = None
  /\ outbox = {}
  /\ touched = [r \in Starts |-> {}]

\* These jobs moved, by somebody else than the starts named.
Touch(moved, starts) ==
  touched' = [r \in Starts |-> IF control[r].status # "pending" THEN {}
                              ELSE IF r \in starts THEN touched[r] ELSE touched[r] \cup moved]

-----------------------------------------------------------------------------
(* Target commands: apply_target_authorize.                                *)

\* _target_transform: a start authorizes and leaves a pause alone, a resume ends it.
Wanted(j, action) ==
  [job[j] EXCEPT !.authorized = TRUE,
                 !.hold = IF action = "start" THEN @ ELSE FALSE,
                 !.state = IF action # "start" /\ @ = "paused" THEN "queued" ELSE @]

\* What the command does with one member selected at this revision.
Outcome_Faulty(j, action, expected) ==  \* the captured revision is not compared
  CASE job[j].state \in Terminal -> "blocked"
    [] action = "resume" /\ head[j] = None -> "blocked"
    [] job[j].state = "active" /\ (head[j] = None \/ Wanted(j, action) # job[j]) -> "blocked"
    [] OTHER -> IF head[j] = None THEN "new_authority" ELSE "existing_authority"

Outcome(j, action, expected) ==
  IF expected # job[j].revision THEN "stale"
  ELSE IF \/ job[j].state \in Terminal
          \/ action = "resume" /\ head[j] = None
          \/ job[j].state = "active" /\ (head[j] = None \/ Wanted(j, action) # job[j])
  THEN "blocked"
  ELSE IF head[j] = None THEN "new_authority" ELSE "existing_authority"

\* The head of a job that moved, its fence taken from the job's new row.
Fence(h, row, e, status) ==
  [h EXCEPT !.revision = row.revision, !.state = row.state, !.epoch = e, !.status = status]

\* One transaction: the members' rows, heads and rounds, and the sealed command.
\* Every creation cohort with new members gets one round of its own.
Authorize(c, action, expected) ==
  LET kept    == {j \in DOMAIN expected : Outcome(j, action, expected[j]) = "existing_authority"}
      new     == {j \in DOMAIN expected : Outcome(j, action, expected[j]) = "new_authority"}
      moved   == {j \in new \cup kept : Wanted(j, action) # job[j]}
      fresh(j) == [owner |-> c, activation |-> c, round |-> Len(rounds[CohortOf[j]]) + 1,
                   revision |-> 0, state |-> "queued", epoch |-> epoch, status |-> "current"]
      base(j) == IF j \in new THEN fresh(j) ELSE [head[j] EXCEPT !.activation = c]
  IN  /\ commands[c] = NoCommand
      /\ epoch' = epoch
      /\ job' = [j \in Jobs |->
                   IF j \in moved THEN [Wanted(j, action) EXCEPT !.revision = @ + 1] ELSE job[j]]
      /\ head' = [j \in Jobs |->
                    IF j \in new \cup kept THEN Fence(base(j), job'[j], epoch, "current") ELSE head[j]]
      /\ rounds' = [h \in DOMAIN rounds |->
                      IF \E j \in new : CohortOf[j] = h
                      THEN Append(rounds[h], [owner |-> c, status |-> "open"])
                      ELSE rounds[h]]
      /\ commands' = [commands EXCEPT ![c] = [epoch |-> epoch, new |-> new, existing |-> kept]]
      /\ Touch(moved, IF c \in Children THEN {c[1]} ELSE {})

\* A client's target command over a whole creation cohort, or a resume of one job.
Target(c, action, selected) ==
  /\ applying = None
  /\ \A j \in selected : job[j].revision < MaxRevision
  /\ Authorize(c, action, [j \in selected |-> job[j].revision])
  /\ UNCHANGED <<control, applying, outbox>>

-----------------------------------------------------------------------------
(* Closed rounds and completion events.                                    *)

Ended(heads, members) == \A j \in members : heads[j] # None /\ heads[j].status = "terminal"

\* The members of a round: those the owner gave new authority in that cohort.
Members(owner, cohort) == {j \in commands[owner].new : CohortOf[j] = cohort}

\* _enqueue_completion for a group of members; a group without completed output says nothing.
Announce(key, members, rows) ==
  LET done == {j \in members : rows[j].state = "completed"}
  IN  IF done = {} THEN {} ELSE {[key |-> key, jobs |-> done]}

Cohorts(r) == {<<r, i>> : i \in DOMAIN control[r].cohorts}

\* _close_captured_completion: once, when the start is applied and all its members ended.
Closable(r, status, heads) ==
  /\ status = "applied" /\ ~control[r].closed
  /\ \A c \in Cohorts(r) : Ended(heads, commands[c].new)

CapturedEvents(r, rows) == UNION {Announce(<<"captured", c>>, commands[c].new, rows) : c \in Cohorts(r)}

\* _close_target_round of a job whose row and head just changed, as part of that step:
\* the round closes when its last member ends, and says so itself or through its start.
Closes(j, heads) ==
  /\ head[j] # None
  /\ heads[j].status = "terminal"
  /\ Ended(heads, Members(head[j].owner, CohortOf[j]))
  /\ rounds[CohortOf[j]][head[j].round].status = "open"

\* _enqueue_standalone_completion: only a job no round answers for.
Standalone(j, rows) == IF head[j] = None THEN Announce(<<"job", j>>, {j}, rows) ELSE {}

CloseRound(j) ==
  LET owner    == head[j].owner
      captured == owner \in Children
      ends     == captured /\ Closable(owner[1], control[owner[1]].status, head')
      events   == IF ~captured THEN Announce(<<"round", CohortOf[j], head[j].round>>,
                                             Members(owner, CohortOf[j]), job')
                  ELSE IF ends THEN CapturedEvents(owner[1], job') ELSE {}
  IN  IF Closes(j, head')
      THEN /\ rounds' = [rounds EXCEPT ![CohortOf[j]][head[j].round].status = "terminal"]
           /\ control' = IF ends THEN [control EXCEPT ![owner[1]].closed = TRUE] ELSE control
           /\ outbox' = outbox \cup events \cup Standalone(j, job')
      ELSE /\ UNCHANGED <<rounds, control>>
           /\ outbox' = outbox \cup Standalone(j, job')

-----------------------------------------------------------------------------
(* One job's life: controls, admission, stop and completion.               *)

\* The row and its head move together; _advance_target_head keeps the head's status
\* unless the job is over.
Move(j, row) ==
  /\ job[j].revision < MaxRevision
  /\ job' = [job EXCEPT ![j] = [row EXCEPT !.revision = job[j].revision + 1]]
  /\ head' = IF head[j] = None THEN head
             ELSE [head EXCEPT ![j] = Fence(@, job'[j], epoch,
                      IF row.state \in Terminal THEN "terminal" ELSE head[j].status)]

\* apply_job_control: pause and removal, of a running job once its engine is contained;
\* resume and start_now only for a job no target command manages.
Controlled(row, action) ==
  CASE action = "pause" -> [row EXCEPT !.state = "paused", !.hold = TRUE]
    [] action = "remove" -> [row EXCEPT !.state = "removed", !.hold = TRUE, !.authorized = FALSE]
    [] action = "resume" -> [row EXCEPT !.state = IF @ = "paused" THEN "queued" ELSE @, !.hold = FALSE]
    [] action = "start_now" -> [row EXCEPT !.state = "queued", !.hold = FALSE, !.authorized = TRUE]

JobControl(j, action) ==
  /\ applying = None
  /\ job[j].state \notin Terminal
  /\ action \in {"resume", "start_now"} => head[j] = None
  /\ Controlled(job[j], action) # job[j]
  /\ Move(j, Controlled(job[j], action))
  /\ CloseRound(j)
  /\ Touch({j}, {})
  /\ UNCHANGED <<epoch, commands, applying>>

\* A managed job needs a current head and an open round.
Admissible(j) ==
  /\ job[j].state = "queued" /\ job[j].authorized /\ ~job[j].hold
  /\ head[j] # None => /\ head[j].status = "current"
                       /\ rounds[CohortOf[j]][head[j].round].status = "open"

Admit(j) ==
  /\ applying = None
  /\ Admissible(j)
  /\ Move(j, [job[j] EXCEPT !.state = "active"])
  /\ UNCHANGED <<epoch, commands, rounds, control, applying, outbox, touched>>

\* The body stops without an operator's pause: a failure or a queue stop.
Stop(j) ==
  /\ applying = None
  /\ job[j].state = "active"
  /\ Move(j, [job[j] EXCEPT !.state = "paused"])
  /\ UNCHANGED <<epoch, commands, rounds, control, applying, outbox, touched>>

Complete(j) ==
  /\ applying = None
  /\ job[j].state = "active"
  /\ Move(j, [job[j] EXCEPT !.state = "completed"])
  /\ CloseRound(j)
  /\ UNCHANGED <<epoch, commands, applying, touched>>

-----------------------------------------------------------------------------
(* Captured starts.                                                        *)

\* Consecutive groups of CohortSize members, in job order; the last may be smaller.
Rank(j, selected) == Cardinality({k \in selected : k < j})
Grouped(selected) ==
  LET group(i) == {j \in selected : Rank(j, selected) \div CohortSize = i - 1}
  IN  [i \in 1..((Cardinality(selected) + CohortSize - 1) \div CohortSize) |->
         [members |-> [j \in group(i) |-> job[j].revision], status |-> "pending"]]

\* accept_control_intent: every selected job with its revision, in one transaction.
AcceptStart(r, scope) ==
  /\ applying = None
  /\ control[r] = NoControl
  /\ control' = [control EXCEPT ![r] =
       [status |-> "pending", epoch |-> epoch, closed |-> FALSE,
        cohorts |-> Grouped({j \in scope : job[j].state \notin Terminal})]]
  /\ touched' = [touched EXCEPT ![r] = {}]
  /\ UNCHANGED <<epoch, job, head, commands, rounds, applying, outbox>>

Pending(r) == {i \in DOMAIN control[r].cohorts : control[r].cohorts[i].status = "pending"}
First(r) == CHOOSE i \in Pending(r) : \A k \in Pending(r) : i <= k

\* apply_captured_cohort, once per poll: the first pending cohort's child command ...
ApplyChild(r) ==
  /\ applying = None
  /\ control[r].status = "pending" /\ control[r].epoch = epoch
  /\ Pending(r) # {}
  /\ Authorize(<<r, First(r)>>, "start", control[r].cohorts[First(r)].members)
  /\ applying' = <<r, "mark">>
  /\ UNCHANGED <<control, outbox>>

\* ... the cohort's row, in a transaction of its own ...
MarkCohort(r) ==
  /\ applying = <<r, "mark">>
  /\ control' = [control EXCEPT ![r].cohorts[First(r)].status = "applied"]
  /\ applying' = IF Cardinality(Pending(r)) = 1 THEN <<r, "settle">> ELSE None
  /\ UNCHANGED <<epoch, job, head, commands, rounds, outbox, touched>>

\* ... and after the last one the request itself, which may already be over.
SettleStart_Faulty(r) ==  \* settles without closing
  /\ \/ applying = <<r, "settle">>
     \/ applying = None /\ control[r].status = "pending" /\ control[r].epoch = epoch /\ Pending(r) = {}
  /\ control' = [control EXCEPT ![r].status = "applied"]
  /\ applying' = None
  /\ UNCHANGED <<epoch, job, head, commands, rounds, outbox, touched>>

SettleStart(r) ==
  /\ \/ applying = <<r, "settle">>
     \/ applying = None /\ control[r].status = "pending" /\ control[r].epoch = epoch /\ Pending(r) = {}
  /\ LET ends == Closable(r, "applied", head)
     IN  /\ control' = [control EXCEPT ![r].status = "applied", ![r].closed = ends]
         /\ outbox' = IF ends THEN outbox \cup CapturedEvents(r, job) ELSE outbox
  /\ applying' = None
  /\ UNCHANGED <<epoch, job, head, commands, rounds, touched>>

\* A start of an earlier epoch gives no more authority.
BlockStart_Faulty(r) ==  \* only a start none of whose cohorts was applied yet
  /\ applying = None
  /\ control[r].status = "pending" /\ control[r].epoch # epoch
  /\ Pending(r) = DOMAIN control[r].cohorts
  /\ control' = [control EXCEPT ![r].status = "blocked"]
  /\ UNCHANGED <<epoch, job, head, commands, rounds, applying, outbox, touched>>

BlockStart(r) ==
  /\ applying = None
  /\ control[r].status = "pending" /\ control[r].epoch # epoch
  /\ control' = [control EXCEPT ![r].status = "blocked",
       ![r].cohorts = [i \in DOMAIN @ |->
          IF @[i].status = "pending" THEN [@[i] EXCEPT !.status = "blocked"] ELSE @[i]]]
  /\ UNCHANGED <<epoch, job, head, commands, rounds, applying, outbox, touched>>

\* recover_cold_start, after a crash at any point of a poll: every job that is not over
\* is paused and every head that is not over loses its authority.
ColdStart_Faulty ==  \* the heads keep the authority they had
  /\ epoch < MaxEpoch
  /\ \A j \in Jobs : job[j].revision < MaxRevision
  /\ epoch' = epoch + 1
  /\ job' = [j \in Jobs |-> IF job[j].state \in Terminal THEN job[j]
               ELSE [job[j] EXCEPT !.state = "paused", !.revision = @ + 1]]
  /\ head' = [j \in Jobs |-> IF head[j] = None THEN None ELSE Fence(head[j], job'[j], epoch + 1, head[j].status)]
  /\ applying' = None
  /\ Touch({j \in Jobs : job[j].state \notin Terminal}, {})
  /\ UNCHANGED <<commands, rounds, control, outbox>>

ColdStart ==
  /\ epoch < MaxEpoch
  /\ \A j \in Jobs : job[j].revision < MaxRevision
  /\ epoch' = epoch + 1
  /\ job' = [j \in Jobs |-> IF job[j].state \in Terminal THEN job[j]
               ELSE [job[j] EXCEPT !.state = "paused", !.revision = @ + 1]]
  /\ head' = [j \in Jobs |-> IF head[j] = None THEN None
                ELSE Fence(head[j], job'[j], epoch + 1,
                       IF job[j].state \in Terminal THEN "terminal" ELSE "inactive")]
  /\ applying' = None
  /\ Touch({j \in Jobs : job[j].state \notin Terminal}, {})
  /\ UNCHANGED <<commands, rounds, control, outbox>>

PollStart(r) == ApplyChild(r) \/ MarkCohort(r) \/ SettleStart(r) \/ BlockStart(r)

RoundNext ==
  \/ \E c \in Targets, h \in DOMAIN rounds : Target(c, "start", {j \in Jobs : CohortOf[j] = h})
  \/ \E c \in Targets, j \in Jobs, action \in {"resume", "start_now"} : Target(c, action, {j})
  \/ \E j \in Jobs, action \in {"pause", "remove", "resume", "start_now"} : JobControl(j, action)
  \/ \E j \in Jobs : Admit(j) \/ Stop(j) \/ Complete(j)
  \/ \E r \in Starts : AcceptStart(r, Jobs) \/ \E j \in Jobs : AcceptStart(r, {j})
  \/ \E r \in Starts : PollStart(r)
  \/ ColdStart

\* apply_controls of every poll visits every pending request.
RoundSpec == RoundInit /\ [][RoundNext]_roundVars
RoundFairSpec == RoundSpec /\ \A r \in Starts : WF_roundVars(PollStart(r))

-----------------------------------------------------------------------------
(* What the readers demand of the rows.                                    *)

\* _read_target_head: the fence is the job's own row in this epoch, the owner gave the
\* job new authority in that round, the activation refers to the same owner, and only a
\* command of this epoch keeps the head current.
ReadableHead(j, h) ==
  /\ h.revision = job[j].revision /\ h.state = job[j].state /\ h.epoch = epoch
  /\ j \in commands[h.owner].new
  /\ j \in commands[h.activation].new \cup commands[h.activation].existing
  /\ h.round <= Len(rounds[CohortOf[j]]) /\ rounds[CohortOf[j]][h.round].owner = h.owner
  /\ h.status = "terminal" <=> job[j].state \in Terminal
  /\ h.status = "current" => commands[h.activation].epoch = epoch

\* _control_request: an applied cohort has its child command, over its own members, and
\* an applied start has only applied cohorts.
ReadableStart(r) ==
  /\ control[r].status \in {"pending", "applied", "blocked"}
  /\ \A i \in DOMAIN control[r].cohorts :
       LET cohort == control[r].cohorts[i]
       IN  /\ Cardinality(DOMAIN cohort.members) \in 1..CohortSize
           /\ cohort.status = "applied" =>
                /\ commands[<<r, i>>].epoch = control[r].epoch
                /\ commands[<<r, i>>].new \cup commands[<<r, i>>].existing \subseteq DOMAIN cohort.members
           /\ control[r].status = "applied" => cohort.status = "applied"

-----------------------------------------------------------------------------
(* Properties.                                                             *)

\* Types of the rows; every captured start can be read, and is pending while it is applied.
RoundTypeOK ==
  /\ epoch \in 1..MaxEpoch
  /\ job \in [Jobs -> JobRow] /\ \A j \in Jobs : job[j].revision <= MaxRevision + 1
  /\ head \in [Jobs -> HeadRow \cup {None}]
  /\ commands \in [CommandIds -> CommandRow]
  /\ \A h \in DOMAIN rounds : rounds[h] \in Seq(RoundRow)
  /\ \A r \in Starts : control[r].status # "none" => ReadableStart(r)
  /\ applying # None => control[applying[1]].status = "pending"

\* Every head can be read; when _read_target_head raises, so does every later transaction
\* of the job and the next cold start.
HeadIsReadable == \A j \in Jobs : head[j] # None => ReadableHead(j, head[j])

\* A round is closed exactly when the last job it authorized is over, however the jobs
\* ended (completion or removal) and in whatever order.
RoundClosesWithItsMembers ==
  \A h \in DOMAIN rounds : \A n \in DOMAIN rounds[h] :
    rounds[h][n].status = "terminal" <=>
      \A j \in Members(rounds[h][n].owner, h) : job[j].state \in Terminal

\* A completed download is announced at most once, alone or with its group, and a group
\* only when all of it is over; what was announced stays completed.
AnnouncedAtMostOnce ==
  /\ \A e \in outbox : \A j \in e.jobs : job[j].state = "completed"
  /\ \A e, f \in outbox : e # f => e.jobs \cap f.jobs = {} /\ e.key # f.key
  /\ \A e \in outbox : e.key[1] = "captured" =>
       \A c \in Cohorts(e.key[2][1]) : \A j \in commands[c].new : job[j].state \in Terminal

Announced(j) == \E e \in outbox : j \in e.jobs

\* The members a head's owner waits for: the round's, or all of the captured start's.
Group(j) ==
  LET owner == head[j].owner
  IN  IF owner \in Children THEN UNION {commands[c].new : c \in Cohorts(owner[1])}
      ELSE Members(owner, CohortOf[j])

\* A completed job whose group is over is announced, also when the last member ends
\* before the last cohort of its start is applied - but for a start that was cut off.
CompletionIsAnnouncedUnlessCut ==
  \A j \in Jobs : job[j].state = "completed" =>
    \/ Announced(j)
    \/ /\ head[j] # None
       /\ \/ \E m \in Group(j) : job[m].state \notin Terminal
          \/ head[j].owner \in Children /\ control[head[j].owner[1]].status # "applied"

\* integrations/hermes-downloads/desktop/README.md:20: "publication completion transactions
\* enqueue durably.  Original target rounds coalesce after every selected original head
\* is terminal": once a round and its whole group are over, its completions are announced.
CompletionIsAnnounced ==
  \A j \in Jobs :
    /\ job[j].state = "completed"
    /\ head[j] # None
    /\ \A m \in Group(j) : job[m].state \in Terminal
    /\ head[j].owner \in Children => control[head[j].owner[1]].status # "pending"
    => Announced(j)

\* The heads and rounds of all jobs can be read and agree with the jobs, whatever order
\* commands, cohorts, completions, removals and restarts come in: a head that cannot be
\* read makes every later transaction of its job raise, the next cold start's too.
RoundsAreReadable == RoundTypeOK /\ HeadIsReadable /\ RoundClosesWithItsMembers

\* A completed download is announced once its group is over, and never twice, whichever
\* of the last member and the last cohort comes last.
AnnouncedExactlyOnce == AnnouncedAtMostOnce /\ CompletionIsAnnouncedUnlessCut

\* A captured start gives no authority to a job that a control, another command or a
\* restart moved between its acceptance and the cohort that carries the job.
StartYieldsToLaterControl ==
  [][\A c \in Children :
       commands'[c].epoch # commands[c].epoch =>
         (commands'[c].new \cup commands'[c].existing) \cap touched[c[1]] = {}]_roundVars

\* A pending start is settled: applied, or blocked by a restart in between.
StartSettles ==
  \A r \in Starts : control[r].status = "pending" ~> control[r].status \in {"applied", "blocked"}
=============================================================================
