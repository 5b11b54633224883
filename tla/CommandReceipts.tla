---- MODULE CommandReceipts ----
(***************************************************************************)
(* Every command carries an identifier its sender chose.  The worker may   *)
(* die after it committed a command and before it answered, so a sender    *)
(* repeats the command; a sender may also reuse an identifier.  The store  *)
(* keeps a receipt of each command and replays it (store.py: apply_add,    *)
(* apply_add_batch, apply_queue_gate, apply_job_control,                   *)
(* prepare_direct_dispatch, accept_edit and the other typed commands).     *)
(*                                                                         *)
(* A command is a record of its surface, its identifier and its arguments; *)
(* two commands with the same digest, scope and action are the same record.*)
(* Each step is one SQLite transaction; its answer may be lost, which only *)
(* the sender sees.                                                        *)
(***************************************************************************)
EXTENDS Integers

CONSTANTS
  Commands,   \* what senders may send, any number of times
  Ids,        \* request identifiers, those the store derives included
  Child,      \* the identifier the store derives for an entry of a batch
  Jobs, Dests,
  MaxRev,     \* bound on revisions
  MaxEpoch,   \* bound on worker starts
  None

ASSUME ChildAssumption ==
  Child \in [{c.id : c \in {d \in Commands : d.surface = "batch"}} -> [1..2 -> Ids]]

\* What a command carries besides its surface and its identifier.
ASSUME CommandsAssumption ==
  /\ \A c \in Commands :
       /\ c.surface \in {"add", "batch", "gate", "control", "dispatch", "configure", "edit"}
       /\ c.id \in Ids
       /\ c.surface \in {"add", "control", "dispatch", "edit"} => c.job \in Jobs
       /\ c.surface = "add" => c.dest \in Dests
       /\ c.surface = "batch" =>
            \A n \in 1..2 : c.entries[n].job \in Jobs /\ c.entries[n].dest \in Dests
       /\ c.surface = "gate" => c.gate \in {"paused", "running"}
       /\ c.surface = "edit" => c.to \in Dests \cup {None}
  /\ None \notin Dests /\ None \notin Ids /\ MaxRev \in Nat /\ MaxEpoch \in Nat

Typed == {"edit", "configure"}                     \* the tables of typed commands

VARIABLES
  receipt,   \* by identifier: the registered or typed command, and its result
  dispatch,  \* by identifier: the direct dispatch command and its result
  job,       \* the jobs
  gate,      \* the queue gate and its revision
  config,    \* the settings revision
  epoch,     \* the worker epoch
  running,   \* the dispatch the owner loop is executing
  done,      \* history: how often each command took effect
  told,      \* history: the first answer of each command
  torn       \* history: a command was answered in two ways

vars == <<receipt, dispatch, job, gate, config, epoch, running, done, told, torn>>

\* dest is the destination the job was added with, moved the one its last edit gave it.
NoJob == [dest |-> None, moved |-> None, gen |-> 0, rev |-> 0, state |-> "none",
          auth |-> FALSE, hold |-> FALSE]
ChildMark == [surface |-> "child"]   \* scope add_batch_entry
Entry(c, r) == [cmd |-> c, result |-> r]
Nothing == Entry([surface |-> "none"], None)

Send(surface) == {c \in Commands : c.surface = surface}

JobRow == [dest : Dests \cup {None}, moved : Dests \cup {None}, gen : 0..MaxEpoch, rev : 0..MaxRev,
           state : {"none", "queued", "resolving", "downloading", "paused", "removed"},
           auth : BOOLEAN, hold : BOOLEAN]

\* _read_direct_dispatch_command
ReadableDispatch(d) ==
  /\ d.cmd \in Send("dispatch")
  /\ d.result.status \in {"stale", "blocked", "pending", "started"}
  /\ d.result.rev \in 0..MaxRev

ReceiptTypeOK ==
  /\ \A i \in Ids : receipt[i] = Nothing \/ receipt[i].cmd \in Commands \cup {ChildMark}
  /\ \A i \in Ids : dispatch[i] # Nothing =>
       /\ ReadableDispatch(dispatch[i])
       /\ i = running => dispatch[i].result.status = "pending"
  /\ job \in [Jobs -> JobRow]
  /\ gate \in [value : {"paused", "running"}, rev : 0..MaxRev]
  /\ config \in 0..MaxRev /\ epoch \in 0..MaxEpoch
  /\ running \in Ids \cup {None}
  /\ torn \in BOOLEAN

Init ==
  /\ receipt = [i \in Ids |-> Nothing]
  /\ dispatch = [i \in Ids |-> Nothing]
  /\ job = [j \in Jobs |-> NoJob]
  /\ gate = [value |-> "paused", rev |-> 0]
  /\ config = 0 /\ epoch = 0 /\ running = None
  /\ done = [c \in Commands |-> 0]
  /\ told = [c \in Commands |-> None]
  /\ torn = FALSE

\* The command has taken effect; the sender is told r.
Effect(c) == done' = [done EXCEPT ![c] = @ + 1]
Answer(c, r) ==
  /\ told' = [told EXCEPT ![c] = IF @ = None THEN r ELSE @]
  /\ torn' = (torn \/ (told[c] # None /\ told[c] # r))

Up == epoch > 0 /\ running = None
Room == gate.rev < MaxRev /\ config < MaxRev /\ \A j \in Jobs : job[j].rev < MaxRev

(***************************************************************************)
(* The identifier: _match_command_receipt, _reject_unregistered_legacy_... *)
(***************************************************************************)
Unused(i) == receipt[i] = Nothing /\ dispatch[i] = Nothing

Replay(c) ==
  /\ Up /\ receipt[c.id].cmd = c
  /\ Answer(c, receipt[c.id].result)
  /\ UNCHANGED <<receipt, dispatch, job, gate, config, epoch, running, done>>

\* A new command is recorded with its result, which is also its answer.
Record(c, r) == receipt' = [receipt EXCEPT ![c.id] = Entry(c, r)] /\ Answer(c, r)

(***************************************************************************)
(* Creation.                                                               *)
(***************************************************************************)
\* _effective_reservation: where the job's files go.
InForce(j) == IF job[j].moved # None THEN job[j].moved ELSE job[j].dest

\* _ensure_publication_target_is_available: only what the jobs were added with is looked at.
DestinationFree(d) == \A j \in Jobs : job[j].dest # d
Created(d) == [NoJob EXCEPT !.dest = d, !.state = "queued"]

Add(c) ==
  /\ Up /\ Unused(c.id)
  /\ job[c.job] = NoJob /\ DestinationFree(c.dest)
  /\ job' = [job EXCEPT ![c.job] = Created(c.dest)]
  /\ Record(c, [status |-> "applied", rev |-> 0])
  /\ Effect(c)
  /\ UNCHANGED <<dispatch, gate, config, epoch, running>>

\* One transaction for a batch of two; an entry that conflicts is recorded as
\* blocked and the others go on.
EntryOutcome_Faulty(c, n, jobs) == IF jobs[c.entries[n].job] # NoJob THEN "job_conflict" ELSE "applied"
EntryOutcome(c, n, jobs) ==
  LET e == c.entries[n] IN
  IF ~Unused(Child[c.id][n]) THEN "request_conflict"
  ELSE IF jobs[e.job] # NoJob THEN "job_conflict"
  ELSE IF \E j \in Jobs : jobs[j].dest = e.dest THEN "destination_conflict"
  ELSE "applied"

AddBatch(c) ==
  LET after(jobs, n, outcome) ==
        IF outcome = "applied" THEN [jobs EXCEPT ![c.entries[n].job] = Created(c.entries[n].dest)] ELSE jobs
      first == EntryOutcome(c, 1, job)
      mid == after(job, 1, first)
      second == EntryOutcome(c, 2, mid)
      result == [status |-> "applied", entries |-> <<first, second>>]
  IN
  /\ Up /\ Unused(c.id)
  /\ \A n \in 1..2 : receipt[Child[c.id][n]].cmd.surface \notin Typed
  /\ job' = after(mid, 2, second)
  /\ receipt' = [i \in Ids |->
       CASE i = c.id -> Entry(c, result)
         [] i # c.id /\ (\E n \in 1..2 : i = Child[c.id][n] /\ <<first, second>>[n] = "applied") ->
              Entry(ChildMark, c.id)
         [] OTHER -> receipt[i]]
  /\ Answer(c, result) /\ Effect(c)
  /\ UNCHANGED <<dispatch, gate, config, epoch, running>>

(***************************************************************************)
(* Revision-fenced controls.  A stale gate command is refused and leaves no *)
(* receipt; a stale or blocked job control is itself the recorded result.  *)
(***************************************************************************)
QueueGate(c) ==
  /\ Up /\ Room /\ Unused(c.id) /\ c.expected = gate.rev
  /\ gate' = [value |-> c.gate, rev |-> gate.rev + 1]
  /\ Record(c, gate')
  /\ Effect(c)
  /\ UNCHANGED <<dispatch, job, config, epoch, running>>

Controlled(c) ==
  LET j == job[c.job] IN
  CASE c.action = "pause"  -> [j EXCEPT !.hold = TRUE, !.state = "paused"]
    [] c.action = "resume" -> [j EXCEPT !.hold = FALSE, !.state = IF @ = "paused" THEN "queued" ELSE @]
    [] c.action = "remove" -> [j EXCEPT !.hold = TRUE, !.auth = FALSE, !.state = "removed"]
    [] OTHER               -> [j EXCEPT !.hold = FALSE, !.auth = TRUE, !.state = "queued"]

ControlStatus(c) ==
  LET j == job[c.job] IN
  IF j.rev # c.expected THEN "stale"
  ELSE IF j.state = "removed" \/ (c.action = "start_now" /\ gate.value # "running")
  THEN "blocked" ELSE "applied"

\* Containment of a downloading job before the control is modelled elsewhere
\* (DirectWorker): here the control reaches a contained job.
JobControl_Faulty(c) ==
  LET j == job[c.job]
      status == ControlStatus(c)
      next == IF status = "applied" /\ Controlled(c) # j
                THEN [Controlled(c) EXCEPT !.rev = @ + 1] ELSE j
  IN
  /\ Up /\ Room /\ receipt[c.id] = Nothing /\ j # NoJob
  /\ job' = [job EXCEPT ![c.job] = next]
  /\ Record(c, [status |-> status, job |-> next])
  /\ IF status = "applied" THEN Effect(c) ELSE UNCHANGED done
  /\ UNCHANGED <<dispatch, gate, config, epoch, running>>
JobControl(c) ==
  LET j == job[c.job]
      status == ControlStatus(c)
      next == IF status = "applied" /\ Controlled(c) # j
                THEN [Controlled(c) EXCEPT !.rev = @ + 1] ELSE j
  IN
  /\ Up /\ Room /\ Unused(c.id) /\ j # NoJob
  /\ job' = [job EXCEPT ![c.job] = next]
  /\ Record(c, [status |-> status, job |-> next])
  /\ IF status = "applied" THEN Effect(c) ELSE UNCHANGED done
  /\ UNCHANGED <<dispatch, gate, config, epoch, running>>

(***************************************************************************)
(* Direct dispatch: its receipts are a registry of their own.  The job is  *)
(* resolving from the prepared receipt until the engine has accepted it.   *)
(***************************************************************************)
Admitted(j) == job[j].auth /\ ~job[j].hold /\ gate.value = "running"

Moved(j, state) == [job EXCEPT ![j].state = state, ![j].rev = @ + 1]
Result(status, j) == [status |-> status, rev |-> j.rev, state |-> j.state]

Dispatch(c) ==
  LET j == job[c.job]
      status == IF c.expected # j.rev THEN "stale"
                ELSE IF \/ j.state # "queued" \/ ~Admitted(c.job)
                        \/ \E o \in Jobs : job[o].state \in {"resolving", "downloading"}
                THEN "blocked" ELSE "pending"
  IN
  /\ Up /\ Room /\ Unused(c.id) /\ j # NoJob
  /\ status = "pending" => j.rev + 1 < MaxRev   \* bound: its settlement revises the job again
  /\ job' = IF status = "pending" THEN Moved(c.job, "resolving") ELSE job
  /\ dispatch' = [dispatch EXCEPT ![c.id] = Entry(c, Result(status, job'[c.job]))]
  /\ IF status = "pending" THEN running' = c.id /\ UNCHANGED <<told, torn>>
       ELSE Answer(c, dispatch'[c.id].result) /\ UNCHANGED running
  /\ UNCHANGED <<receipt, gate, config, epoch, done>>

\* The owner loop goes on with the dispatch it prepared: the engine accepts
\* the transfer, or the dispatch is contained and its job paused.
Settle(status, state) ==
  LET c == dispatch[running].cmd IN
  /\ running # None
  /\ job' = Moved(c.job, state)
  /\ dispatch' = [dispatch EXCEPT ![running].result = Result(status, job'[c.job])]
  /\ Answer(c, dispatch'[running].result)
  /\ IF status = "started" THEN Effect(c) ELSE UNCHANGED done
  /\ running' = None
  /\ UNCHANGED <<receipt, gate, config, epoch>>
Started == Settle("started", "downloading")
Aborted == Settle("blocked", "paused")

\* A pending receipt that is found again is a dispatch some worker never
\* finished: it is settled as blocked, and never executed.
Replayed(c) ==
  IF dispatch[c.id].result.status = "pending" THEN Result("blocked", job[c.job]) ELSE dispatch[c.id].result
ReplayDispatch_Faulty(c) ==
  /\ Up /\ receipt[c.id] = Nothing /\ dispatch[c.id].cmd = c
  /\ Answer(c, Replayed(c))
  /\ UNCHANGED <<receipt, dispatch, job, gate, config, epoch, running, done>>
ReplayDispatch(c) ==
  /\ Up /\ receipt[c.id] = Nothing /\ dispatch[c.id].cmd = c
  /\ dispatch' = [dispatch EXCEPT ![c.id].result = Replayed(c)]
  /\ Answer(c, Replayed(c))
  /\ UNCHANGED <<receipt, job, gate, config, epoch, running, done>>

(***************************************************************************)
(* Typed commands are accepted with a receipt that says pending, and take  *)
(* effect in a later transaction.  configure looks at the dispatch         *)
(* registry, edit (and replace_source, files, control_intent) does not.    *)
(***************************************************************************)
Unsettled(i) == receipt[i].cmd.surface = "edit" /\ ~receipt[i].result.settled
Pending == [status |-> "pending"]

Accept(c, r) ==
  /\ receipt' = [receipt EXCEPT ![c.id] = Entry(c, r)]
  /\ Answer(c, Pending)

Configure_Faulty(c) ==
  /\ Up /\ Room /\ receipt[c.id] = Nothing
  /\ config' = config + 1
  /\ Record(c, [status |-> "pending", rev |-> config'])
  /\ Effect(c)
  /\ UNCHANGED <<dispatch, job, gate, epoch, running>>
Configure(c) ==
  /\ Up /\ Room /\ Unused(c.id)
  /\ config' = config + 1
  /\ Record(c, [status |-> "pending", rev |-> config'])
  /\ Effect(c)
  /\ UNCHANGED <<dispatch, job, gate, epoch, running>>

AcceptEdit(c) ==
  LET j == job[c.job] IN
  /\ Up /\ receipt[c.id] = Nothing
  /\ j.state \notin {"none", "removed"} /\ c.expected = j.rev
  /\ \A i \in Ids : Unsettled(i) => receipt[i].cmd.job # c.job
  /\ Accept(c, [settled |-> FALSE, epoch |-> epoch, gen |-> j.gen, rev |-> j.rev])
  /\ UNCHANGED <<dispatch, job, gate, config, epoch, running, done>>

ReplayEdit(c) ==
  /\ Up /\ receipt[c.id].cmd = c
  /\ Answer(c, Pending)
  /\ UNCHANGED <<receipt, dispatch, job, gate, config, epoch, running, done>>

\* apply_edit: the fence tolerates the one revision a containment adds.
EditIsCurrent_Faulty(i) == TRUE
EditIsCurrent(i) ==
  LET r == receipt[i].result j == job[receipt[i].cmd.job] IN
  r.epoch = epoch /\ r.gen = j.gen /\ j.rev \in {r.rev, r.rev + 1}

\* A download with a saved body is moved only together with what was saved of it;
\* whether that can be proven is left open here.
MayMove(c) == IF c.to = None THEN {TRUE} ELSE BOOLEAN

\* A destination that is moved is compared with no other job's.
Edited(c) ==
  LET j == job[c.job] IN
  [j EXCEPT !.rev = @ + 1, !.moved = IF c.to # None THEN c.to ELSE @]

ApplyEdit(i) ==
  LET c == receipt[i].cmd IN
  /\ Up /\ Room /\ Unsettled(i)
  /\ job[c.job].state \notin {"resolving", "downloading"}
  /\ receipt' = [receipt EXCEPT ![i].result.settled = TRUE]
  /\ \E may \in MayMove(c) :
       IF EditIsCurrent(i) /\ may
       THEN job' = [job EXCEPT ![c.job] = Edited(c)] /\ Effect(c)
       ELSE UNCHANGED <<job, done>>
  /\ UNCHANGED <<dispatch, gate, config, epoch, running, told, torn>>

(***************************************************************************)
(* A worker dies at any point and the next one fences what it left.        *)
(***************************************************************************)
Restart ==
  /\ epoch < MaxEpoch /\ Room
  /\ epoch' = epoch + 1 /\ running' = None
  /\ gate' = [value |-> "paused", rev |-> gate.rev + 1]
  /\ job' = [j \in Jobs |->
       IF job[j].state \notin {"none", "removed"}
         THEN [job[j] EXCEPT !.state = "paused", !.gen = @ + 1, !.rev = @ + 1] ELSE job[j]]
  /\ UNCHANGED <<receipt, dispatch, config, done, told, torn>>

\* Containment of a downloading transfer (a control, a failure, shutdown).
Contain(j) ==
  /\ Up /\ Room /\ job[j].state = "downloading"
  /\ job' = Moved(j, "paused")
  /\ UNCHANGED <<receipt, dispatch, gate, config, epoch, running, done, told, torn>>

Next ==
  \/ \E c \in Send("add") : Add(c)
  \/ \E c \in Send("batch") : AddBatch(c)
  \/ \E c \in Send("gate") : QueueGate(c)
  \/ \E c \in Send("control") : job[c.job].state # "downloading" /\ JobControl(c)
  \/ \E c \in Send("dispatch") : Dispatch(c) \/ ReplayDispatch(c)
  \/ \E c \in Send("configure") : Configure(c)
  \/ \E c \in Send("edit") : AcceptEdit(c) \/ ReplayEdit(c)
  \/ \E c \in Commands : c.surface # "edit" /\ Replay(c)
  \/ \E i \in Ids : ApplyEdit(i)
  \/ \E j \in Jobs : Contain(j)
  \/ Started \/ Aborted \/ Restart

Spec == Init /\ [][Next]_vars

(***************************************************************************)
(* Properties.                                                             *)
(***************************************************************************)
\* However often a command is sent, and whatever is lost or crashes, it takes
\* effect at most once; of the commands that share an identifier only one
\* does, unless one of them is a dispatch and the other an edit.
EffectsOnce ==
  /\ \A c \in Commands : done[c] <= 1
  /\ \A c, d \in Commands :
       (c # d /\ c.id = d.id /\ done[c] = 1 /\ done[d] = 1) => {c.surface, d.surface} = {"dispatch", "edit"}

\* A command that is sent again is answered as it was the first time, across
\* restarts: a pending dispatch that a worker left never turns into a start.
AnswersAgree == ~torn

\* Sending a command again, before or after a restart and beside others that use its
\* identifier, neither repeats its effect nor changes its answer.
CommandsTakeEffectOnce == ReceiptTypeOK /\ EffectsOnce /\ AnswersAgree

\* A job's destination is its own from the add on, alone or in a batch, and whatever
\* is refused, replayed or restarted: two jobs come to write to the same destination only
\* by an edit that took effect, was current when it did, and gave it to one of them.
DestinationSharedOnlyByEdit ==
  \A j, k \in Jobs :
    (j # k /\ InForce(j) # None /\ InForce(j) = InForce(k)) =>
      \E c \in Send("edit") : done[c] = 1 /\ c.job \in {j, k} /\ c.to = InForce(j)

\* An edit takes effect in the worker epoch it was accepted in, and at most one
\* change of the job after it (which may be its pause or its removal).
EditKeepsFence ==
  [][\A c \in Send("edit") :
       done'[c] > done[c] => /\ receipt[c.id].result.epoch = epoch
                             /\ job[c.job].rev - receipt[c.id].result.rev \in {0, 1}]_vars

\* An identifier is bound to one command, on every surface
\* (test_target_authority.py: request ids conflict across every real surface).
OneCommandPerRequest == \A i \in Ids : receipt[i] = Nothing \/ dispatch[i] = Nothing

\* No two jobs are to write to one destination (store.py, _ensure_publication_target_-
\* is_available: "Reject a destination already owned by any materialized projection").
DestinationsApart ==
  \A j, k \in Jobs : (j # k /\ InForce(j) # None) => InForce(j) # InForce(k)
====
