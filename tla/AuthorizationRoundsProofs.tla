---------------------- MODULE AuthorizationRoundsProofs ----------------------
(***************************************************************************)
(* Proofs about AuthorizationRounds, for any jobs, cohorts, commands and   *)
(* captured starts, and every bound on epochs, revisions and cohort size.  *)
(*                                                                         *)
(* The argument: a job is given new authority by one command only, and its *)
(* head names that command for good (NewOwns), so the rounds and the       *)
(* captured starts partition the managed jobs; a round is closed when all  *)
(* its members are over, and what is over stays so; hence the outbox is at *)
(* every moment a function of the rows (OutboxOK), and an event is added   *)
(* in the very step that makes it due.                                     *)
(***************************************************************************)
EXTENDS AuthorizationRounds, FunctionTheorems, FiniteSetTheorems, TLAPS

-----------------------------------------------------------------------------
(* The inductive invariant.                                                *)

Batches == {CohortOf[j] : j \in Jobs}
CohortRow == [members: UNION {[S -> Nat] : S \in SUBSET Jobs},
              status: {"pending", "applied", "blocked"}]
ControlRow == [status: {"none", "pending", "applied", "blocked"}, epoch: Nat,
               cohorts: UNION {[1..n -> CohortRow] : n \in 0..NJobs}, closed: BOOLEAN]

\* Types.
RowsOK ==
  /\ epoch \in 1..MaxEpoch
  /\ job \in [Jobs -> JobRow]
  /\ head \in [Jobs -> HeadRow \cup {None}]
  /\ commands \in [CommandIds -> CommandRow]
  /\ rounds \in [Batches -> Seq(RoundRow)]
  /\ control \in [Starts -> ControlRow]
  /\ touched \in [Starts -> SUBSET Jobs]

\* Only a captured start adds the last revision, and the job it leaves is authorized.
RevisionsOK ==
  \A j \in Jobs : /\ job[j].revision <= MaxRevision + 1
                  /\ job[j].revision > MaxRevision => job[j].authorized

Over(j) == job[j].state \in Terminal

\* A job is given new authority once: its head names the command that gave it.
NewOwns ==
  \A c \in CommandIds : \A j \in commands[c].new : head[j] # None /\ head[j].owner = c

\* A round has members and an owner of its own, and is closed when all of them are over.
RoundsOK ==
  \A h \in Batches : \A n \in 1..Len(rounds[h]) :
    /\ Members(rounds[h][n].owner, h) # {}
    /\ \A m \in 1..Len(rounds[h]) : rounds[h][m].owner = rounds[h][n].owner => m = n
    /\ rounds[h][n].status = "terminal" <=> \A j \in Members(rounds[h][n].owner, h) : Over(j)

\* A child command is the command of one cohort of its start, over that cohort's members.
ChildrenOK ==
  \A r \in Starts, i \in 1..NJobs : commands[<<r, i>>] # NoCommand =>
    /\ i \in DOMAIN control[r].cohorts
    /\ commands[<<r, i>>].epoch = control[r].epoch
    /\ commands[<<r, i>>].new \cup commands[<<r, i>>].existing
         \subseteq DOMAIN control[r].cohorts[i].members

\* The cohorts of a start are small enough and are applied in order.
StartsOK ==
  \A r \in Starts :
    /\ \E p \in 0..NJobs : Pending(r) = {k \in DOMAIN control[r].cohorts : k > p}
    /\ \A i \in DOMAIN control[r].cohorts :
         LET cohort == control[r].cohorts[i]
         IN  /\ Cardinality(DOMAIN cohort.members) \in 1..CohortSize
             /\ control[r].status = "pending" => cohort.status # "blocked"
             /\ control[r].status = "applied" => cohort.status = "applied"
             /\ cohort.status = "applied" => commands[<<r, i>>].epoch = control[r].epoch

\* Captured revisions are the jobs' own or earlier ones; of a job moved since, earlier.
CapturedOK ==
  \A r \in Starts : \A i \in DOMAIN control[r].cohorts :
    LET seen == control[r].cohorts[i].members
    IN  \A j \in DOMAIN seen : /\ seen[j] <= job[j].revision
                               /\ j \in touched[r] => seen[j] < job[j].revision

\* The start a poll is in the middle of is pending; before the mark its child command is there.
ApplyingOK ==
  applying # None =>
    \E r \in Starts :
      /\ control[r].status = "pending"
      /\ \/ /\ applying = <<r, "mark">> /\ Pending(r) # {}
            /\ commands[<<r, First(r)>>].epoch = control[r].epoch
         \/ applying = <<r, "settle">> /\ Pending(r) = {}

\* A start is closed when it is applied and all its members are over.
ClosedOK ==
  \A r \in Starts : control[r].closed <=>
    /\ control[r].status = "applied"
    /\ \A c \in Cohorts(r) : \A j \in commands[c].new : Over(j)

\* The events that the rows call for: of jobs no head manages, of closed rounds that no
\* captured start owns, and of closed starts.
RoundEvent(h, n) ==
  IF rounds[h][n].status = "terminal" /\ rounds[h][n].owner \notin Children
  THEN Announce(<<"round", h, n>>, Members(rounds[h][n].owner, h), job) ELSE {}
StartEvent(r) == IF control[r].closed THEN CapturedEvents(r, job) ELSE {}
JobEvents   == UNION {Standalone(j, job) : j \in Jobs}
RoundEvents == UNION {UNION {RoundEvent(h, n) : n \in 1..Len(rounds[h])} : h \in Batches}
StartEvents == UNION {StartEvent(r) : r \in Starts}
OutboxOK    == outbox = JobEvents \cup RoundEvents \cup StartEvents

RoundInv ==
  /\ RowsOK /\ RevisionsOK /\ HeadIsReadable /\ NewOwns /\ RoundsOK
  /\ ChildrenOK /\ StartsOK /\ CapturedOK /\ ApplyingOK /\ ClosedOK /\ OutboxOK

-----------------------------------------------------------------------------
(* Rows, members and rounds.                                               *)

\* The head of a managed job is a row, and names commands that exist.
LEMMA ManagedHead ==
  ASSUME RowsOK, HeadIsReadable, NEW j \in Jobs, head[j] # None
  PROVE  /\ head[j] \in HeadRow
         /\ head[j].owner \in CommandIds /\ head[j].activation \in CommandIds
         /\ CohortOf[j] \in Batches
         /\ head[j].round \in 1..Len(rounds[CohortOf[j]])
         /\ rounds[CohortOf[j]][head[j].round].owner = head[j].owner
         /\ j \in Members(head[j].owner, CohortOf[j])
<1>1. head[j] \in HeadRow
  BY DEF RowsOK
<1>2. ReadableHead(j, head[j])
  BY DEF HeadIsReadable
<1>3. CohortOf[j] \in Batches
  BY DEF Batches
<1> QED BY <1>1, <1>2, <1>3 DEF ReadableHead, HeadRow, Members

\* The members of a command in a batch are jobs of that batch whose head names the command.
LEMMA MembersOwned ==
  ASSUME RowsOK, NewOwns, NEW c \in CommandIds, NEW h, NEW j \in Members(c, h)
  PROVE  j \in Jobs /\ CohortOf[j] = h /\ j \in commands[c].new /\ head[j] # None /\ head[j].owner = c
<1>1. commands[c] \in CommandRow
  BY DEF RowsOK
<1> QED BY <1>1 DEF CommandRow, Members, NewOwns

\* A round is a row, owned by a command.
LEMMA RoundIsRow ==
  ASSUME RowsOK, NEW h \in Batches, NEW n \in 1..Len(rounds[h])
  PROVE  rounds[h][n] \in RoundRow /\ rounds[h][n].owner \in CommandIds /\ Len(rounds[h]) \in Nat
<1>1. rounds[h] \in Seq(RoundRow)
  BY DEF RowsOK
<1>2. rounds[h][n] \in RoundRow /\ Len(rounds[h]) \in Nat
  BY <1>1
<1> QED BY <1>2 DEF RoundRow

\* A command that has not run has no members.
LEMMA UnusedCommand ==
  ASSUME RowsOK, HeadIsReadable, RoundsOK, NEW c \in CommandIds, commands[c] = NoCommand
  PROVE  /\ commands[c].new = {} /\ commands[c].existing = {} /\ commands[c].epoch = 0
         /\ \A j \in Jobs : head[j] # None => head[j].owner # c /\ head[j].activation # c
         /\ \A h \in Batches : \A n \in 1..Len(rounds[h]) : rounds[h][n].owner # c
<1>1. commands[c].new = {} /\ commands[c].existing = {} /\ commands[c].epoch = 0
  BY DEF NoCommand
<1>2. \A j \in Jobs : head[j] # None => head[j].owner # c /\ head[j].activation # c
  BY <1>1 DEF HeadIsReadable, ReadableHead
<1>3. \A h \in Batches : \A n \in 1..Len(rounds[h]) : rounds[h][n].owner # c
  BY <1>1 DEF RoundsOK, Members
<1> QED BY <1>1, <1>2, <1>3

\* The cohorts of a start have child commands.
LEMMA CohortCommand ==
  ASSUME RowsOK, NEW r \in Starts, NEW c \in Cohorts(r)
  PROVE  /\ c \in Children /\ c \in CommandIds /\ c[1] = r /\ c[2] \in DOMAIN control[r].cohorts
         /\ c[2] \in 1..NJobs /\ c = <<r, c[2]>> /\ commands[c].new \subseteq Jobs
<1>1. PICK i \in DOMAIN control[r].cohorts : c = <<r, i>>
  BY DEF Cohorts
<1>2. DOMAIN control[r].cohorts \subseteq 1..NJobs
  <2>0. control[r].cohorts \in UNION {[1..n -> CohortRow] : n \in 0..NJobs}
    BY DEF RowsOK, ControlRow
  <2>1. PICK n \in 0..NJobs : control[r].cohorts \in [1..n -> CohortRow]
    BY <2>0
  <2>2. DOMAIN control[r].cohorts = 1..n /\ NJobs \in Nat
    BY <2>1, RoundConstants
  <2> QED BY <2>2
<1>3. c \in Children /\ c \in CommandIds /\ c[1] = r /\ c[2] = i
  BY <1>1, <1>2 DEF Children, CommandIds
<1>4. commands[c] \in CommandRow
  BY <1>3 DEF RowsOK
<1> QED BY <1>1, <1>2, <1>3, <1>4 DEF CommandRow

\* The states of the rows, and those that end a job.
LEMMA StatesApart ==
  /\ "completed" \in Terminal /\ "removed" \in Terminal
  /\ "queued" \notin Terminal /\ "paused" \notin Terminal /\ "active" \notin Terminal
  BY DEF Terminal

-----------------------------------------------------------------------------
(* The parts of the outbox, event by event.                                *)

\* An announcement depends only on the members that are completed.
LEMMA AnnounceSame ==
  ASSUME NEW key, NEW members, NEW rows, NEW others,
         \A j \in members : rows[j].state = "completed" <=> others[j].state = "completed"
  PROVE  Announce(key, members, rows) = Announce(key, members, others)
<1>1. {j \in members : rows[j].state = "completed"} = {j \in members : others[j].state = "completed"}
  OBVIOUS
<1> QED BY <1>1 DEF Announce

LEMMA AnnounceEvent ==
  ASSUME NEW key, NEW members, NEW rows, NEW e
  PROVE  e \in Announce(key, members, rows) <=>
           /\ \E j \in members : rows[j].state = "completed"
           /\ e = [key |-> key, jobs |-> {j \in members : rows[j].state = "completed"}]
  BY DEF Announce

-----------------------------------------------------------------------------
(* What a target command does.                                             *)

Actions == {"start", "resume", "start_now"}

\* The row a command leaves: its own when the command changes nothing, or the wanted one,
\* a revision later; never one that is over.
LEMMA WantedRow ==
  ASSUME NEW j \in Jobs, NEW action \in Actions, job[j] \in JobRow
  PROVE  LET w == Wanted(j, action)
             x == [w EXCEPT !.revision = @ + 1]
         IN  /\ w \in JobRow /\ w.revision = job[j].revision /\ w.authorized = TRUE
             /\ w.state \in Terminal <=> job[j].state \in Terminal
             /\ action = "start" => w.state = job[j].state /\ w.hold = job[j].hold
             /\ x \in JobRow /\ x.revision = job[j].revision + 1 /\ x.authorized = TRUE
             /\ x.state = w.state
<1> DEFINE state == IF action # "start" /\ job[j].state = "paused" THEN "queued" ELSE job[j].state
           hold  == IF action = "start" THEN job[j].hold ELSE FALSE
           w     == [job[j] EXCEPT !.authorized = TRUE, !.hold = hold, !.state = state]
           x     == [w EXCEPT !.revision = @ + 1]
<1>1. w = Wanted(j, action)
  BY DEF Wanted
<1>2. state \in States /\ (state \in Terminal <=> job[j].state \in Terminal)
      /\ (action = "start" => state = job[j].state)
  BY DEF JobRow, States, Terminal
<1>3. hold \in BOOLEAN /\ (action = "start" => hold = job[j].hold)
  BY DEF JobRow
<1> HIDE DEF state, hold
<1>4. w \in JobRow /\ w.state = state /\ w.revision = job[j].revision
  BY <1>2, <1>3 DEF JobRow
<1>5. w.hold = hold
  BY DEF JobRow
<1>6. w.authorized = TRUE
  BY DEF JobRow
<1> HIDE DEF w
<1>7. x \in JobRow /\ x.revision = w.revision + 1 /\ x.state = w.state
  BY <1>4 DEF JobRow
<1>8. x.authorized = w.authorized
  BY <1>4 DEF JobRow
<1> QED BY <1>1, <1>2, <1>3, <1>4, <1>5, <1>6, <1>7, <1>8

\* What becomes of the rows of the jobs a command moves, and of the others.
LEMMA AuthorizeRows ==
  ASSUME RoundInv, NEW c \in CommandIds, NEW action \in Actions,
         NEW expected, DOMAIN expected \subseteq Jobs, Authorize(c, action, expected)
  PROVE  LET N == commands'[c].new
             K == commands'[c].existing
         IN  /\ commands[c] = NoCommand
             /\ commands' = [commands EXCEPT ![c] = [epoch |-> epoch, new |-> N, existing |-> K]]
             /\ N \cup K \subseteq DOMAIN expected
             /\ \A j \in N \cup K : ~Over(j) /\ expected[j] = job[j].revision
             /\ \A j \in N : head[j] = None
             /\ \A j \in K : head[j] # None
             /\ \A j \in Jobs : j \notin N \cup K => head'[j] = head[j]
             /\ job' = [j \in Jobs |->
                          IF j \in N \cup K /\ Wanted(j, action) # job[j]
                          THEN [Wanted(j, action) EXCEPT !.revision = @ + 1] ELSE job[j]]
             /\ head' = [j \in Jobs |->
                          IF j \in N \cup K
                          THEN Fence(IF j \in N
                                     THEN [owner |-> c, activation |-> c,
                                           round |-> Len(rounds[CohortOf[j]]) + 1, revision |-> 0,
                                           state |-> "queued", epoch |-> epoch, status |-> "current"]
                                     ELSE [head[j] EXCEPT !.activation = c],
                                     job'[j], epoch, "current")
                          ELSE head[j]]
             /\ rounds' = [h \in Batches |->
                             IF \E j \in N : CohortOf[j] = h
                             THEN Append(rounds[h], [owner |-> c, status |-> "open"])
                             ELSE rounds[h]]
             /\ epoch' = epoch
<1> DEFINE kept == {j \in DOMAIN expected : Outcome(j, action, expected[j]) = "existing_authority"}
           new  == {j \in DOMAIN expected : Outcome(j, action, expected[j]) = "new_authority"}
<1>1. /\ commands' = [commands EXCEPT ![c] = [epoch |-> epoch, new |-> new, existing |-> kept]]
      /\ commands[c] = NoCommand /\ epoch' = epoch
  BY DEF Authorize
<1>2. commands'[c].new = new /\ commands'[c].existing = kept
  <2>1. c \in DOMAIN commands
    BY DEF RoundInv, RowsOK
  <2> QED BY <1>1, <2>1
<1>3. \A j \in kept : /\ ~Over(j) /\ expected[j] = job[j].revision /\ head[j] # None
  BY DEF Outcome, Over
<1>4. \A j \in new : /\ ~Over(j) /\ expected[j] = job[j].revision /\ head[j] = None
  BY DEF Outcome, Over
<1>5. job' = [j \in Jobs |->
                IF j \in new \cup kept /\ Wanted(j, action) # job[j]
                THEN [Wanted(j, action) EXCEPT !.revision = @ + 1] ELSE job[j]]
  BY DEF Authorize
<1>6. head' = [j \in Jobs |->
                 IF j \in new \cup kept
                 THEN Fence(IF j \in new
                            THEN [owner |-> c, activation |-> c,
                                  round |-> Len(rounds[CohortOf[j]]) + 1, revision |-> 0,
                                  state |-> "queued", epoch |-> epoch, status |-> "current"]
                            ELSE [head[j] EXCEPT !.activation = c],
                            job'[j], epoch, "current")
                 ELSE head[j]]
  BY DEF Authorize
<1>7. rounds' = [h \in Batches |->
                   IF \E j \in new : CohortOf[j] = h
                   THEN Append(rounds[h], [owner |-> c, status |-> "open"])
                   ELSE rounds[h]]
  <2>1. DOMAIN rounds = Batches
    BY DEF RoundInv, RowsOK
  <2> QED BY <2>1 DEF Authorize
<1> HIDE DEF new, kept
<1>8. new \cup kept \subseteq DOMAIN expected
  BY DEF new, kept
<1>9. \A j \in Jobs : j \notin new \cup kept => head'[j] = head[j]
  BY <1>6
<1> QED BY <1>1, <1>2, <1>3, <1>4, <1>5, <1>6, <1>7, <1>8, <1>9

\* The rows after a command: types, the readers' demands and the rounds.
LEMMA AuthorizeKeeps ==
  ASSUME RoundInv, NEW c \in CommandIds, NEW action \in Actions,
         NEW expected, DOMAIN expected \subseteq Jobs, Authorize(c, action, expected),
         action = "start" \/ \A j \in DOMAIN expected : job[j].revision < MaxRevision
  PROVE  /\ epoch' = epoch /\ job' \in [Jobs -> JobRow] /\ head' \in [Jobs -> HeadRow \cup {None}]
         /\ commands' \in [CommandIds -> CommandRow] /\ rounds' \in [Batches -> Seq(RoundRow)]
         /\ RevisionsOK' /\ HeadIsReadable' /\ NewOwns'
<1> DEFINE N == commands'[c].new
           K == commands'[c].existing
           row(j) == [Wanted(j, action) EXCEPT !.revision = @ + 1]
           base(j) == IF j \in N
                      THEN [owner |-> c, activation |-> c, round |-> Len(rounds[CohortOf[j]]) + 1,
                            revision |-> 0, state |-> "queued", epoch |-> epoch,
                            status |-> "current"]
                      ELSE [head[j] EXCEPT !.activation = c]
<1>1. /\ commands[c] = NoCommand
      /\ commands' = [commands EXCEPT ![c] = [epoch |-> epoch, new |-> N, existing |-> K]]
      /\ N \cup K \subseteq DOMAIN expected
      /\ \A j \in N \cup K : ~Over(j)
      /\ \A j \in N : head[j] = None
      /\ \A j \in K : head[j] # None
      /\ job' = [j \in Jobs |->
                   IF j \in N \cup K /\ Wanted(j, action) # job[j] THEN row(j) ELSE job[j]]
      /\ head' = [j \in Jobs |->
                    IF j \in N \cup K THEN Fence(base(j), job'[j], epoch, "current") ELSE head[j]]
      /\ rounds' = [h \in Batches |->
                      IF \E j \in N : CohortOf[j] = h
                      THEN Append(rounds[h], [owner |-> c, status |-> "open"]) ELSE rounds[h]]
      /\ epoch' = epoch
  BY AuthorizeRows
<1>2. RowsOK /\ RevisionsOK /\ HeadIsReadable /\ NewOwns /\ RoundsOK
  BY DEF RoundInv
<1>3. epoch \in Nat \ {0} /\ MaxRevision \in Nat
  BY <1>2, RoundConstants DEF RowsOK
<1> HIDE DEF N, K
<1>4. N \subseteq Jobs /\ K \subseteq Jobs
  BY <1>1
<1>5. job' \in [Jobs -> JobRow] /\ \A j \in Jobs : Over(j)' <=> Over(j)
  <2>1. ASSUME NEW j \in Jobs
        PROVE  /\ Wanted(j, action) \in JobRow /\ row(j) \in JobRow
               /\ Wanted(j, action).state \in Terminal <=> job[j].state \in Terminal
               /\ row(j).state = Wanted(j, action).state /\ job[j] \in JobRow
    BY <1>2, WantedRow DEF RowsOK
  <2> HIDE DEF row
  <2> QED BY <1>1, <2>1 DEF Over
<1>6. RevisionsOK'
  <2> SUFFICES ASSUME NEW j \in Jobs
               PROVE  /\ job'[j].revision <= MaxRevision + 1
                      /\ job'[j].revision > MaxRevision => job'[j].authorized
    BY DEF RevisionsOK
  <2>1. CASE job'[j] = job[j]
    BY <2>1, <1>2 DEF RevisionsOK
  <2>2. CASE job'[j] # job[j]
    <3>1. j \in N \cup K /\ Wanted(j, action) # job[j] /\ job'[j] = row(j)
      BY <1>1, <2>2
    <3>2. job'[j].revision = job[j].revision + 1 /\ job'[j].authorized = TRUE /\ job[j].revision \in Nat
      BY <3>1, <1>2, WantedRow DEF RowsOK, JobRow
    <3>3. job[j].revision <= MaxRevision
      <4>1. CASE action = "start"
        <5>1. ~job[j].authorized
          <6>1. SUFFICES ASSUME job[j].authorized PROVE FALSE
            OBVIOUS
          <6>2. job[j].authorized = TRUE /\ DOMAIN job[j] = {"state", "authorized", "hold", "revision"}
            BY <6>1, <1>2 DEF RowsOK, JobRow
          <6>3. Wanted(j, action) = job[j]
            <7>1. Wanted(j, action) \in JobRow /\ job[j] \in JobRow
              BY <1>2, WantedRow DEF RowsOK
            <7>2. /\ Wanted(j, action).state = job[j].state
                  /\ Wanted(j, action).revision = job[j].revision
                  /\ Wanted(j, action).hold = job[j].hold
                  /\ Wanted(j, action).authorized = job[j].authorized
              BY <4>1, <6>2, <7>1, WantedRow
            <7> QED BY ONLY <7>1, <7>2 DEF JobRow
          <6> QED BY <6>3, <3>1
        <5> QED BY <5>1, <1>2, <1>3, <3>2 DEF RevisionsOK
      <4>2. CASE action # "start"
        BY <4>2, <3>1, <1>1, <1>3, <3>2
      <4> QED BY <4>1, <4>2
    <3> QED BY <3>2, <3>3, <1>3
  <2> QED BY <2>1, <2>2
<1>7. commands' \in [CommandIds -> CommandRow]
  BY <1>1, <1>2, <1>3, <1>4 DEF RowsOK, CommandRow
<1>8. ASSUME NEW j \in N \cup K
      PROVE  /\ base(j) \in HeadRow
             /\ base(j).activation = c
             /\ j \in N => base(j).owner = c /\ base(j).round = Len(rounds[CohortOf[j]]) + 1
             /\ j \in K => base(j).owner = head[j].owner /\ base(j).round = head[j].round
  <2>1. CASE j \in N
    <3>1. Len(rounds[CohortOf[j]]) \in Nat
      BY <1>2, <1>4, <2>1 DEF RowsOK, Batches
    <3> QED BY <2>1, <3>1, <1>1, <1>3 DEF HeadRow, States
  <2>2. CASE j \notin N
    <3>1. head[j] \in HeadRow
      BY <1>1, <1>2, <1>4, <2>2 DEF RowsOK
    <3> QED BY <2>2, <3>1 DEF HeadRow
  <2> QED BY <2>1, <2>2
<1> HIDE DEF base
<1>9. ASSUME NEW j \in N \cup K
      PROVE  /\ head'[j] \in HeadRow /\ head'[j] # None
             /\ head'[j].owner = base(j).owner /\ head'[j].round = base(j).round
             /\ head'[j].activation = c
             /\ head'[j].revision = job'[j].revision /\ head'[j].state = job'[j].state
             /\ head'[j].epoch = epoch /\ head'[j].status = "current"
  <2>1. head'[j] = [base(j) EXCEPT !.revision = job'[j].revision, !.state = job'[j].state,
                                   !.epoch = epoch, !.status = "current"]
    BY <1>1, <1>4 DEF Fence
  <2>2. job'[j].revision \in Nat /\ job'[j].state \in States
    BY <1>4, <1>5 DEF JobRow
  <2> QED BY <2>1, <2>2, <1>8, <1>3, RoundMarkers DEF HeadRow
<1>10. \A j \in Jobs : j \notin N \cup K => head'[j] = head[j] /\ job'[j] = job[j]
  BY <1>1
<1>11. head' \in [Jobs -> HeadRow \cup {None}]
  BY <1>1, <1>2, <1>9, <1>10 DEF RowsOK
<1>12. rounds' \in [Batches -> Seq(RoundRow)]
  <2>1. [owner |-> c, status |-> "open"] \in RoundRow
    BY DEF RoundRow
  <2>2. \A h \in Batches : Append(rounds[h], [owner |-> c, status |-> "open"]) \in Seq(RoundRow)
    BY <2>1, <1>2 DEF RowsOK
  <2> QED BY <1>1, <1>2, <2>2 DEF RowsOK
<1>13. /\ \A j \in Jobs : head[j] # None => head[j].owner # c /\ head[j].activation # c
       /\ commands[c].new = {}
  BY <1>1, <1>2, UnusedCommand
<1>14. \A d \in CommandIds : d # c => commands'[d] = commands[d]
  BY <1>1, <1>2 DEF RowsOK
<1>c. commands'[c].new = N /\ commands'[c].existing = K /\ commands'[c].epoch = epoch
  BY <1>1, <1>2 DEF RowsOK
<1>15. ASSUME NEW h \in Batches
       PROVE  /\ Len(rounds[h]) \in Nat
              /\ \A n \in 1..Len(rounds[h]) : rounds'[h][n] = rounds[h][n]
              /\ (\E j \in N : CohortOf[j] = h)
                    => /\ Len(rounds'[h]) = Len(rounds[h]) + 1
                       /\ rounds'[h][Len(rounds[h]) + 1] = [owner |-> c, status |-> "open"]
              /\ ~(\E j \in N : CohortOf[j] = h) => rounds'[h] = rounds[h]
  <2>1. rounds[h] \in Seq(RoundRow)
    BY <1>2 DEF RowsOK
  <2>2. rounds'[h] = IF \E j \in N : CohortOf[j] = h
                     THEN Append(rounds[h], [owner |-> c, status |-> "open"]) ELSE rounds[h]
    BY <1>1
  <2> HIDE DEF N
  <2> QED BY <2>1, <2>2
<1>e. epoch' = epoch
  BY <1>1
<1>16. HeadIsReadable'
  <2> SUFFICES ASSUME NEW j \in Jobs, head'[j] # None
               PROVE  ReadableHead(j, head[j])'
    BY DEF HeadIsReadable
  <2>b. CohortOf[j] \in Batches
    BY DEF Batches
  <2>1. CASE j \in N
    <3>1. head'[j].round = Len(rounds[CohortOf[j]]) + 1 /\ head'[j].owner = c
      BY <2>1, <1>8, <1>9
    <3>2. /\ Len(rounds'[CohortOf[j]]) = Len(rounds[CohortOf[j]]) + 1
          /\ rounds'[CohortOf[j]][Len(rounds[CohortOf[j]]) + 1] = [owner |-> c, status |-> "open"]
          /\ Len(rounds[CohortOf[j]]) \in Nat
      BY <2>1, <2>b, <1>15
    <3>3. ~Over(j)'
      BY <2>1, <1>1, <1>4, <1>5
    <3>4. /\ head'[j].revision = job'[j].revision /\ head'[j].state = job'[j].state
          /\ head'[j].epoch = epoch' /\ head'[j].status = "current" /\ head'[j].activation = c
      BY <2>1, <1>9, <1>e
    <3> QED BY <2>1, <3>1, <3>2, <3>3, <3>4, <1>c, <1>e DEF ReadableHead, Over
  <2>2. CASE j \in K
    <3>1. ReadableHead(j, head[j]) /\ head[j] # None
      BY <2>2, <1>1, <1>2 DEF HeadIsReadable
    <3>2. head'[j].owner = head[j].owner /\ head'[j].round = head[j].round
      BY <2>2, <1>8, <1>9
    <3>3. head[j].owner # c /\ head[j] \in HeadRow /\ head[j].owner \in CommandIds
          /\ head[j].round \in 1..Len(rounds[CohortOf[j]])
      BY <3>1, <1>13, <1>2, ManagedHead
    <3>4. j \in commands'[head[j].owner].new
      BY <3>1, <3>3, <1>14 DEF ReadableHead
    <3>5. ~Over(j)'
      BY <2>2, <1>1, <1>4, <1>5
    <3>6. Len(rounds'[CohortOf[j]]) >= Len(rounds[CohortOf[j]]) /\ Len(rounds[CohortOf[j]]) \in Nat
          /\ rounds'[CohortOf[j]][head[j].round] = rounds[CohortOf[j]][head[j].round]
      BY <2>b, <3>3, <1>15
    <3>7. /\ head'[j].revision = job'[j].revision /\ head'[j].state = job'[j].state
          /\ head'[j].epoch = epoch' /\ head'[j].status = "current" /\ head'[j].activation = c
      BY <2>2, <1>9, <1>e
    <3>8. head[j].round <= Len(rounds[CohortOf[j]]) /\ rounds[CohortOf[j]][head[j].round].owner = head[j].owner
      BY <3>1 DEF ReadableHead
    <3> QED BY <2>2, <3>2, <3>3, <3>4, <3>5, <3>6, <3>7, <3>8, <1>c, <1>e DEF ReadableHead, Over
  <2>3. CASE j \notin N \cup K
    <3>1. ReadableHead(j, head[j]) /\ head[j] # None /\ head'[j] = head[j] /\ job'[j] = job[j]
      BY <2>3, <1>10, <1>2 DEF HeadIsReadable
    <3>2. /\ head[j].owner \in CommandIds /\ head[j].activation \in CommandIds
          /\ head[j].round \in 1..Len(rounds[CohortOf[j]])
      BY <3>1, <1>2, ManagedHead
    <3>3. commands'[head[j].owner] = commands[head[j].owner]
          /\ commands'[head[j].activation] = commands[head[j].activation]
      BY <3>1, <3>2, <1>13, <1>14
    <3>4. Len(rounds'[CohortOf[j]]) >= Len(rounds[CohortOf[j]]) /\ Len(rounds[CohortOf[j]]) \in Nat
          /\ rounds'[CohortOf[j]][head[j].round] = rounds[CohortOf[j]][head[j].round]
      BY <2>b, <3>2, <1>15
    <3> QED BY <3>1, <3>2, <3>3, <3>4, <1>1 DEF ReadableHead
  <2> QED BY <2>1, <2>2, <2>3
<1>17. NewOwns'
  <2> SUFFICES ASSUME NEW d \in CommandIds, NEW j \in commands'[d].new
               PROVE  head'[j] # None /\ head'[j].owner = d
    BY DEF NewOwns
  <2>1. CASE d = c
    BY <2>1, <1>c, <1>8, <1>9
  <2>2. CASE d # c
    <3>1. j \in Jobs /\ head[j] # None /\ head[j].owner = d
      BY <2>2, <1>14, <1>2 DEF NewOwns, RowsOK, CommandRow
    <3>2. j \notin N
      BY <3>1, <1>1
    <3> QED BY <3>1, <3>2, <1>8, <1>9, <1>10
  <2> QED BY <2>1, <2>2
<1> QED BY <1>1, <1>5, <1>6, <1>7, <1>11, <1>12, <1>16, <1>17

\* What a command leaves alone: the jobs that are over, the earlier rounds and their members.
LEMMA AuthorizeLeaves ==
  ASSUME RoundInv, NEW c \in CommandIds, NEW action \in Actions,
         NEW expected, DOMAIN expected \subseteq Jobs, Authorize(c, action, expected)
  PROVE  /\ \A j \in Jobs : /\ Over(j)' <=> Over(j)
                            /\ job'[j].state = "completed" <=> job[j].state = "completed"
                            /\ Over(j) => job'[j] = job[j] /\ head'[j] = head[j]
                            /\ job[j].revision <= job'[j].revision
                            /\ job'[j] # job[j] => job[j].revision < job'[j].revision
         /\ \A d \in CommandIds : d # c => commands'[d] = commands[d]
         /\ \A h \in Batches :
              /\ Len(rounds[h]) \in Nat
              /\ \A n \in 1..Len(rounds[h]) :
                   /\ rounds'[h][n] = rounds[h][n]
                   /\ rounds[h][n].owner # c
                   /\ Members(rounds[h][n].owner, h)' = Members(rounds[h][n].owner, h)
              /\ \/ rounds'[h] = rounds[h]
                 \/ /\ Len(rounds'[h]) = Len(rounds[h]) + 1
                    /\ rounds'[h][Len(rounds[h]) + 1] = [owner |-> c, status |-> "open"]
                    /\ \E j \in Members(c, h)' : ~Over(j)
<1> DEFINE N == commands'[c].new
           K == commands'[c].existing
           row(j) == [Wanted(j, action) EXCEPT !.revision = @ + 1]
<1>1. /\ commands[c] = NoCommand
      /\ commands' = [commands EXCEPT ![c] = [epoch |-> epoch, new |-> N, existing |-> K]]
      /\ N \cup K \subseteq DOMAIN expected
      /\ \A j \in N \cup K : ~Over(j)
      /\ job' = [j \in Jobs |->
                   IF j \in N \cup K /\ Wanted(j, action) # job[j] THEN row(j) ELSE job[j]]
      /\ rounds' = [h \in Batches |->
                      IF \E j \in N : CohortOf[j] = h
                      THEN Append(rounds[h], [owner |-> c, status |-> "open"]) ELSE rounds[h]]
  BY AuthorizeRows
<1>h. \A j \in Jobs : j \notin N \cup K => head'[j] = head[j]
  BY AuthorizeRows
<1>2. RowsOK /\ HeadIsReadable /\ NewOwns /\ RoundsOK
  BY DEF RoundInv
<1> HIDE DEF N, K
<1>3. ASSUME NEW j \in Jobs
      PROVE  /\ Over(j)' <=> Over(j)
             /\ job'[j].state = "completed" <=> job[j].state = "completed"
             /\ Over(j) => job'[j] = job[j] /\ head'[j] = head[j]
             /\ job[j].revision <= job'[j].revision
             /\ job'[j] # job[j] => job[j].revision < job'[j].revision
  <2>1. /\ row(j).revision = job[j].revision + 1 /\ job[j].revision \in Nat
        /\ row(j).state \in Terminal <=> job[j].state \in Terminal
    BY <1>2, WantedRow DEF RowsOK, JobRow
  <2> HIDE DEF row
  <2>2. \/ job'[j] = job[j]
        \/ j \in N \cup K /\ job'[j] = row(j)
    BY <1>1
  <2>3. "completed" \in Terminal
    BY StatesApart
  <2> QED BY <1>1, <1>h, <2>1, <2>2, <2>3 DEF Over
<1>4. \A d \in CommandIds : d # c => commands'[d] = commands[d]
  BY <1>1, <1>2 DEF RowsOK
<1>5. ASSUME NEW h \in Batches
      PROVE  /\ Len(rounds[h]) \in Nat
             /\ \A n \in 1..Len(rounds[h]) : rounds'[h][n] = rounds[h][n]
             /\ \/ rounds'[h] = rounds[h]
                \/ /\ Len(rounds'[h]) = Len(rounds[h]) + 1
                   /\ rounds'[h][Len(rounds[h]) + 1] = [owner |-> c, status |-> "open"]
                   /\ \E j \in Members(c, h)' : ~Over(j)
  <2>1. rounds[h] \in Seq(RoundRow)
    BY <1>2 DEF RowsOK
  <2>2. rounds'[h] = IF \E j \in N : CohortOf[j] = h
                     THEN Append(rounds[h], [owner |-> c, status |-> "open"]) ELSE rounds[h]
    BY <1>1
  <2>3. commands'[c].new = N
    BY DEF N
  <2>4. \A j \in N : CohortOf[j] = h => j \in Members(c, h)' /\ ~Over(j)
    BY <1>1, <2>3 DEF Members
  <2> QED BY <2>1, <2>2, <2>4
<1>6. ASSUME NEW h \in Batches, NEW n \in 1..Len(rounds[h])
      PROVE  /\ rounds[h][n].owner # c
             /\ Members(rounds[h][n].owner, h)' = Members(rounds[h][n].owner, h)
  <2>1. rounds[h][n].owner # c /\ rounds[h][n].owner \in CommandIds
    BY <1>1, <1>2, UnusedCommand, RoundIsRow
  <2>2. rounds'[h][n] = rounds[h][n]
    BY <1>5
  <2> QED BY <2>1, <2>2, <1>4 DEF Members
<1> QED BY <1>3, <1>4, <1>5, <1>6

\* After a command every round still has members and an owner of its own, and is closed
\* exactly when its members are over.
LEMMA AuthorizeRounds ==
  ASSUME RoundInv, NEW c \in CommandIds, NEW action \in Actions,
         NEW expected, DOMAIN expected \subseteq Jobs, Authorize(c, action, expected)
  PROVE  RoundsOK'
<1> SUFFICES ASSUME NEW h \in Batches, NEW n \in 1..Len(rounds'[h])
             PROVE  /\ Members(rounds[h][n].owner, h)' # {}
                    /\ \A m \in 1..Len(rounds'[h]) :
                          rounds'[h][m].owner = rounds'[h][n].owner => m = n
                    /\ rounds'[h][n].status = "terminal" <=>
                         \A j \in Members(rounds[h][n].owner, h)' : Over(j)'
  BY DEF RoundsOK
<1> DEFINE len == Len(rounds[h])
<1>1. /\ len \in Nat
      /\ \A m \in 1..len : /\ rounds'[h][m] = rounds[h][m] /\ rounds[h][m].owner # c
                           /\ Members(rounds[h][m].owner, h)' = Members(rounds[h][m].owner, h)
      /\ \/ rounds'[h] = rounds[h]
         \/ /\ Len(rounds'[h]) = len + 1 /\ rounds'[h][len + 1] = [owner |-> c, status |-> "open"]
            /\ \E j \in Members(c, h)' : ~Over(j)
      /\ \A j \in Jobs : Over(j)' <=> Over(j)
  BY AuthorizeLeaves
<1>2. \A d \in CommandIds : Members(d, h) \subseteq Jobs
  BY DEF RoundInv, RowsOK, CommandRow, Members
<1>3. Members(c, h)' \subseteq Jobs
  <2>1. commands'[c].new \subseteq Jobs
    BY AuthorizeRows
  <2> QED BY <2>1 DEF Members
<1>4. ASSUME NEW m \in 1..len
      PROVE  /\ Members(rounds[h][m].owner, h) # {} /\ Members(rounds[h][m].owner, h) \subseteq Jobs
             /\ \A k \in 1..len : rounds[h][k].owner = rounds[h][m].owner => k = m
             /\ rounds[h][m].status = "terminal" <=> \A j \in Members(rounds[h][m].owner, h) : Over(j)
  BY <1>2, RoundIsRow DEF RoundInv, RoundsOK
<1>5. CASE n \in 1..len
  <2>1. rounds'[h][n].status = "terminal" <=> \A j \in Members(rounds[h][n].owner, h)' : Over(j)'
    BY <1>1, <1>4, <1>5
  <2>2. \A m \in 1..Len(rounds'[h]) : rounds'[h][m].owner = rounds'[h][n].owner => m = n
    <3> SUFFICES ASSUME NEW m \in 1..Len(rounds'[h]), rounds'[h][m].owner = rounds'[h][n].owner
                 PROVE  m = n
      OBVIOUS
    <3>1. rounds'[h][n].owner = rounds[h][n].owner /\ rounds[h][n].owner # c
      BY <1>1, <1>5
    <3>2. m \in 1..len
      BY <1>1, <3>1
    <3>3. rounds[h][m].owner = rounds[h][n].owner
      BY <1>1, <3>1, <3>2
    <3> QED BY <1>4, <1>5, <3>2, <3>3
  <2> QED BY <2>1, <2>2, <1>1, <1>4, <1>5
<1>6. CASE n \notin 1..len
  <2>1. /\ n = len + 1 /\ Len(rounds'[h]) = len + 1
        /\ rounds'[h][n].owner = c /\ rounds'[h][n].status = "open"
        /\ \E j \in Members(c, h)' : ~Over(j)
    BY <1>1, <1>6
  <2>2. \A m \in 1..len : rounds'[h][m].owner # c
    BY <1>1
  <2>3. \E j \in Members(rounds[h][n].owner, h)' : ~Over(j)'
    BY <2>1, <1>1, <1>3
  <2> QED BY <2>1, <2>2, <2>3, <1>1
<1> QED BY <1>5, <1>6

-----------------------------------------------------------------------------
(* How the outbox follows the rows.                                        *)

\* When the events of one job are added, they are added to the events of all.
LEMMA JobEventsGrow ==
  ASSUME NEW more, \A j \in Jobs : Standalone(j, job) \subseteq Standalone(j, job)',
         \A j \in Jobs : Standalone(j, job)' \subseteq Standalone(j, job) \cup more,
         \A e \in more : \E j \in Jobs : e \in Standalone(j, job)'
  PROVE  JobEvents' = JobEvents \cup more
  BY DEF JobEvents

LEMMA RoundEventsGrow ==
  ASSUME NEW more,
         \A h \in Batches : \A n \in 1..Len(rounds[h]) :
            /\ n \in 1..Len(rounds'[h]) /\ RoundEvent(h, n) \subseteq RoundEvent(h, n)',
         \A h \in Batches : \A n \in 1..Len(rounds'[h]) :
            \/ RoundEvent(h, n)' \subseteq more
            \/ n \in 1..Len(rounds[h]) /\ RoundEvent(h, n)' \subseteq RoundEvent(h, n) \cup more,
         \A e \in more : \E h \in Batches : \E n \in 1..Len(rounds'[h]) : e \in RoundEvent(h, n)'
  PROVE  RoundEvents' = RoundEvents \cup more
<1>1. \A e : e \in RoundEvents <=> \E h \in Batches : \E n \in 1..Len(rounds[h]) : e \in RoundEvent(h, n)
  BY DEF RoundEvents
<1>2. \A e : e \in RoundEvents' <=>
               \E h \in Batches : \E n \in 1..Len(rounds'[h]) : e \in RoundEvent(h, n)'
  BY DEF RoundEvents, Batches
<1> QED BY <1>1, <1>2

LEMMA StartEventsGrow ==
  ASSUME NEW more, \A r \in Starts : StartEvent(r) \subseteq StartEvent(r)',
         \A r \in Starts : StartEvent(r)' \subseteq StartEvent(r) \cup more,
         \A e \in more : \E r \in Starts : e \in StartEvent(r)'
  PROVE  StartEvents' = StartEvents \cup more
  BY DEF StartEvents

\* A step that ends no job, closes no round or start, and leaves the members of what is
\* closed alone calls for no event.
LEMMA SameEvents ==
  ASSUME RoundInv,
         \A j \in Jobs : /\ job'[j].state = "completed" <=> job[j].state = "completed"
                         /\ Over(j) => (head'[j] = None <=> head[j] = None),
         \A h \in Batches :
            /\ Len(rounds[h]) \in Nat
            /\ \A n \in 1..Len(rounds[h]) :
                 rounds'[h][n] = rounds[h][n]
                   /\ Members(rounds[h][n].owner, h)' = Members(rounds[h][n].owner, h)
            /\ \/ rounds'[h] = rounds[h]
               \/ /\ Len(rounds'[h]) = Len(rounds[h]) + 1
                  /\ rounds'[h][Len(rounds[h]) + 1].status = "open",
         \A r \in Starts :
            /\ control'[r].closed <=> control[r].closed
            /\ control[r].closed =>
                 /\ DOMAIN control'[r].cohorts = DOMAIN control[r].cohorts
                 /\ \A c \in Cohorts(r) : commands'[c].new = commands[c].new
  PROVE  (JobEvents \cup RoundEvents \cup StartEvents)' = JobEvents \cup RoundEvents \cup StartEvents
<1>1. JobEvents' = JobEvents
  <2>1. ASSUME NEW j \in Jobs
        PROVE  Standalone(j, job)' = Standalone(j, job)
    <3>1. Announce(<<"job", j>>, {j}, job') = Announce(<<"job", j>>, {j}, job)
      BY AnnounceSame
    <3>2. ~Over(j) => Announce(<<"job", j>>, {j}, job) = {}
      BY StatesApart, AnnounceEvent DEF Over
    <3> QED BY <3>1, <3>2 DEF Standalone
  <2> QED BY <2>1 DEF JobEvents
<1>2. RoundEvents' = RoundEvents
  <2>1. ASSUME NEW h \in Batches, NEW n \in 1..Len(rounds[h])
        PROVE  RoundEvent(h, n)' = RoundEvent(h, n)
    <3>1. Members(rounds[h][n].owner, h) \subseteq Jobs
      BY RoundIsRow DEF RoundInv, RowsOK, CommandRow, Members
    <3>2. Announce(<<"round", h, n>>, Members(rounds[h][n].owner, h), job') =
            Announce(<<"round", h, n>>, Members(rounds[h][n].owner, h), job)
      BY <3>1, AnnounceSame
    <3> QED BY <3>2 DEF RoundEvent
  <2>2. ASSUME NEW h \in Batches, NEW n \in 1..Len(rounds'[h])
        PROVE  n \in 1..Len(rounds[h]) \/ RoundEvent(h, n)' = {}
    BY DEF RoundEvent
  <2>3. ASSUME NEW h \in Batches, NEW n \in 1..Len(rounds[h])
        PROVE  n \in 1..Len(rounds'[h])
    OBVIOUS
  <2>4. RoundEvents' = RoundEvents \cup {}
    <3>1. \A h \in Batches : \A n \in 1..Len(rounds[h]) :
             /\ n \in 1..Len(rounds'[h]) /\ RoundEvent(h, n) \subseteq RoundEvent(h, n)'
      BY ONLY <2>1, <2>3
    <3>2. \A h \in Batches : \A n \in 1..Len(rounds'[h]) :
             \/ RoundEvent(h, n)' \subseteq {}
             \/ n \in 1..Len(rounds[h]) /\ RoundEvent(h, n)' \subseteq RoundEvent(h, n) \cup {}
      BY ONLY <2>1, <2>2
    <3> QED BY ONLY <3>1, <3>2, RoundEventsGrow, Zenon
  <2> QED BY <2>4
<1>3. StartEvents' = StartEvents
  <2>1. ASSUME NEW r \in Starts
        PROVE  StartEvent(r)' = StartEvent(r)
    <3>1. CASE control[r].closed
      <4>1. Cohorts(r)' = Cohorts(r)
        BY <3>1 DEF Cohorts
      <4>2. ASSUME NEW c \in Cohorts(r)
            PROVE  Announce(<<"captured", c>>, commands'[c].new, job') =
                     Announce(<<"captured", c>>, commands[c].new, job)
        <5>1. commands'[c].new = commands[c].new
          BY <3>1
        <5>2. commands[c].new \subseteq Jobs
          BY CohortCommand DEF RoundInv
        <5> QED BY <5>1, <5>2, AnnounceSame
      <4>3. CapturedEvents(r, job)' = CapturedEvents(r, job)
        BY <4>1, <4>2 DEF CapturedEvents
      <4> QED BY <3>1, <4>3 DEF StartEvent
    <3>2. CASE ~control[r].closed
      BY <3>2 DEF StartEvent
    <3> QED BY <3>1, <3>2
  <2> QED BY <2>1 DEF StartEvents
<1> QED BY <1>1, <1>2, <1>3

-----------------------------------------------------------------------------
(* What one job's move does.                                               *)

\* The rounds keep their owners, whichever of them is closed.
SameRounds ==
  \A h \in Batches : /\ Len(rounds[h]) \in Nat /\ Len(rounds'[h]) = Len(rounds[h])
                     /\ \A n \in 1..Len(rounds[h]) : rounds'[h][n].owner = rounds[h][n].owner

\* The job that moves and its head, and the others.
LEMMA MoveRows ==
  ASSUME RoundInv, NEW j \in Jobs, NEW row \in JobRow, Move(j, row)
  PROVE  /\ job' \in [Jobs -> JobRow] /\ head' \in [Jobs -> HeadRow \cup {None}]
         /\ RevisionsOK'
         /\ \A k \in Jobs : k # j => job'[k] = job[k] /\ head'[k] = head[k]
         /\ job'[j].state = row.state /\ job'[j].revision = job[j].revision + 1
         /\ job[j].revision \in Nat
         /\ head[j] = None => head'[j] = None
         /\ head[j] # None =>
              /\ head'[j] \in HeadRow /\ head'[j] # None
              /\ head'[j].owner = head[j].owner /\ head'[j].activation = head[j].activation
              /\ head'[j].round = head[j].round
              /\ head'[j].revision = job'[j].revision /\ head'[j].state = job'[j].state
              /\ head'[j].epoch = epoch
              /\ head'[j].status = IF row.state \in Terminal THEN "terminal" ELSE head[j].status
<1>1. RowsOK /\ RevisionsOK /\ epoch \in Nat /\ MaxRevision \in Nat
  BY RoundConstants DEF RoundInv, RowsOK
<1>2. job[j].revision \in Nat /\ job[j].revision < MaxRevision
  BY <1>1 DEF RowsOK, JobRow, Move
<1> DEFINE new == [row EXCEPT !.revision = job[j].revision + 1]
<1>3. new \in JobRow /\ new.state = row.state /\ new.revision = job[j].revision + 1
  BY <1>2 DEF JobRow
<1>4. job' = [job EXCEPT ![j] = new]
  BY DEF Move
<1> HIDE DEF new
<1>5. job' \in [Jobs -> JobRow] /\ job'[j] = new /\ \A k \in Jobs : k # j => job'[k] = job[k]
  BY <1>1, <1>3, <1>4 DEF RowsOK
<1>6. RevisionsOK'
  BY <1>1, <1>2, <1>3, <1>5 DEF RevisionsOK
<1>7. \A k \in Jobs : k # j => head'[k] = head[k]
  BY <1>1 DEF RowsOK, Move
<1>8. CASE head[j] = None
  <2>1. head' = head
    BY <1>8 DEF Move
  <2> QED BY <2>1, <1>1, <1>3, <1>5, <1>6, <1>8, <1>2 DEF RowsOK
<1>9. CASE head[j] # None
  <2> DEFINE status == IF row.state \in Terminal THEN "terminal" ELSE head[j].status
             h == [head[j] EXCEPT !.revision = new.revision, !.state = new.state,
                                  !.epoch = epoch, !.status = status]
  <2>1. head' = [head EXCEPT ![j] = h]
    BY <1>9, <1>5 DEF Move, Fence
  <2>2. head[j] \in HeadRow
    BY <1>1, <1>9 DEF RowsOK
  <2>3. status \in {"current", "inactive", "terminal"}
    BY <2>2 DEF HeadRow
  <2> HIDE DEF status
  <2>4. /\ h \in HeadRow /\ h.owner = head[j].owner /\ h.activation = head[j].activation
        /\ h.round = head[j].round /\ h.revision = new.revision /\ h.state = new.state
        /\ h.epoch = epoch /\ h.status = status
    BY <2>2, <2>3, <1>1, <1>3 DEF HeadRow, JobRow
  <2> HIDE DEF h
  <2>5. head'[j] = h /\ h # None
    BY <2>1, <2>4, <1>1, RoundMarkers DEF RowsOK
  <2>6. head' \in [Jobs -> HeadRow \cup {None}]
    BY <2>1, <2>4, <1>1 DEF RowsOK
  <2> QED BY <2>4, <2>5, <2>6, <1>2, <1>3, <1>5, <1>6, <1>7, <1>9 DEF status
<1> QED BY <1>8, <1>9

\* After the move of a job that is not over the heads can be read, and still own their jobs.
LEMMA MoveReadable ==
  ASSUME RoundInv, NEW j \in Jobs, NEW row \in JobRow, Move(j, row), ~Over(j),
         SameRounds, epoch' = epoch, commands' = commands
  PROVE  HeadIsReadable' /\ NewOwns'
<1>1. RowsOK /\ HeadIsReadable /\ NewOwns
  BY DEF RoundInv
<1>2. HeadIsReadable'
  <2> SUFFICES ASSUME NEW k \in Jobs, head'[k] # None
               PROVE  ReadableHead(k, head[k])'
    BY DEF HeadIsReadable
  <2>1. head[k] # None
    BY MoveRows
  <2>2. /\ ReadableHead(k, head[k]) /\ CohortOf[k] \in Batches
        /\ head[k].round \in 1..Len(rounds[CohortOf[k]])
    BY <2>1, <1>1, ManagedHead DEF HeadIsReadable
  <2>3. /\ Len(rounds'[CohortOf[k]]) = Len(rounds[CohortOf[k]])
        /\ rounds'[CohortOf[k]][head[k].round].owner = rounds[CohortOf[k]][head[k].round].owner
    BY <2>2 DEF SameRounds
  <2>4. CASE k # j
    <3>1. job'[k] = job[k] /\ head'[k] = head[k]
      BY <2>4, MoveRows
    <3> QED BY <3>1, <2>2, <2>3 DEF ReadableHead
  <2>5. CASE k = j
    <3>1. /\ head'[j].owner = head[j].owner /\ head'[j].activation = head[j].activation
          /\ head'[j].round = head[j].round
          /\ head'[j].revision = job'[j].revision /\ head'[j].state = job'[j].state
          /\ head'[j].epoch = epoch
          /\ head'[j].status = IF row.state \in Terminal THEN "terminal" ELSE head[j].status
          /\ job'[j].state = row.state
      BY <2>1, <2>5, MoveRows
    <3>2. head[j].status # "terminal"
      BY <2>2, <2>5 DEF ReadableHead, Over
    <3>3. head'[j].status = "terminal" <=> job'[j].state \in Terminal
      BY <3>1, <3>2
    <3>4. head'[j].status = "current" => head[j].status = "current"
      BY <3>1
    <3> QED BY <3>1, <3>3, <3>4, <2>2, <2>3, <2>5 DEF ReadableHead
  <2> QED BY <2>4, <2>5
<1>3. NewOwns'
  <2> SUFFICES ASSUME NEW c \in CommandIds, NEW k \in commands[c].new
               PROVE  head'[k] # None /\ head'[k].owner = c
    BY DEF NewOwns
  <2>1. k \in Jobs /\ head[k] # None /\ head[k].owner = c
    BY <1>1 DEF NewOwns, RowsOK, CommandRow
  <2> QED BY <2>1, MoveRows
<1> QED BY <1>2, <1>3

-----------------------------------------------------------------------------
(* What the end of a job closes.                                           *)

\* Closing one round leaves the others, and every owner, alone.
LEMMA OneRoundClosed ==
  ASSUME RowsOK, NEW h \in Batches, NEW n \in 1..Len(rounds[h]),
         rounds' = [rounds EXCEPT ![h][n].status = "terminal"]
  PROVE  /\ rounds' \in [Batches -> Seq(RoundRow)] /\ SameRounds
         /\ rounds'[h][n].status = "terminal"
         /\ \A g \in Batches : \A m \in 1..Len(rounds[g]) :
               g # h \/ m # n => rounds'[g][m] = rounds[g][m]
<1> DEFINE row == [rounds[h][n] EXCEPT !.status = "terminal"]
<1>1. rounds[h][n] \in RoundRow /\ \A g \in Batches : rounds[g] \in Seq(RoundRow) /\ Len(rounds[g]) \in Nat
  BY RoundIsRow DEF RowsOK
<1>2. row \in RoundRow /\ row.owner = rounds[h][n].owner /\ row.status = "terminal"
  BY <1>1 DEF RoundRow
<1>3. rounds' = [rounds EXCEPT ![h] = [rounds[h] EXCEPT ![n] = row]]
  OBVIOUS
<1> HIDE DEF row
<1>4. rounds'[h] = [rounds[h] EXCEPT ![n] = row] /\ \A g \in Batches : g # h => rounds'[g] = rounds[g]
  BY <1>3 DEF RowsOK
<1>5. /\ rounds'[h] \in Seq(RoundRow) /\ Len(rounds'[h]) = Len(rounds[h]) /\ rounds'[h][n] = row
      /\ \A m \in 1..Len(rounds[h]) : m # n => rounds'[h][m] = rounds[h][m]
  BY <1>1, <1>2, <1>4
<1>6. rounds' \in [Batches -> Seq(RoundRow)]
  BY <1>1, <1>3, <1>4, <1>5 DEF RowsOK
<1> QED BY <1>1, <1>2, <1>4, <1>5, <1>6 DEF SameRounds

\* The ways in which the end of a job may close its round and its start.
LEMMA CloseCases ==
  ASSUME RoundInv, NEW j \in Jobs, CloseRound(j)
  PROVE  LET o == head[j].owner
             h == CohortOf[j]
             n == head[j].round
         IN  \/ /\ ~Closes(j, head') /\ rounds' = rounds /\ control' = control
                /\ outbox' = outbox \cup Standalone(j, job')
             \/ /\ Closes(j, head') /\ head[j] # None
                /\ rounds' = [rounds EXCEPT ![h][n].status = "terminal"]
                /\ \/ /\ o \notin Children /\ control' = control
                      /\ outbox' = outbox \cup Announce(<<"round", h, n>>, Members(o, h), job')
                   \/ /\ o \in Children /\ Closable(o[1], control[o[1]].status, head')
                      /\ control' = [control EXCEPT ![o[1]].closed = TRUE]
                      /\ outbox' = outbox \cup CapturedEvents(o[1], job')
                   \/ /\ o \in Children /\ ~Closable(o[1], control[o[1]].status, head')
                      /\ control' = control /\ outbox' = outbox
<1>1. CASE Closes(j, head')
  <2>1. head[j] # None
    BY <1>1 DEF Closes
  <2>2. Standalone(j, job') = {}
    BY <2>1 DEF Standalone
  <2> QED BY <1>1, <2>1, <2>2 DEF CloseRound
<1>2. CASE ~Closes(j, head')
  BY <1>2 DEF CloseRound
<1> QED BY <1>1, <1>2

\* The rounds and starts keep all but what says that they are closed.
LEMMA CloseTypes ==
  ASSUME RoundInv, NEW j \in Jobs, CloseRound(j)
  PROVE  /\ rounds' \in [Batches -> Seq(RoundRow)] /\ SameRounds
         /\ control' \in [Starts -> ControlRow]
         /\ \A r \in Starts :
              /\ control'[r].status = control[r].status /\ control'[r].epoch = control[r].epoch
              /\ control'[r].cohorts = control[r].cohorts
<1> DEFINE o == head[j].owner
           h == CohortOf[j]
           n == head[j].round
<1>1. RowsOK /\ HeadIsReadable
  BY DEF RoundInv
<1>2. ASSUME rounds' = rounds
      PROVE  rounds' \in [Batches -> Seq(RoundRow)] /\ SameRounds
  BY <1>1, <1>2 DEF RowsOK, SameRounds
<1>3. ASSUME head[j] # None, rounds' = [rounds EXCEPT ![h][n].status = "terminal"]
      PROVE  rounds' \in [Batches -> Seq(RoundRow)] /\ SameRounds
  BY <1>1, <1>3, ManagedHead, OneRoundClosed
<1>4. control' = control \/ \E r \in Starts : control' = [control EXCEPT ![r].closed = TRUE]
  <2>1. o \in Children => o[1] \in Starts
    BY DEF Children
  <2> QED BY <2>1, CloseCases
<1>5. control' \in [Starts -> ControlRow]
      /\ \A r \in Starts :
           /\ control'[r].status = control[r].status /\ control'[r].epoch = control[r].epoch
           /\ control'[r].cohorts = control[r].cohorts
  <2>1. ASSUME NEW r \in Starts
        PROVE  LET closed == [control[r] EXCEPT !.closed = TRUE]
               IN  /\ closed \in ControlRow /\ closed.status = control[r].status
                   /\ closed.epoch = control[r].epoch /\ closed.cohorts = control[r].cohorts
    BY <1>1 DEF RowsOK, ControlRow
  <2> QED BY <1>1, <1>4, <2>1 DEF RowsOK
<1> QED BY <1>2, <1>3, <1>5, CloseCases

\* The end of a job is the end of the members of its own command only.
LEMMA OthersUntouched ==
  ASSUME RoundInv, NEW j \in Jobs, NEW row \in JobRow, Move(j, row),
         NEW c \in CommandIds, head[j] = None \/ head[j].owner # c
  PROVE  /\ j \notin commands[c].new /\ commands[c].new \subseteq Jobs
         /\ \A k \in commands[c].new : job'[k] = job[k] /\ head'[k] = head[k]
<1>1. commands[c].new \subseteq Jobs /\ NewOwns
  BY DEF RoundInv, RowsOK, CommandRow
<1>2. j \notin commands[c].new
  BY <1>1 DEF NewOwns
<1> QED BY <1>1, <1>2, MoveRows


\* A head that can be read is terminal when its job is over; so members have ended when they
\* are over, before a move and after it.
LEMMA EndedIsOver ==
  ASSUME RoundInv, NEW c \in CommandIds, NEW members \in SUBSET commands[c].new
  PROVE  Ended(head, members) <=> \A k \in members : Over(k)
<1>1. members \subseteq Jobs
  BY DEF RoundInv, RowsOK, CommandRow
<1>2. \A k \in members : head[k] # None /\ (head[k].status = "terminal" <=> Over(k))
  BY <1>1 DEF RoundInv, NewOwns, HeadIsReadable, ReadableHead, Over
<1> QED BY <1>2 DEF Ended

LEMMA EndedAfter ==
  ASSUME RoundInv, NEW j \in Jobs, NEW row \in JobRow, Move(j, row), ~Over(j),
         CloseRound(j), epoch' = epoch, commands' = commands,
         NEW c \in CommandIds, NEW members \in SUBSET commands[c].new
  PROVE  Ended(head', members) <=> \A k \in members : Over(k)'
<1>1. members \subseteq Jobs
  BY DEF RoundInv, RowsOK, CommandRow
<1>2. HeadIsReadable' /\ NewOwns'
  BY MoveReadable, CloseTypes
<1>3. \A k \in members : head'[k] # None /\ (head'[k].status = "terminal" <=> Over(k)')
  BY <1>1, <1>2 DEF NewOwns, HeadIsReadable, ReadableHead, Over
<1> QED BY <1>3 DEF Ended

\* When a job moves, its round closes if that was the last of its members.
LEMMA CloseIsLast ==
  ASSUME RoundInv, NEW j \in Jobs, NEW row \in JobRow, Move(j, row), ~Over(j),
         CloseRound(j), epoch' = epoch, commands' = commands, head[j] # None
  PROVE  Closes(j, head') <=> \A k \in Members(head[j].owner, CohortOf[j]) : Over(k)'
<1> DEFINE o == head[j].owner
           h == CohortOf[j]
           n == head[j].round
<1>1. RowsOK /\ HeadIsReadable /\ NewOwns /\ RoundsOK
  BY DEF RoundInv
<1>2. o \in CommandIds /\ h \in Batches /\ n \in 1..Len(rounds[h]) /\ rounds[h][n].owner = o
      /\ j \in Members(o, h)
  BY <1>1, ManagedHead
<1>3. rounds[h][n].status = "open"
  BY <1>1, <1>2, RoundIsRow DEF RoundsOK, RoundRow
<1>4. Members(o, h) \in SUBSET commands[o].new /\ {j} \in SUBSET commands[o].new
  BY <1>2 DEF Members
<1>5. Ended(head', Members(o, h)) <=> \A k \in Members(o, h) : Over(k)'
  BY <1>2, <1>4, EndedAfter
<1>6. head'[j].status = "terminal" <=> Over(j)'
  <2>1. HeadIsReadable' /\ head'[j] # None
    BY MoveReadable, CloseTypes, MoveRows
  <2> QED BY <2>1 DEF HeadIsReadable, ReadableHead, Over
<1> QED BY <1>2, <1>3, <1>5, <1>6 DEF Closes

\* The rounds that are closed are again those whose members are over.
LEMMA CloseRounds ==
  ASSUME RoundInv, NEW j \in Jobs, NEW row \in JobRow, Move(j, row), ~Over(j),
         CloseRound(j), epoch' = epoch, commands' = commands
  PROVE  RoundsOK'
<1> SUFFICES ASSUME NEW g \in Batches, NEW m \in 1..Len(rounds'[g])
             PROVE  /\ Members(rounds[g][m].owner, g)' # {}
                    /\ \A k \in 1..Len(rounds'[g]) :
                          rounds'[g][k].owner = rounds'[g][m].owner => k = m
                    /\ rounds'[g][m].status = "terminal" <=>
                         \A k \in Members(rounds[g][m].owner, g)' : Over(k)'
  BY DEF RoundsOK, Batches
<1> DEFINE o == head[j].owner
           h == CohortOf[j]
           n == head[j].round
           w == rounds[g][m].owner
<1>1. RowsOK /\ HeadIsReadable /\ NewOwns /\ RoundsOK
  BY DEF RoundInv
<1>2. SameRounds
  BY CloseTypes
<1>3. /\ m \in 1..Len(rounds[g]) /\ Len(rounds'[g]) = Len(rounds[g])
      /\ \A k \in 1..Len(rounds[g]) : rounds'[g][k].owner = rounds[g][k].owner
  BY <1>2 DEF SameRounds
<1>4. Members(rounds[g][m].owner, g)' = Members(w, g)
  BY <1>3 DEF Members
<1>5. /\ Members(w, g) # {} /\ \A k \in 1..Len(rounds[g]) : rounds[g][k].owner = w => k = m
      /\ rounds[g][m].status = "terminal" <=> \A k \in Members(w, g) : Over(k)
      /\ w \in CommandIds
  BY <1>1, <1>3, RoundIsRow DEF RoundsOK
<1>6. rounds'[g][m].status = "terminal" <=> \A k \in Members(w, g) : Over(k)'
  <2>1. CASE j \in Members(w, g)
    <3>1. head[j] # None /\ o = w /\ h = g
      BY <2>1, <1>1, <1>5, MembersOwned
    <3>2. n \in 1..Len(rounds[g]) /\ n = m
      BY <3>1, <1>1, <1>5, ManagedHead
    <3>3. Closes(j, head') <=> \A k \in Members(w, g) : Over(k)'
      BY <3>1, CloseIsLast
    <3>4. rounds[g][m].status # "terminal"
      BY <2>1, <1>5
    <3>5. CASE Closes(j, head')
      <4>1. rounds' = [rounds EXCEPT ![g][m].status = "terminal"]
        BY <3>1, <3>2, <3>5, CloseCases
      <4> QED BY <4>1, <3>3, <3>5, <1>1, <1>3, OneRoundClosed
    <3>6. CASE ~Closes(j, head')
      <4>1. rounds' = rounds
        BY <3>6, CloseCases
      <4> QED BY <4>1, <3>3, <3>4, <3>6
    <3> QED BY <3>5, <3>6
  <2>2. CASE j \notin Members(w, g)
    <3>1. \A k \in Members(w, g) : Over(k)' <=> Over(k)
      <4>1. \A k \in Members(w, g) : k \in Jobs /\ k # j
        BY <2>2, <1>1, <1>5, MembersOwned
      <4> QED BY <4>1, MoveRows DEF Over
    <3>2. rounds'[g][m] = rounds[g][m]
      <4>1. CASE rounds' = rounds
        BY <4>1
      <4>2. CASE rounds' # rounds
        <5>1. head[j] # None /\ rounds' = [rounds EXCEPT ![h][n].status = "terminal"]
          BY <4>2, CloseCases
        <5>2. /\ h \in Batches /\ n \in 1..Len(rounds[h]) /\ rounds[h][n].owner = o
              /\ j \in Members(o, h)
          BY <5>1, <1>1, ManagedHead
        <5>3. g # h \/ m # n
          BY <5>2, <2>2
        <5> QED BY <5>1, <5>2, <5>3, <1>1, <1>3, OneRoundClosed
      <4> QED BY <4>1, <4>2
    <3> QED BY <3>1, <3>2, <1>5
  <2> QED BY <2>1, <2>2
<1>7. \A k \in 1..Len(rounds'[g]) : rounds'[g][k].owner = rounds'[g][m].owner => k = m
  BY <1>3, <1>5
<1> QED BY <1>4, <1>5, <1>6, <1>7

\* The start that gave a managed job its authority, and its cohort.
LEMMA OwnStart ==
  ASSUME RoundInv, NEW j \in Jobs, head[j] # None, head[j].owner \in Children
  PROVE  /\ head[j].owner[1] \in Starts /\ head[j].owner \in Cohorts(head[j].owner[1])
         /\ head[j].owner \in CommandIds /\ j \in commands[head[j].owner].new
<1> DEFINE o == head[j].owner
<1>1. j \in commands[o].new /\ o \in CommandIds
  BY ManagedHead DEF RoundInv, HeadIsReadable, ReadableHead
<1>2. PICK r \in Starts, i \in 1..NJobs : o = <<r, i>>
  BY DEF Children
<1>3. commands[o] # NoCommand
  BY <1>1 DEF NoCommand
<1>4. i \in DOMAIN control[r].cohorts
  BY <1>2, <1>3 DEF RoundInv, ChildrenOK
<1> QED BY <1>1, <1>2, <1>4 DEF Cohorts

\* A start can be closed when it is applied and all its members are over.
LEMMA ClosableIsOver ==
  ASSUME RoundInv, NEW r \in Starts, NEW status
  PROVE  Closable(r, status, head) <=>
           /\ status = "applied" /\ ~control[r].closed
           /\ \A c \in Cohorts(r) : \A k \in commands[c].new : Over(k)
<1>1. ASSUME NEW c \in Cohorts(r)
      PROVE  Ended(head, commands[c].new) <=> \A k \in commands[c].new : Over(k)
  <2>1. c \in CommandIds /\ commands[c].new \in SUBSET commands[c].new
    BY CohortCommand DEF RoundInv
  <2> QED BY <2>1, EndedIsOver
<1> QED BY <1>1 DEF Closable

LEMMA ClosableAfter ==
  ASSUME RoundInv, NEW j \in Jobs, NEW row \in JobRow, Move(j, row), ~Over(j),
         CloseRound(j), epoch' = epoch, commands' = commands, NEW r \in Starts, NEW status
  PROVE  Closable(r, status, head') <=>
           /\ status = "applied" /\ ~control[r].closed
           /\ \A c \in Cohorts(r) : \A k \in commands[c].new : Over(k)'
<1>1. ASSUME NEW c \in Cohorts(r)
      PROVE  Ended(head', commands[c].new) <=> \A k \in commands[c].new : Over(k)'
  <2>1. c \in CommandIds /\ commands[c].new \in SUBSET commands[c].new
    BY CohortCommand DEF RoundInv
  <2> QED BY <2>1, EndedAfter
<1> QED BY <1>1 DEF Closable

\* The starts that are closed are again those that are applied and all over: the last member
\* of a start is the last of its round.
LEMMA CloseStarts ==
  ASSUME RoundInv, NEW j \in Jobs, NEW row \in JobRow, Move(j, row), ~Over(j),
         CloseRound(j), epoch' = epoch, commands' = commands
  PROVE  ClosedOK'
<1> SUFFICES ASSUME NEW r \in Starts
             PROVE  control'[r].closed <=>
                      /\ control'[r].status = "applied"
                      /\ \A c \in Cohorts(r)' : \A k \in commands'[c].new : Over(k)'
  BY DEF ClosedOK
<1> DEFINE o == head[j].owner
           allOver == \A c \in Cohorts(r) : \A k \in commands[c].new : Over(k)'
<1>1. RowsOK /\ ClosedOK
  BY DEF RoundInv
<1>2. control'[r].status = control[r].status /\ Cohorts(r)' = Cohorts(r)
  BY CloseTypes DEF Cohorts
<1>3. CASE head[j] # None /\ o \in Children /\ o[1] = r
  <2>1. o \in Cohorts(r) /\ j \in commands[o].new /\ o \in CommandIds
    BY <1>3, OwnStart
  <2>2. ~control[r].closed
    BY <2>1, <1>1 DEF ClosedOK
  <2>3. Closable(r, control[r].status, head') <=> control[r].status = "applied" /\ allOver
    BY <2>2, ClosableAfter
  <2>4. allOver => Closes(j, head')
    <3>1. Members(o, CohortOf[j]) \subseteq commands[o].new
      BY DEF Members
    <3>2. allOver => \A k \in Members(o, CohortOf[j]) : Over(k)'
      BY <3>1, <2>1
    <3> QED BY <3>2, <1>3, CloseIsLast
  <2>5. CASE Closes(j, head') /\ Closable(r, control[r].status, head')
    <3>1. control' = [control EXCEPT ![r].closed = TRUE]
      BY <2>5, <1>3, CloseCases
    <3>2. control'[r].closed
      BY <3>1, <1>1 DEF RowsOK, ControlRow
    <3> QED BY <3>2, <2>3, <2>5, <1>2
  <2>6. CASE ~(Closes(j, head') /\ Closable(r, control[r].status, head'))
    <3>1. control' = control
      BY <2>6, <1>3, CloseCases
    <3> QED BY <3>1, <2>2, <2>3, <2>4, <2>6, <1>2
  <2> QED BY <2>5, <2>6
<1>4. CASE ~(head[j] # None /\ o \in Children /\ o[1] = r)
  <2>1. control'[r] = control[r]
    <3>1. control' = control \/ \E q \in Starts : q # r /\ control' = [control EXCEPT ![q].closed = TRUE]
      <4>1. o \in Children => o[1] \in Starts
        BY DEF Children
      <4> QED BY <4>1, <1>4, CloseCases
    <3> QED BY <3>1, <1>1 DEF RowsOK
  <2>2. ASSUME NEW c \in Cohorts(r)
        PROVE  \A k \in commands[c].new : Over(k)' <=> Over(k)
    <3>1. c \in CommandIds /\ c \in Children /\ c[1] = r
      BY <1>1, CohortCommand
    <3>2. head[j] = None \/ head[j].owner # c
      BY <3>1, <1>4
    <3> QED BY <3>1, <3>2, OthersUntouched DEF Over
  <2> QED BY <2>1, <2>2, <1>1, <1>2 DEF ClosedOK
<1> QED BY <1>3, <1>4

\* The announcement of a closing round that no captured start owns.
ClosingEvent(j) ==
  IF Closes(j, head') /\ head[j].owner \notin Children
  THEN Announce(<<"round", CohortOf[j], head[j].round>>, Members(head[j].owner, CohortOf[j]), job')
  ELSE {}

LEMMA CloseRoundEvents ==
  ASSUME RoundInv, NEW j \in Jobs, NEW row \in JobRow, Move(j, row), ~Over(j),
         CloseRound(j), epoch' = epoch, commands' = commands
  PROVE  RoundEvents' = RoundEvents \cup ClosingEvent(j)
<1> DEFINE o == head[j].owner
           h == CohortOf[j]
           n == head[j].round
<1>1. RowsOK /\ HeadIsReadable /\ NewOwns /\ RoundsOK /\ SameRounds
  BY CloseTypes DEF RoundInv
<1>2. ASSUME NEW g \in Batches, NEW m \in 1..Len(rounds[g]),
             ~(head[j] # None /\ g = h /\ m = n)
      PROVE  RoundEvent(g, m)' = RoundEvent(g, m)
  <2> DEFINE w == rounds[g][m].owner
  <2>1. w \in CommandIds /\ Members(w, g) \subseteq Jobs
    BY <1>1, RoundIsRow DEF RowsOK, CommandRow, Members
  <2>2. rounds'[g][m] = rounds[g][m]
    <3>1. CASE rounds' = rounds
      BY <3>1
    <3>2. CASE rounds' # rounds
      <4>1. head[j] # None /\ rounds' = [rounds EXCEPT ![h][n].status = "terminal"]
        BY <3>2, CloseCases
      <4>2. h \in Batches /\ n \in 1..Len(rounds[h])
        BY <4>1, <1>1, ManagedHead
      <4> QED BY <4>1, <4>2, <1>1, <1>2, OneRoundClosed
    <3> QED BY <3>1, <3>2
  <2>3. j \notin Members(w, g)
    <3> SUFFICES ASSUME j \in Members(w, g) PROVE FALSE
      OBVIOUS
    <3>1. head[j] # None /\ o = w /\ h = g
      BY <1>1, <2>1, MembersOwned
    <3>2. n \in 1..Len(rounds[g]) /\ rounds[g][n].owner = w
      BY <3>1, <1>1, ManagedHead
    <3>3. n = m
      BY <3>2, <1>1 DEF RoundsOK
    <3> QED BY <3>1, <3>3, <1>2
  <2>4. Announce(<<"round", g, m>>, Members(w, g), job') = Announce(<<"round", g, m>>, Members(w, g), job)
    <3>1. \A k \in Members(w, g) : job'[k].state = "completed" <=> job[k].state = "completed"
      BY <2>1, <2>3, MoveRows
    <3> QED BY <3>1, AnnounceSame
  <2>5. Members(rounds[g][m].owner, g)' = Members(w, g)
    BY <2>2 DEF Members
  <2> QED BY <2>2, <2>4, <2>5 DEF RoundEvent
<1>3. ASSUME head[j] # None, NEW g, NEW m, g = h, m = n
      PROVE  /\ g \in Batches /\ m \in 1..Len(rounds[g])
             /\ RoundEvent(g, m) = {} /\ RoundEvent(g, m)' = ClosingEvent(j)
  <2>1. g \in Batches /\ m \in 1..Len(rounds[g]) /\ rounds[g][m].owner = o /\ j \in Members(o, g)
    BY <1>1, <1>3, ManagedHead
  <2>2. rounds[g][m].status # "terminal"
    BY <1>1, <2>1 DEF RoundsOK
  <2>3. CASE Closes(j, head')
    <3>1. rounds' = [rounds EXCEPT ![g][m].status = "terminal"]
      BY <1>3, <2>3, CloseCases
    <3>2. rounds'[g][m].status = "terminal" /\ rounds'[g][m].owner = o
      BY <3>1, <2>1, <1>1, OneRoundClosed DEF SameRounds
    <3>3. Members(rounds[g][m].owner, g)' = Members(o, g)
      BY <3>2 DEF Members
    <3> QED BY <1>3, <2>1, <2>2, <2>3, <3>2, <3>3 DEF RoundEvent, ClosingEvent
  <2>4. CASE ~Closes(j, head')
    <3>1. rounds' = rounds
      BY <2>4, CloseCases
    <3> QED BY <2>1, <2>2, <2>4, <3>1 DEF RoundEvent, ClosingEvent
  <2> QED BY <2>3, <2>4
<1>4. head[j] = None => ClosingEvent(j) = {}
  BY DEF ClosingEvent, Closes
<1>5. \A g \in Batches : \A m \in 1..Len(rounds[g]) :
         m \in 1..Len(rounds'[g]) /\ RoundEvent(g, m) \subseteq RoundEvent(g, m)'
  <2>1. \A g \in Batches : Len(rounds'[g]) = Len(rounds[g])
    BY <1>1 DEF SameRounds
  <2> QED BY <2>1, <1>2, <1>3
<1>6. \A g \in Batches : \A m \in 1..Len(rounds'[g]) :
         \/ RoundEvent(g, m)' \subseteq ClosingEvent(j)
         \/ m \in 1..Len(rounds[g]) /\ RoundEvent(g, m)' \subseteq RoundEvent(g, m) \cup ClosingEvent(j)
  <2>1. \A g \in Batches : Len(rounds'[g]) = Len(rounds[g])
    BY <1>1 DEF SameRounds
  <2> QED BY <2>1, <1>2, <1>3
<1>7. \A e \in ClosingEvent(j) : \E g \in Batches : \E m \in 1..Len(rounds'[g]) : e \in RoundEvent(g, m)'
  <2>1. \A g \in Batches : Len(rounds'[g]) = Len(rounds[g])
    BY <1>1 DEF SameRounds
  <2> QED BY <2>1, <1>3, <1>4
<1> QED BY ONLY <1>5, <1>6, <1>7, RoundEventsGrow

LEMMA CloseJobEvents ==
  ASSUME RoundInv, NEW j \in Jobs, NEW row \in JobRow, Move(j, row), ~Over(j)
  PROVE  JobEvents' = JobEvents \cup Standalone(j, job')
<1>1. ASSUME NEW k \in Jobs, k # j
      PROVE  Standalone(k, job)' = Standalone(k, job)
  <2>1. job'[k] = job[k] /\ head'[k] = head[k]
    BY <1>1, MoveRows
  <2>2. Announce(<<"job", k>>, {k}, job') = Announce(<<"job", k>>, {k}, job)
    BY <2>1, AnnounceSame
  <2> QED BY <2>1, <2>2 DEF Standalone
<1>2. Standalone(j, job) = {}
  BY StatesApart, AnnounceEvent DEF Standalone, Over
<1>3. Standalone(j, job)' = Standalone(j, job')
  BY MoveRows DEF Standalone
<1>4. \A k \in Jobs : Standalone(k, job) \subseteq Standalone(k, job)'
  BY <1>1, <1>2
<1>5. \A k \in Jobs : Standalone(k, job)' \subseteq Standalone(k, job) \cup Standalone(j, job')
  BY <1>1, <1>3
<1>6. \A e \in Standalone(j, job') : \E k \in Jobs : e \in Standalone(k, job)'
  BY <1>3
<1> QED BY ONLY <1>4, <1>5, <1>6, JobEventsGrow

\* The announcements of a closing start.
ClosingStart(j) ==
  LET o == head[j].owner
  IN  IF Closes(j, head') /\ o \in Children /\ Closable(o[1], control[o[1]].status, head')
      THEN CapturedEvents(o[1], job') ELSE {}

LEMMA CloseStartEvents ==
  ASSUME RoundInv, NEW j \in Jobs, NEW row \in JobRow, Move(j, row), ~Over(j),
         CloseRound(j), epoch' = epoch, commands' = commands
  PROVE  StartEvents' = StartEvents \cup ClosingStart(j)
<1> DEFINE o == head[j].owner
           Mine(r) == head[j] # None /\ o \in Children /\ o[1] = r
<1>1. RowsOK /\ ClosedOK
  BY DEF RoundInv
<1>2. ASSUME NEW r \in Starts
      PROVE  Cohorts(r)' = Cohorts(r) /\ CapturedEvents(r, job)' = CapturedEvents(r, job')
  <2>1. Cohorts(r)' = Cohorts(r)
    BY CloseTypes DEF Cohorts
  <2> QED BY <2>1 DEF CapturedEvents
<1>3. ASSUME NEW r \in Starts, ~Mine(r)
      PROVE  StartEvent(r)' = StartEvent(r)
  <2>1. control'[r] = control[r]
    <3>1. control' = control \/ \E q \in Starts : q # r /\ control' = [control EXCEPT ![q].closed = TRUE]
      <4>1. o \in Children => o[1] \in Starts
        BY DEF Children
      <4> QED BY <4>1, <1>3, CloseCases
    <3> QED BY <3>1, <1>1 DEF RowsOK
  <2>2. ASSUME NEW c \in Cohorts(r)
        PROVE  Announce(<<"captured", c>>, commands[c].new, job') =
                 Announce(<<"captured", c>>, commands[c].new, job)
    <3>1. c \in CommandIds /\ c \in Children /\ c[1] = r
      BY <1>1, CohortCommand
    <3>2. head[j] = None \/ head[j].owner # c
      BY <3>1, <1>3
    <3>3. \A k \in commands[c].new : job'[k] = job[k]
      BY <3>1, <3>2, OthersUntouched
    <3> QED BY <3>3, AnnounceSame
  <2>3. CapturedEvents(r, job') = CapturedEvents(r, job)
    BY <2>2 DEF CapturedEvents
  <2> QED BY <2>1, <2>3, <1>2 DEF StartEvent
<1>4. ASSUME NEW r \in Starts, Mine(r)
      PROVE  StartEvent(r) = {} /\ StartEvent(r)' = ClosingStart(j)
  <2>1. o \in Cohorts(r) /\ j \in commands[o].new
    BY <1>4, OwnStart
  <2>2. ~control[r].closed
    BY <2>1, <1>1 DEF ClosedOK
  <2>3. CASE Closes(j, head') /\ Closable(r, control[r].status, head')
    <3>1. control' = [control EXCEPT ![r].closed = TRUE]
      BY <2>3, <1>4, CloseCases
    <3>2. control'[r].closed
      BY <3>1, <1>1 DEF RowsOK, ControlRow
    <3> QED BY <3>2, <2>2, <2>3, <1>2, <1>4 DEF StartEvent, ClosingStart
  <2>4. CASE ~(Closes(j, head') /\ Closable(r, control[r].status, head'))
    <3>1. control' = control
      BY <2>4, <1>4, CloseCases
    <3> QED BY <3>1, <2>2, <2>4, <1>4 DEF StartEvent, ClosingStart
  <2> QED BY <2>3, <2>4
<1>5. (\A r \in Starts : ~Mine(r)) => ClosingStart(j) = {}
  <2>1. o \in Children => o[1] \in Starts
    BY DEF Children
  <2> QED BY <2>1 DEF ClosingStart, Closes
<1> HIDE DEF Mine
<1>6. \A r \in Starts : StartEvent(r) \subseteq StartEvent(r)'
  BY <1>3, <1>4
<1>7. \A r \in Starts : StartEvent(r)' \subseteq StartEvent(r) \cup ClosingStart(j)
  BY <1>3, <1>4
<1>8. \A e \in ClosingStart(j) : \E r \in Starts : e \in StartEvent(r)'
  BY <1>4, <1>5
<1> QED BY ONLY <1>6, <1>7, <1>8, StartEventsGrow

\* The end of a job adds exactly the events it makes due.
LEMMA CloseOutbox ==
  ASSUME RoundInv, NEW j \in Jobs, NEW row \in JobRow, Move(j, row), ~Over(j),
         CloseRound(j), epoch' = epoch, commands' = commands
  PROVE  OutboxOK'
<1>1. outbox' = outbox \cup Standalone(j, job') \cup ClosingEvent(j) \cup ClosingStart(j)
  <2>1. CASE Closes(j, head')
    <3>1. Standalone(j, job') = {}
      BY <2>1 DEF Closes, Standalone
    <3> QED BY <2>1, <3>1, CloseCases DEF ClosingEvent, ClosingStart
  <2>2. CASE ~Closes(j, head')
    BY <2>2, CloseCases DEF ClosingEvent, ClosingStart
  <2> QED BY <2>1, <2>2
<1> QED BY <1>1, CloseJobEvents, CloseRoundEvents, CloseStartEvents DEF RoundInv, OutboxOK

-----------------------------------------------------------------------------
(* Captured starts and the jobs that move under them.                      *)

\* A captured cohort holds the revisions of some jobs.
LEMMA CohortIsRow ==
  ASSUME RowsOK, NEW r \in Starts, NEW i \in DOMAIN control[r].cohorts
  PROVE  LET cohort == control[r].cohorts[i]
         IN  /\ i \in 1..NJobs /\ cohort \in CohortRow
             /\ DOMAIN cohort.members \subseteq Jobs
             /\ \A j \in DOMAIN cohort.members : cohort.members[j] \in Nat
             /\ cohort.status \in {"pending", "applied", "blocked"}
<1>1. control[r].cohorts \in UNION {[1..n -> CohortRow] : n \in 0..NJobs}
  BY DEF RowsOK, ControlRow
<1>2. PICK n \in 0..NJobs : control[r].cohorts \in [1..n -> CohortRow]
  BY <1>1
<1>3. i \in 1..NJobs /\ control[r].cohorts[i] \in CohortRow
  BY <1>2, RoundConstants
<1>4. /\ control[r].cohorts[i].members \in UNION {[S -> Nat] : S \in SUBSET Jobs}
      /\ control[r].cohorts[i].status \in {"pending", "applied", "blocked"}
  BY <1>3 DEF CohortRow
<1>5. PICK S \in SUBSET Jobs : control[r].cohorts[i].members \in [S -> Nat]
  BY <1>4
<1> QED BY <1>3, <1>4, <1>5

\* Captured revisions stay behind the jobs, and strictly behind those that are touched.
LEMMA CapturedKeeps ==
  ASSUME RoundInv, NEW moved \in SUBSET Jobs,
         job' \in [Jobs -> JobRow], \A j \in Jobs : job[j].revision <= job'[j].revision,
         \A j \in moved : job[j].revision < job'[j].revision,
         \A r \in Starts : /\ control'[r].cohorts = control[r].cohorts
                           /\ touched'[r] \subseteq touched[r] \cup moved
  PROVE  CapturedOK'
<1> SUFFICES ASSUME NEW r \in Starts, NEW i \in DOMAIN control'[r].cohorts,
                    NEW j \in DOMAIN control'[r].cohorts[i].members
             PROVE  /\ control'[r].cohorts[i].members[j] <= job'[j].revision
                    /\ j \in touched'[r] => control'[r].cohorts[i].members[j] < job'[j].revision
  BY DEF CapturedOK
<1>1. control'[r].cohorts = control[r].cohorts
  OBVIOUS
<1>2. /\ control[r].cohorts[i].members[j] <= job[j].revision
      /\ j \in touched[r] => control[r].cohorts[i].members[j] < job[j].revision
  BY <1>1 DEF RoundInv, CapturedOK
<1>3. j \in Jobs /\ control[r].cohorts[i].members[j] \in Nat
  BY <1>1, CohortIsRow DEF RoundInv
<1>4. job[j].revision \in Nat /\ job'[j].revision \in Nat
  BY <1>3 DEF RoundInv, RowsOK, JobRow
<1>5. job[j].revision <= job'[j].revision /\ (j \in moved => job[j].revision < job'[j].revision)
  BY <1>3
<1>6. j \in touched'[r] => j \in touched[r] \/ j \in moved
  OBVIOUS
<1> QED BY <1>1, <1>2, <1>3, <1>4, <1>5, <1>6

\* What a touch records.
LEMMA TouchRows ==
  ASSUME RoundInv, NEW moved \in SUBSET Jobs, NEW starts, Touch(moved, starts)
  PROVE  /\ touched' \in [Starts -> SUBSET Jobs]
         /\ \A r \in Starts : touched'[r] \subseteq touched[r] \cup moved
  BY DEF Touch, RoundInv, RowsOK

\* A step that leaves commands and what is captured alone keeps the starts in order.
LEMMA StartsKept ==
  ASSUME RoundInv, commands' = commands,
         \A r \in Starts : /\ control'[r].status = control[r].status
                           /\ control'[r].epoch = control[r].epoch
                           /\ control'[r].cohorts = control[r].cohorts
  PROVE  ChildrenOK' /\ StartsOK'
<1>1. ChildrenOK /\ StartsOK
  BY DEF RoundInv
<1>2. ChildrenOK'
  BY <1>1 DEF ChildrenOK
<1>3. \A r \in Starts : Pending(r)' = Pending(r)
  BY DEF Pending
<1>4. StartsOK'
  BY <1>1, <1>3 DEF StartsOK
<1> QED BY <1>2, <1>4

-----------------------------------------------------------------------------
(* The steps of one job.                                                   *)

\* A move that ends with the closing of what it may close.
LEMMA MoveStep ==
  ASSUME RoundInv, NEW j \in Jobs, NEW row \in JobRow, Move(j, row), ~Over(j),
         CloseRound(j), epoch' = epoch, commands' = commands,
         applying = None, applying' = None,
         touched' = touched \/ Touch({j}, {})
  PROVE  RoundInv'
<1>1. job' \in [Jobs -> JobRow] /\ head' \in [Jobs -> HeadRow \cup {None}] /\ RevisionsOK'
      /\ \A k \in Jobs : k # j => job'[k] = job[k]
  BY MoveRows
<1>2. /\ rounds' \in [Batches -> Seq(RoundRow)] /\ SameRounds /\ control' \in [Starts -> ControlRow]
      /\ \A r \in Starts :
           /\ control'[r].status = control[r].status /\ control'[r].epoch = control[r].epoch
           /\ control'[r].cohorts = control[r].cohorts
  BY CloseTypes
<1>3. touched' \in [Starts -> SUBSET Jobs] /\ \A r \in Starts : touched'[r] \subseteq touched[r] \cup {j}
  BY TouchRows DEF RoundInv, RowsOK
<1>4. RowsOK'
  BY <1>1, <1>2, <1>3 DEF RoundInv, RowsOK, Batches
<1>5. HeadIsReadable' /\ NewOwns'
  BY <1>2, MoveReadable
<1>6. RoundsOK' /\ ClosedOK' /\ OutboxOK'
  BY CloseRounds, CloseStarts, CloseOutbox
<1>7. ChildrenOK' /\ StartsOK'
  BY <1>2, StartsKept
<1>8. CapturedOK'
  <2>1. \A k \in Jobs : job[k].revision <= job'[k].revision
    BY <1>1, MoveRows DEF RoundInv, RowsOK, JobRow
  <2>2. \A k \in {j} : job[k].revision < job'[k].revision
    BY MoveRows
  <2> QED BY <1>1, <1>2, <1>3, <2>1, <2>2, CapturedKeeps
<1>9. ApplyingOK'
  BY DEF ApplyingOK
<1> QED BY <1>1, <1>4, <1>5, <1>6, <1>7, <1>8, <1>9 DEF RoundInv

\* A move that ends nothing closes nothing.
LEMMA NothingCloses ==
  ASSUME RoundInv, NEW j \in Jobs, NEW row \in JobRow, Move(j, row), row.state \notin Terminal,
         ~Over(j), rounds' = rounds, control' = control, outbox' = outbox
  PROVE  CloseRound(j)
<1>1. ~Closes(j, head')
  <2> SUFFICES ASSUME head[j] # None
               PROVE  head'[j].status # "terminal"
    BY DEF Closes
  <2>1. head'[j].status = head[j].status
    BY MoveRows
  <2> QED BY <2>1 DEF RoundInv, HeadIsReadable, ReadableHead, Over
<1>2. Standalone(j, job') = {}
  <2>1. job'[j].state # "completed"
    BY MoveRows, StatesApart
  <2> QED BY <2>1, AnnounceEvent DEF Standalone
<1> QED BY <1>1, <1>2 DEF CloseRound

\* A control leaves a row.
LEMMA ControlledRow ==
  ASSUME NEW row \in JobRow, NEW action \in {"pause", "remove", "resume", "start_now"}
  PROVE  Controlled(row, action) \in JobRow
<1>1. CASE action = "pause"
  <2>1. Controlled(row, action) = [row EXCEPT !.state = "paused", !.hold = TRUE]
    BY <1>1 DEF Controlled
  <2> QED BY <2>1 DEF JobRow, States
<1>2. CASE action = "remove"
  <2>1. Controlled(row, action) =
          [row EXCEPT !.state = "removed", !.hold = TRUE, !.authorized = FALSE]
    BY <1>2 DEF Controlled
  <2> QED BY <2>1 DEF JobRow, States
<1>3. CASE action = "resume"
  <2> DEFINE state == IF row.state = "paused" THEN "queued" ELSE row.state
  <2>1. Controlled(row, action) = [row EXCEPT !.state = state, !.hold = FALSE]
    BY <1>3 DEF Controlled
  <2>2. state \in States
    BY DEF JobRow, States
  <2> HIDE DEF state
  <2> QED BY <2>1, <2>2 DEF JobRow
<1>4. CASE action = "start_now"
  <2>1. Controlled(row, action) =
          [row EXCEPT !.state = "queued", !.hold = FALSE, !.authorized = TRUE]
    BY <1>4 DEF Controlled
  <2> QED BY <2>1 DEF JobRow, States
<1> QED BY <1>1, <1>2, <1>3, <1>4

LEMMA JobStep ==
  ASSUME RoundInv, NEW j \in Jobs,
         \/ \E action \in {"pause", "remove", "resume", "start_now"} : JobControl(j, action)
         \/ Admit(j) \/ Stop(j) \/ Complete(j)
  PROVE  RoundInv'
<1>1. job[j] \in JobRow
  BY DEF RoundInv, RowsOK
<1>2. ASSUME NEW action \in {"pause", "remove", "resume", "start_now"}, JobControl(j, action)
      PROVE  RoundInv'
  <2>1. Controlled(job[j], action) \in JobRow
    BY <1>1, ControlledRow
  <2>2. Move(j, Controlled(job[j], action)) /\ ~Over(j) /\ CloseRound(j) /\ Touch({j}, {})
    BY <1>2 DEF JobControl, Over
  <2> QED BY <2>1, <2>2, <1>2, MoveStep DEF JobControl
<1>3. ASSUME NEW state \in {"active", "paused", "completed"}
      PROVE  /\ [job[j] EXCEPT !.state = state] \in JobRow
             /\ [job[j] EXCEPT !.state = state].state = state
  BY <1>1 DEF JobRow, States
<1>4. CASE Admit(j)
  <2> DEFINE row == [job[j] EXCEPT !.state = "active"]
  <2>1. row \in JobRow /\ row.state \notin Terminal
    BY <1>3, StatesApart
  <2>2. Move(j, row) /\ ~Over(j)
    BY <1>4, StatesApart DEF Admit, Admissible, Over
  <2> HIDE DEF row
  <2>3. CloseRound(j)
    BY <2>1, <2>2, <1>4, NothingCloses DEF Admit
  <2> QED BY <2>1, <2>2, <2>3, <1>4, MoveStep DEF Admit
<1>5. CASE Stop(j)
  <2> DEFINE row == [job[j] EXCEPT !.state = "paused"]
  <2>1. row \in JobRow /\ row.state \notin Terminal
    BY <1>3, StatesApart
  <2>2. Move(j, row) /\ ~Over(j)
    BY <1>5, StatesApart DEF Stop, Over
  <2> HIDE DEF row
  <2>3. CloseRound(j)
    BY <2>1, <2>2, <1>5, NothingCloses DEF Stop
  <2> QED BY <2>1, <2>2, <2>3, <1>5, MoveStep DEF Stop
<1>6. CASE Complete(j)
  <2> DEFINE row == [job[j] EXCEPT !.state = "completed"]
  <2>1. row \in JobRow
    BY <1>3
  <2>2. Move(j, row) /\ ~Over(j)
    BY <1>6, StatesApart DEF Complete, Over
  <2> HIDE DEF row
  <2> QED BY <2>1, <2>2, <1>6, MoveStep DEF Complete
<1> QED BY <1>2, <1>4, <1>5, <1>6

-----------------------------------------------------------------------------
(* Commands of clients and of captured cohorts.                            *)

\* What holds after a command, whoever gave it.
LEMMA CommandStep ==
  ASSUME RoundInv, NEW c \in CommandIds, NEW action \in Actions,
         NEW expected, DOMAIN expected \subseteq Jobs, Authorize(c, action, expected),
         action = "start" \/ \A j \in DOMAIN expected : job[j].revision < MaxRevision,
         control' = control, outbox' = outbox,
         c \in Children => control[c[1]].status # "applied"
  PROVE  /\ RowsOK' /\ RevisionsOK' /\ HeadIsReadable' /\ NewOwns' /\ RoundsOK'
         /\ CapturedOK' /\ ClosedOK' /\ OutboxOK'
<1>1. PICK moved, starts : /\ moved \in SUBSET Jobs /\ Touch(moved, starts)
                            /\ \A j \in moved : job'[j] # job[j]
  <2> DEFINE kept == {j \in DOMAIN expected : Outcome(j, action, expected[j]) = "existing_authority"}
             new  == {j \in DOMAIN expected : Outcome(j, action, expected[j]) = "new_authority"}
             moved == {j \in new \cup kept : Wanted(j, action) # job[j]}
             starts == IF c \in Children THEN {c[1]} ELSE {}
  <2>1. Touch(moved, starts)
    BY DEF Authorize
  <2>2. \A j \in moved : j \in Jobs /\ job'[j] = [Wanted(j, action) EXCEPT !.revision = @ + 1]
    BY DEF Authorize
  <2>3. ASSUME NEW j \in moved
        PROVE  job'[j] # job[j]
    <3> HIDE DEF moved
    <3>1. j \in Jobs /\ job[j] \in JobRow /\ job[j].revision \in Nat
      BY <2>2 DEF RoundInv, RowsOK, JobRow
    <3>2. [Wanted(j, action) EXCEPT !.revision = @ + 1].revision = job[j].revision + 1
      BY <3>1, WantedRow
    <3>3. job'[j].revision = job[j].revision + 1
      BY <2>2, <3>2
    <3> QED BY <3>1, <3>3
  <2> HIDE DEF moved, starts
  <2> QED BY <2>1, <2>2, <2>3
<1>2. touched' \in [Starts -> SUBSET Jobs] /\ \A r \in Starts : touched'[r] \subseteq touched[r] \cup moved
  BY <1>1, TouchRows
<1>3. /\ epoch' = epoch /\ job' \in [Jobs -> JobRow] /\ head' \in [Jobs -> HeadRow \cup {None}]
      /\ commands' \in [CommandIds -> CommandRow] /\ rounds' \in [Batches -> Seq(RoundRow)]
      /\ RevisionsOK' /\ HeadIsReadable' /\ NewOwns'
  BY AuthorizeKeeps
<1>4. RowsOK'
  BY <1>2, <1>3 DEF RoundInv, RowsOK, Batches
<1>5. /\ \A j \in Jobs : /\ Over(j)' <=> Over(j)
                         /\ job'[j].state = "completed" <=> job[j].state = "completed"
                         /\ Over(j) => job'[j] = job[j] /\ head'[j] = head[j]
                         /\ job[j].revision <= job'[j].revision
                         /\ job'[j] # job[j] => job[j].revision < job'[j].revision
      /\ \A d \in CommandIds : d # c => commands'[d] = commands[d]
  BY AuthorizeLeaves
<1>6. CapturedOK'
  BY <1>1, <1>2, <1>3, <1>5, CapturedKeeps
<1>7. ASSUME NEW r \in Starts, control[r].status = "applied"
      PROVE  \A d \in Cohorts(r) : /\ commands'[d] = commands[d] /\ d \in CommandIds
                                   /\ commands[d].new \subseteq Jobs
  <2>1. \A d \in Cohorts(r) : /\ d \in CommandIds /\ d \in Children /\ d[1] = r
                              /\ commands[d].new \subseteq Jobs
    BY CohortCommand DEF RoundInv
  <2>2. \A d \in Cohorts(r) : d # c
    BY <2>1, <1>7
  <2> QED BY <2>1, <2>2, <1>5
<1>8. ClosedOK'
  <2> SUFFICES ASSUME NEW r \in Starts
               PROVE  control[r].closed <=>
                        /\ control[r].status = "applied"
                        /\ \A d \in Cohorts(r) : \A j \in commands'[d].new : Over(j)'
    BY DEF ClosedOK, Cohorts
  <2>1. control[r].status = "applied" =>
          ((\A d \in Cohorts(r) : \A j \in commands'[d].new : Over(j)') <=>
             (\A d \in Cohorts(r) : \A j \in commands[d].new : Over(j)))
    BY <1>5, <1>7
  <2> QED BY <2>1 DEF RoundInv, ClosedOK
<1>9. OutboxOK'
  <2>1. \A r \in Starts : /\ control'[r].closed <=> control[r].closed
                          /\ control[r].closed =>
                               /\ DOMAIN control'[r].cohorts = DOMAIN control[r].cohorts
                               /\ \A d \in Cohorts(r) : commands'[d].new = commands[d].new
    BY <1>7 DEF RoundInv, ClosedOK
  <2>2. \A h \in Batches :
            /\ Len(rounds[h]) \in Nat
            /\ \A n \in 1..Len(rounds[h]) :
                 rounds'[h][n] = rounds[h][n]
                   /\ Members(rounds[h][n].owner, h)' = Members(rounds[h][n].owner, h)
            /\ \/ rounds'[h] = rounds[h]
               \/ /\ Len(rounds'[h]) = Len(rounds[h]) + 1
                  /\ rounds'[h][Len(rounds[h]) + 1].status = "open"
    <3> SUFFICES ASSUME NEW h \in Batches
                 PROVE  /\ Len(rounds[h]) \in Nat
                        /\ \A n \in 1..Len(rounds[h]) :
                             rounds'[h][n] = rounds[h][n]
                               /\ Members(rounds[h][n].owner, h)' = Members(rounds[h][n].owner, h)
                        /\ \/ rounds'[h] = rounds[h]
                           \/ /\ Len(rounds'[h]) = Len(rounds[h]) + 1
                              /\ rounds'[h][Len(rounds[h]) + 1].status = "open"
      OBVIOUS
    <3>1. \A n \in 1..Len(rounds[h]) :
             rounds'[h][n] = rounds[h][n]
               /\ Members(rounds[h][n].owner, h)' = Members(rounds[h][n].owner, h)
      BY AuthorizeLeaves
    <3>2. \/ rounds'[h] = rounds[h]
          \/ /\ Len(rounds'[h]) = Len(rounds[h]) + 1
             /\ rounds'[h][Len(rounds[h]) + 1] = [owner |-> c, status |-> "open"]
      BY AuthorizeLeaves
    <3>3. Len(rounds[h]) \in Nat
      BY AuthorizeLeaves
    <3> QED BY <3>1, <3>2, <3>3
  <2>3. \A j \in Jobs : /\ job'[j].state = "completed" <=> job[j].state = "completed"
                        /\ Over(j) => (head'[j] = None <=> head[j] = None)
    BY <1>5
  <2>4. (JobEvents \cup RoundEvents \cup StartEvents)' = JobEvents \cup RoundEvents \cup StartEvents
    BY <2>1, <2>2, <2>3, SameEvents
  <2> QED BY <2>4 DEF RoundInv, OutboxOK
<1> QED BY <1>3, <1>4, <1>6, <1>8, <1>9, AuthorizeRounds

\* The first pending cohort of a start.
LEMMA FirstPending ==
  ASSUME RoundInv, NEW r \in Starts, Pending(r) # {}
  PROVE  /\ First(r) \in Pending(r) /\ First(r) \in DOMAIN control[r].cohorts
         /\ First(r) \in 1..NJobs
         /\ Pending(r) = {k \in DOMAIN control[r].cohorts : k >= First(r)}
<1>1. PICK p \in 0..NJobs : Pending(r) = {k \in DOMAIN control[r].cohorts : k > p}
  BY DEF RoundInv, StartsOK
<1>2. control[r].cohorts \in UNION {[1..n -> CohortRow] : n \in 0..NJobs}
  BY DEF RoundInv, RowsOK, ControlRow
<1>3. PICK n \in 0..NJobs : control[r].cohorts \in [1..n -> CohortRow]
  BY <1>2
<1>4. DOMAIN control[r].cohorts = 1..n /\ NJobs \in Nat
  BY <1>3, RoundConstants
<1>5. p + 1 \in Pending(r) /\ \A k \in Pending(r) : p + 1 <= k
  BY <1>1, <1>4
<1>6. First(r) \in Pending(r) /\ \A k \in Pending(r) : First(r) <= k
  BY <1>5 DEF First
<1>7. First(r) = p + 1
  <2>1. First(r) <= p + 1 /\ p + 1 <= First(r)
    BY <1>5, <1>6
  <2>2. First(r) \in 1..n
    BY <1>1, <1>4, <1>6
  <2> QED BY <2>1, <2>2
<1>8. \A k \in 1..n : k > p <=> k >= p + 1
  BY <1>4
<1> QED BY <1>1, <1>4, <1>6, <1>7, <1>8

LEMMA TargetStep ==
  ASSUME RoundInv, NEW c \in Targets, NEW action \in Actions, NEW selected \in SUBSET Jobs,
         Target(c, action, selected)
  PROVE  RoundInv'
<1> DEFINE expected == [j \in selected |-> job[j].revision]
<1>1. /\ Authorize(c, action, expected) /\ \A j \in selected : job[j].revision < MaxRevision
      /\ control' = control /\ outbox' = outbox /\ applying = None /\ applying' = None
  BY DEF Target
<1>2. c \in CommandIds /\ c \notin Children /\ DOMAIN expected = selected
  BY RoundMarkers DEF CommandIds
<1> HIDE DEF expected
<1>3. /\ RowsOK' /\ RevisionsOK' /\ HeadIsReadable' /\ NewOwns' /\ RoundsOK'
      /\ CapturedOK' /\ ClosedOK' /\ OutboxOK'
  BY <1>1, <1>2, CommandStep
<1>4. \A r \in Starts, i \in 1..NJobs : commands'[<<r, i>>] = commands[<<r, i>>]
  <2>1. \A d \in CommandIds : d # c => commands'[d] = commands[d]
    BY <1>1, <1>2, AuthorizeLeaves
  <2>2. \A r \in Starts, i \in 1..NJobs : <<r, i>> \in Children
    BY DEF Children
  <2> QED BY <2>1, <2>2, <1>2 DEF CommandIds
<1>5. ChildrenOK'
  BY <1>1, <1>4 DEF RoundInv, ChildrenOK
<1>6. StartsOK'
  <2>1. \A r \in Starts : \A i \in DOMAIN control[r].cohorts : i \in 1..NJobs
    BY CohortIsRow DEF RoundInv
  <2>2. \A r \in Starts : Pending(r)' = Pending(r)
    BY <1>1 DEF Pending
  <2> QED BY <1>1, <1>4, <2>1, <2>2 DEF RoundInv, StartsOK
<1>7. ApplyingOK'
  BY <1>1 DEF ApplyingOK
<1> QED BY <1>3, <1>5, <1>6, <1>7 DEF RoundInv

LEMMA ApplyChildStep ==
  ASSUME RoundInv, NEW r \in Starts, ApplyChild(r)
  PROVE  RoundInv'
<1> DEFINE f == First(r)
           c == <<r, f>>
           expected == control[r].cohorts[f].members
<1>1. /\ Authorize(c, "start", expected) /\ applying' = <<r, "mark">>
      /\ control' = control /\ outbox' = outbox
      /\ control[r].status = "pending" /\ control[r].epoch = epoch /\ Pending(r) # {}
  BY DEF ApplyChild
<1>2. f \in Pending(r) /\ f \in DOMAIN control[r].cohorts /\ f \in 1..NJobs
  BY <1>1, FirstPending
<1>3. c \in CommandIds /\ c \in Children /\ c[1] = r /\ DOMAIN expected \subseteq Jobs
  BY <1>2, CohortIsRow DEF CommandIds, Children, RoundInv
<1> HIDE DEF f
<1>4. /\ RowsOK' /\ RevisionsOK' /\ HeadIsReadable' /\ NewOwns' /\ RoundsOK'
      /\ CapturedOK' /\ ClosedOK' /\ OutboxOK'
  <2>1. "start" \in Actions
    BY DEF Actions
  <2> HIDE DEF expected, c
  <2>2. c \in Children => control[c[1]].status # "applied"
    BY <1>1, <1>3
  <2> QED BY <1>1, <1>3, <2>1, <2>2, CommandStep
<1>5. /\ commands'[c].epoch = epoch
      /\ commands'[c].new \cup commands'[c].existing \subseteq DOMAIN expected
      /\ \A d \in CommandIds : d # c => commands'[d] = commands[d]
  <2>1. "start" \in Actions /\ c \in DOMAIN commands
    BY <1>3 DEF Actions, RoundInv, RowsOK
  <2> HIDE DEF expected, c
  <2>2. /\ commands' = [commands EXCEPT ![c] = [epoch |-> epoch, new |-> commands'[c].new,
                                                existing |-> commands'[c].existing]]
        /\ commands'[c].new \cup commands'[c].existing \subseteq DOMAIN expected
    BY <1>1, <1>3, <2>1, AuthorizeRows
  <2>3. commands'[c] = [epoch |-> epoch, new |-> commands'[c].new,
                        existing |-> commands'[c].existing]
    BY <2>1, <2>2
  <2>4. commands'[c].epoch = epoch
    BY <2>3
  <2>5. \A d \in CommandIds : d # c => commands'[d] = commands[d]
    BY <1>1, <1>3, <2>1, AuthorizeLeaves
  <2> QED BY <2>2, <2>4, <2>5
<1>6. \A q \in Starts, i \in 1..NJobs :
         ~(q = r /\ i = f) => commands'[<<q, i>>] = commands[<<q, i>>]
  <2>1. \A q \in Starts, i \in 1..NJobs : <<q, i>> \in CommandIds
    BY DEF Children, CommandIds
  <2> QED BY <2>1, <1>5
<1>7. ChildrenOK'
  <2> SUFFICES ASSUME NEW q \in Starts, NEW i \in 1..NJobs, commands'[<<q, i>>] # NoCommand
               PROVE  /\ i \in DOMAIN control[q].cohorts
                      /\ commands'[<<q, i>>].epoch = control[q].epoch
                      /\ commands'[<<q, i>>].new \cup commands'[<<q, i>>].existing
                            \subseteq DOMAIN control[q].cohorts[i].members
    BY <1>1 DEF ChildrenOK
  <2>1. CASE q = r /\ i = f
    BY <2>1, <1>1, <1>2, <1>5
  <2>2. CASE ~(q = r /\ i = f)
    BY <2>2, <1>6 DEF RoundInv, ChildrenOK
  <2> QED BY <2>1, <2>2
<1>8. StartsOK'
  <2>1. \A q \in Starts : Pending(q)' = Pending(q)
    BY <1>1 DEF Pending
  <2>2. \A q \in Starts : \A i \in DOMAIN control[q].cohorts :
           control[q].cohorts[i].status = "applied" => commands'[<<q, i>>].epoch = control[q].epoch
    <3> SUFFICES ASSUME NEW q \in Starts, NEW i \in DOMAIN control[q].cohorts,
                        control[q].cohorts[i].status = "applied"
                 PROVE  commands'[<<q, i>>].epoch = control[q].epoch
      OBVIOUS
    <3>1. i \in 1..NJobs
      BY CohortIsRow DEF RoundInv
    <3>2. ~(q = r /\ i = f)
      BY <1>2 DEF Pending
    <3> QED BY <3>1, <3>2, <1>6 DEF RoundInv, StartsOK
  <2> QED BY <1>1, <2>1, <2>2 DEF RoundInv, StartsOK
<1>9. ApplyingOK'
  <2>1. Pending(r)' = Pending(r)
    BY <1>1 DEF Pending
  <2>2. First(r)' = f
    BY <2>1 DEF First, f
  <2> QED BY <1>1, <1>5, <2>1, <2>2 DEF ApplyingOK
<1> QED BY <1>4, <1>7, <1>8, <1>9 DEF RoundInv

-----------------------------------------------------------------------------
(* The rows of a captured start.                                           *)

\* A step of the starts alone leaves the jobs, their heads and rounds as they are.
LEMMA StartsOnly ==
  ASSUME RoundInv, UNCHANGED <<epoch, job, head, commands, rounds>>
  PROVE  /\ RevisionsOK' /\ HeadIsReadable' /\ NewOwns' /\ RoundsOK'
         /\ JobEvents' = JobEvents /\ RoundEvents' = RoundEvents
         /\ \A j \in Jobs : Over(j)' <=> Over(j)
<1>1. RevisionsOK' /\ HeadIsReadable' /\ NewOwns'
  BY DEF RoundInv, RevisionsOK, HeadIsReadable, ReadableHead, NewOwns
<1>2. \A j \in Jobs : Over(j)' <=> Over(j)
  BY DEF Over
<1>3. RoundsOK'
  BY DEF RoundInv, RoundsOK, Members, Over
<1>4. JobEvents' = JobEvents
  BY DEF JobEvents, Standalone
<1>5. RoundEvents' = RoundEvents
  BY DEF RoundEvents, RoundEvent, Members
<1> QED BY <1>1, <1>2, <1>3, <1>4, <1>5

\* What a poll in the middle of a start may count on.
LEMMA Applying ==
  ASSUME RoundInv, NEW r \in Starts, NEW step \in {"mark", "settle"}, applying = <<r, step>>
  PROVE  /\ control[r].status = "pending"
         /\ step = "mark" => Pending(r) # {} /\ commands[<<r, First(r)>>].epoch = control[r].epoch
         /\ step = "settle" => Pending(r) = {}
<1>1. applying # None
  BY RoundMarkers
<1>2. PICK q \in Starts :
        /\ control[q].status = "pending"
        /\ \/ /\ applying = <<q, "mark">> /\ Pending(q) # {}
              /\ commands[<<q, First(q)>>].epoch = control[q].epoch
           \/ applying = <<q, "settle">> /\ Pending(q) = {}
  BY <1>1 DEF RoundInv, ApplyingOK
<1>3. q = r
  BY <1>2
<1> QED BY <1>2, <1>3

LEMMA MarkStep ==
  ASSUME RoundInv, NEW r \in Starts, MarkCohort(r)
  PROVE  RoundInv'
<1> DEFINE f == First(r)
           cohorts == control[r].cohorts
           row == [cohorts[f] EXCEPT !.status = "applied"]
<1>1. /\ applying = <<r, "mark">> /\ UNCHANGED <<epoch, job, head, commands, rounds, outbox, touched>>
      /\ control' = [control EXCEPT ![r].cohorts[f].status = "applied"]
      /\ applying' = IF Cardinality(Pending(r)) = 1 THEN <<r, "settle">> ELSE None
  BY DEF MarkCohort
<1>2. /\ control[r].status = "pending" /\ Pending(r) # {}
      /\ commands[<<r, f>>].epoch = control[r].epoch
  BY <1>1, Applying
<1>3. /\ f \in Pending(r) /\ f \in DOMAIN cohorts /\ f \in 1..NJobs
      /\ Pending(r) = {k \in DOMAIN cohorts : k >= f}
  BY <1>2, FirstPending
<1>4. cohorts[f] \in CohortRow /\ control[r] \in ControlRow /\ control \in [Starts -> ControlRow]
  BY <1>3, CohortIsRow DEF RoundInv, RowsOK
<1>5. row \in CohortRow /\ row.members = cohorts[f].members /\ row.status = "applied"
  BY <1>4 DEF CohortRow
<1> DEFINE new == [cohorts EXCEPT ![f] = row]
           start == [control[r] EXCEPT !.cohorts = new]
<1>6. control' = [control EXCEPT ![r] = start]
  BY <1>1
<1> HIDE DEF row, f
<1>7. /\ new \in UNION {[1..n -> CohortRow] : n \in 0..NJobs} /\ DOMAIN new = DOMAIN cohorts
      /\ new[f] = row /\ \A i \in DOMAIN cohorts : i # f => new[i] = cohorts[i]
  <2>1. cohorts \in UNION {[1..n -> CohortRow] : n \in 0..NJobs}
    BY <1>4 DEF ControlRow
  <2>2. PICK n \in 0..NJobs : cohorts \in [1..n -> CohortRow]
    BY <2>1
  <2> HIDE DEF cohorts
  <2>3. new \in [1..n -> CohortRow] /\ DOMAIN new = DOMAIN cohorts
        /\ new[f] = row /\ \A i \in DOMAIN cohorts : i # f => new[i] = cohorts[i]
    BY <2>2, <1>3, <1>5
  <2> QED BY <2>2, <2>3
<1> HIDE DEF new
<1>8. /\ start \in ControlRow /\ start.status = "pending" /\ start.epoch = control[r].epoch
      /\ start.cohorts = new
  BY <1>2, <1>4, <1>7 DEF ControlRow
<1>9. start.closed = control[r].closed
  BY <1>4 DEF ControlRow
<1> HIDE DEF start
<1>10. /\ control' \in [Starts -> ControlRow] /\ control'[r] = start
       /\ \A q \in Starts : q # r => control'[q] = control[q]
  BY <1>4, <1>6, <1>8
<1>11. \A q \in Starts : /\ control'[q].status = control[q].status
                         /\ control'[q].epoch = control[q].epoch
                         /\ DOMAIN control'[q].cohorts = DOMAIN control[q].cohorts
                         /\ \A i \in DOMAIN control[q].cohorts :
                              control'[q].cohorts[i].members = control[q].cohorts[i].members
  BY <1>2, <1>5, <1>7, <1>8, <1>10
<1>12. \A q \in Starts : control'[q].closed <=> control[q].closed
  BY <1>9, <1>10
<1>13. RowsOK'
  BY <1>1, <1>10 DEF RoundInv, RowsOK, Batches
<1>14. ChildrenOK'
  BY <1>1, <1>11 DEF RoundInv, ChildrenOK
<1>15. CapturedOK'
  BY <1>1, <1>11 DEF RoundInv, CapturedOK
<1>16. Pending(r)' = Pending(r) \ {f}
  <2>1. \A i \in DOMAIN cohorts : control'[r].cohorts[i].status = "pending" <=>
                                    i # f /\ cohorts[i].status = "pending"
    BY <1>5, <1>7, <1>8, <1>10
  <2>2. DOMAIN control'[r].cohorts = DOMAIN cohorts
    BY <1>11
  <2> QED BY <2>1, <2>2 DEF Pending
<1>17. StartsOK'
  <2> SUFFICES ASSUME NEW q \in Starts
               PROVE  /\ \E p \in 0..NJobs : Pending(q)' = {k \in DOMAIN control'[q].cohorts : k > p}
                      /\ \A i \in DOMAIN control'[q].cohorts :
                           LET cohort == control'[q].cohorts[i]
                           IN  /\ Cardinality(DOMAIN cohort.members) \in 1..CohortSize
                               /\ control'[q].status = "pending" => cohort.status # "blocked"
                               /\ control'[q].status = "applied" => cohort.status = "applied"
                               /\ cohort.status = "applied" =>
                                    commands'[<<q, i>>].epoch = control'[q].epoch
    BY DEF StartsOK
  <2>1. /\ \E p \in 0..NJobs : Pending(q) = {k \in DOMAIN control[q].cohorts : k > p}
        /\ \A i \in DOMAIN control[q].cohorts :
             LET cohort == control[q].cohorts[i]
             IN  /\ Cardinality(DOMAIN cohort.members) \in 1..CohortSize
                 /\ control[q].status = "pending" => cohort.status # "blocked"
                 /\ control[q].status = "applied" => cohort.status = "applied"
                 /\ cohort.status = "applied" => commands[<<q, i>>].epoch = control[q].epoch
    BY DEF RoundInv, StartsOK
  <2>2. CASE q # r
    <3>1. control'[q] = control[q] /\ Pending(q)' = Pending(q) /\ commands' = commands
      BY <2>2, <1>1, <1>10 DEF Pending
    <3> QED BY ONLY <2>1, <3>1
  <2>3. CASE q = r
    <3>1. \E p \in 0..NJobs : Pending(r)' = {k \in DOMAIN control'[r].cohorts : k > p}
      <4>1. DOMAIN control'[r].cohorts = DOMAIN cohorts
        BY <1>11
      <4>2. \A k \in DOMAIN cohorts : k \in Nat
        BY CohortIsRow DEF RoundInv
      <4>3. f \in 0..NJobs /\ Pending(r)' = {k \in DOMAIN cohorts : k > f}
        BY <1>3, <1>16, <4>2, RoundConstants
      <4> QED BY <4>1, <4>3
    <3>2. ASSUME NEW i \in DOMAIN control'[r].cohorts
          PROVE  LET cohort == control'[r].cohorts[i]
                 IN  /\ Cardinality(DOMAIN cohort.members) \in 1..CohortSize
                     /\ control'[r].status = "pending" => cohort.status # "blocked"
                     /\ control'[r].status = "applied" => cohort.status = "applied"
                     /\ cohort.status = "applied" => commands'[<<r, i>>].epoch = control'[r].epoch
      <4>1. i \in DOMAIN cohorts /\ control'[r].cohorts[i].members = cohorts[i].members
            /\ control'[r].status = "pending" /\ control'[r].epoch = control[r].epoch
            /\ commands' = commands
        BY <1>1, <1>2, <1>11
      <4>2. CASE i = f
        <5>1. control'[r].cohorts[i] = row
          BY <4>2, <1>7, <1>8, <1>10
        <5> QED BY <4>1, <4>2, <5>1, <1>2, <1>5, <2>1, <2>3
      <4>3. CASE i # f
        <5>1. control'[r].cohorts[i] = cohorts[i]
          BY <4>1, <4>3, <1>7, <1>8, <1>10
        <5> QED BY <4>1, <5>1, <1>2, <2>1, <2>3
      <4> QED BY <4>2, <4>3
    <3> QED BY <2>3, <3>1, <3>2
  <2> QED BY <2>2, <2>3
<1>18. ApplyingOK'
  <2>1. CASE Cardinality(Pending(r)) = 1
    <3>1. Pending(r) = {f}
      <4>1. DOMAIN cohorts \subseteq 1..NJobs
        BY CohortIsRow DEF RoundInv
      <4>2. IsFiniteSet(Pending(r))
        <5>1. IsFiniteSet(1..NJobs)
          BY RoundConstants, FS_Interval
        <5> QED BY <4>1, <5>1, FS_Subset DEF Pending
      <4>3. IsFiniteSet(Pending(r)) /\ {f} \in SUBSET Pending(r) /\ Cardinality({f}) = 1
        BY <4>2, <1>3, FS_Singleton
      <4> QED BY <4>3, <2>1, FS_Subset
    <3>2. Pending(r)' = {} /\ applying' = <<r, "settle">>
      BY <3>1, <2>1, <1>1, <1>16
    <3> QED BY <3>2, <1>2, <1>11 DEF ApplyingOK
  <2>2. CASE Cardinality(Pending(r)) # 1
    BY <2>2, <1>1 DEF ApplyingOK
  <2> QED BY <2>1, <2>2
<1>19. ClosedOK'
  <2>1. \A q \in Starts : Cohorts(q)' = Cohorts(q)
    BY <1>11 DEF Cohorts
  <2> QED BY <2>1, <1>1, <1>11, <1>12 DEF RoundInv, ClosedOK, Over
<1>20. OutboxOK'
  <2>1. ASSUME NEW q \in Starts
        PROVE  StartEvent(q)' = StartEvent(q)
    <3>1. Cohorts(q)' = Cohorts(q)
      BY <1>11 DEF Cohorts
    <3>2. CapturedEvents(q, job)' = CapturedEvents(q, job)
      BY <3>1, <1>1 DEF CapturedEvents
    <3> QED BY <3>2, <1>12 DEF StartEvent
  <2>2. StartEvents' = StartEvents
    BY <2>1 DEF StartEvents
  <2> QED BY <2>2, <1>1, StartsOnly DEF RoundInv, OutboxOK
<1> QED BY <1>1, <1>13, <1>14, <1>15, <1>17, <1>18, <1>19, <1>20, StartsOnly DEF RoundInv

LEMMA SettleStep ==
  ASSUME RoundInv, NEW r \in Starts, SettleStart(r)
  PROVE  RoundInv'
<1> DEFINE ends == Closable(r, "applied", head)
           start == [control[r] EXCEPT !.status = "applied", !.closed = ends]
<1>1. /\ applying' = None /\ UNCHANGED <<epoch, job, head, commands, rounds, touched>>
      /\ control' = [control EXCEPT ![r] = start]
      /\ outbox' = IF ends THEN outbox \cup CapturedEvents(r, job) ELSE outbox
  BY DEF SettleStart
<1>2. control[r].status = "pending" /\ Pending(r) = {}
  <2>1. applying = <<r, "settle">> => control[r].status = "pending" /\ Pending(r) = {}
    BY Applying
  <2> QED BY <2>1 DEF SettleStart
<1>3. control[r] \in ControlRow /\ control \in [Starts -> ControlRow]
  BY DEF RoundInv, RowsOK
<1>4. ends \in BOOLEAN
  BY DEF Closable
<1>5. ~control[r].closed
  BY <1>2 DEF RoundInv, ClosedOK
<1>6. ends <=> \A c \in Cohorts(r) : \A k \in commands[c].new : Over(k)
  BY <1>5, ClosableIsOver
<1> HIDE DEF ends
<1>7. /\ start \in ControlRow /\ start.status = "applied" /\ start.epoch = control[r].epoch
      /\ start.cohorts = control[r].cohorts
  BY <1>3, <1>4 DEF ControlRow
<1>8. start.closed = ends
  BY <1>3 DEF ControlRow
<1> HIDE DEF start
<1>9. /\ control' \in [Starts -> ControlRow] /\ control'[r] = start
      /\ \A q \in Starts : q # r => control'[q] = control[q]
  BY <1>1, <1>3, <1>7
<1>10. \A q \in Starts : /\ control'[q].epoch = control[q].epoch
                         /\ control'[q].cohorts = control[q].cohorts
  BY <1>7, <1>9
<1>11. RowsOK'
  BY <1>1, <1>9 DEF RoundInv, RowsOK, Batches
<1>12. ChildrenOK'
  BY <1>1, <1>10 DEF RoundInv, ChildrenOK
<1>13. CapturedOK'
  BY <1>1, <1>10 DEF RoundInv, CapturedOK
<1>14. StartsOK'
  <2>1. \A q \in Starts : Pending(q)' = Pending(q)
    BY <1>10 DEF Pending
  <2>2. ASSUME NEW i \in DOMAIN control[r].cohorts
        PROVE  control[r].cohorts[i].status = "applied"
    <3>1. control[r].cohorts[i].status \in {"pending", "applied", "blocked"}
      BY CohortIsRow DEF RoundInv
    <3>2. control[r].cohorts[i].status # "pending"
      BY <1>2 DEF Pending
    <3>3. control[r].cohorts[i].status # "blocked"
      BY <1>2 DEF RoundInv, StartsOK
    <3> QED BY <3>1, <3>2, <3>3
  <2>3. \A q \in Starts : q # r => control'[q].status = control[q].status
    BY <1>9
  <2> QED BY <2>1, <2>2, <2>3, <1>1, <1>10 DEF RoundInv, StartsOK
<1>15. ApplyingOK'
  BY <1>1 DEF ApplyingOK
<1>16. \A q \in Starts : Cohorts(q)' = Cohorts(q)
  BY <1>10 DEF Cohorts
<1>17. ClosedOK'
  <2> SUFFICES ASSUME NEW q \in Starts
               PROVE  control'[q].closed <=>
                        /\ control'[q].status = "applied"
                        /\ \A c \in Cohorts(q) : \A j \in commands[c].new : Over(j)
    BY <1>1, <1>16 DEF ClosedOK, Over
  <2>1. CASE q = r
    BY <2>1, <1>6, <1>7, <1>8, <1>9
  <2>2. CASE q # r
    <3>1. control'[q] = control[q]
      BY <2>2, <1>9
    <3> QED BY <3>1 DEF RoundInv, ClosedOK
  <2> QED BY <2>1, <2>2
<1>18. OutboxOK'
  <2>1. ASSUME NEW q \in Starts
        PROVE  CapturedEvents(q, job)' = CapturedEvents(q, job)
    BY <1>1, <1>16 DEF CapturedEvents
  <2>2. \A q \in Starts : q # r => StartEvent(q)' = StartEvent(q)
    BY <2>1, <1>9 DEF StartEvent
  <2>3. StartEvent(r) = {}
    BY <1>5 DEF StartEvent
  <2>4. StartEvent(r)' = IF ends THEN CapturedEvents(r, job) ELSE {}
    BY <2>1, <1>8, <1>9 DEF StartEvent
  <2>5. StartEvents' = StartEvents \cup (IF ends THEN CapturedEvents(r, job) ELSE {})
    <3>1. \A e : e \in StartEvents' <=> \E q \in Starts : e \in StartEvent(q)'
      BY DEF StartEvents
    <3>2. \A e : e \in StartEvents <=> \E q \in Starts : e \in StartEvent(q)
      BY DEF StartEvents
    <3> QED BY ONLY <3>1, <3>2, <2>2, <2>3, <2>4
  <2> QED BY <2>5, <1>1, StartsOnly DEF RoundInv, OutboxOK
<1> QED BY <1>1, <1>11, <1>12, <1>13, <1>14, <1>15, <1>17, <1>18, StartsOnly DEF RoundInv

\* A start of an earlier epoch: what is pending of it is blocked, the rest stays as it is.
LEMMA BlockStep ==
  ASSUME RoundInv, NEW r \in Starts, BlockStart(r)
  PROVE  RoundInv'
<1> DEFINE cohorts == control[r].cohorts
           new == [i \in DOMAIN cohorts |->
                     IF cohorts[i].status = "pending" THEN [cohorts[i] EXCEPT !.status = "blocked"]
                     ELSE cohorts[i]]
           start == [control[r] EXCEPT !.status = "blocked", !.cohorts = new]
<1>1. /\ applying = None /\ applying' = None
      /\ UNCHANGED <<epoch, job, head, commands, rounds, outbox, touched>>
      /\ control' = [control EXCEPT ![r] = start] /\ control[r].status = "pending"
  BY DEF BlockStart
<1>2. control[r] \in ControlRow /\ control \in [Starts -> ControlRow]
  BY DEF RoundInv, RowsOK
<1>3. ~control[r].closed
  BY <1>1 DEF RoundInv, ClosedOK
<1>4. /\ new \in UNION {[1..n -> CohortRow] : n \in 0..NJobs} /\ DOMAIN new = DOMAIN cohorts
      /\ \A i \in DOMAIN cohorts :
           /\ new[i].members = cohorts[i].members
           /\ new[i].status = IF cohorts[i].status = "pending" THEN "blocked"
                              ELSE cohorts[i].status
  <2>1. cohorts \in UNION {[1..n -> CohortRow] : n \in 0..NJobs}
    BY <1>2 DEF ControlRow
  <2>2. PICK n \in 0..NJobs : cohorts \in [1..n -> CohortRow]
    BY <2>1
  <2>3. DOMAIN cohorts = 1..n /\ DOMAIN new = DOMAIN cohorts
    BY <2>2
  <2>4. ASSUME NEW i \in DOMAIN cohorts
        PROVE  /\ new[i] \in CohortRow /\ new[i].members = cohorts[i].members
               /\ new[i].status = IF cohorts[i].status = "pending" THEN "blocked"
                                  ELSE cohorts[i].status
    <3>1. cohorts[i] \in CohortRow
      BY <2>2, <2>3
    <3> QED BY <3>1 DEF CohortRow
  <2> HIDE DEF cohorts
  <2>5. new \in [1..n -> CohortRow]
    <3>1. \A i \in 1..n : (IF cohorts[i].status = "pending"
                           THEN [cohorts[i] EXCEPT !.status = "blocked"] ELSE cohorts[i]) \in CohortRow
      BY <2>3, <2>4
    <3> QED BY <2>3, <3>1
  <2> QED BY <2>3, <2>4, <2>5
<1> HIDE DEF new
<1>5. /\ start \in ControlRow /\ start.status = "blocked" /\ start.epoch = control[r].epoch
      /\ start.cohorts = new
  BY <1>2, <1>4 DEF ControlRow
<1>6. start.closed = control[r].closed
  BY <1>2 DEF ControlRow
<1> HIDE DEF start
<1>7. /\ control' \in [Starts -> ControlRow] /\ control'[r] = start
      /\ \A q \in Starts : q # r => control'[q] = control[q]
  BY <1>1, <1>2, <1>5
<1>8. \A q \in Starts : /\ control'[q].epoch = control[q].epoch
                        /\ control'[q].status = "applied" <=> control[q].status = "applied"
                        /\ DOMAIN control'[q].cohorts = DOMAIN control[q].cohorts
                        /\ \A i \in DOMAIN control[q].cohorts :
                             control'[q].cohorts[i].members = control[q].cohorts[i].members
  BY <1>1, <1>4, <1>5, <1>7
<1>9. \A q \in Starts : control'[q].closed <=> control[q].closed
  BY <1>6, <1>7
<1>10. RowsOK'
  BY <1>1, <1>7 DEF RoundInv, RowsOK, Batches
<1>11. ChildrenOK'
  BY <1>1, <1>8 DEF RoundInv, ChildrenOK
<1>12. CapturedOK'
  BY <1>1, <1>8 DEF RoundInv, CapturedOK
<1>13. Pending(r)' = {}
  BY <1>4, <1>5, <1>7 DEF Pending
<1>14. StartsOK'
  <2> SUFFICES ASSUME NEW q \in Starts
               PROVE  /\ \E p \in 0..NJobs : Pending(q)' = {k \in DOMAIN control'[q].cohorts : k > p}
                      /\ \A i \in DOMAIN control'[q].cohorts :
                           LET cohort == control'[q].cohorts[i]
                           IN  /\ Cardinality(DOMAIN cohort.members) \in 1..CohortSize
                               /\ control'[q].status = "pending" => cohort.status # "blocked"
                               /\ control'[q].status = "applied" => cohort.status = "applied"
                               /\ cohort.status = "applied" =>
                                    commands'[<<q, i>>].epoch = control'[q].epoch
    BY DEF StartsOK
  <2>1. /\ \E p \in 0..NJobs : Pending(q) = {k \in DOMAIN control[q].cohorts : k > p}
        /\ \A i \in DOMAIN control[q].cohorts :
             LET cohort == control[q].cohorts[i]
             IN  /\ Cardinality(DOMAIN cohort.members) \in 1..CohortSize
                 /\ control[q].status = "pending" => cohort.status # "blocked"
                 /\ control[q].status = "applied" => cohort.status = "applied"
                 /\ cohort.status = "applied" => commands[<<q, i>>].epoch = control[q].epoch
    BY DEF RoundInv, StartsOK
  <2>2. CASE q # r
    <3>1. control'[q] = control[q] /\ Pending(q)' = Pending(q) /\ commands' = commands
      BY <2>2, <1>1, <1>7 DEF Pending
    <3> QED BY ONLY <2>1, <3>1
  <2>3. CASE q = r
    <3>1. \E p \in 0..NJobs : Pending(r)' = {k \in DOMAIN control'[r].cohorts : k > p}
      <4>1. \A k \in DOMAIN control'[r].cohorts : k \in 1..NJobs
        BY <1>8, CohortIsRow DEF RoundInv
      <4>2. NJobs \in 0..NJobs /\ {k \in DOMAIN control'[r].cohorts : k > NJobs} = {}
        BY <4>1, RoundConstants
      <4> QED BY <4>2, <1>13
    <3>2. ASSUME NEW i \in DOMAIN control'[r].cohorts
          PROVE  LET cohort == control'[r].cohorts[i]
                 IN  /\ Cardinality(DOMAIN cohort.members) \in 1..CohortSize
                     /\ control'[r].status = "pending" => cohort.status # "blocked"
                     /\ control'[r].status = "applied" => cohort.status = "applied"
                     /\ cohort.status = "applied" => commands'[<<r, i>>].epoch = control'[r].epoch
      <4>1. i \in DOMAIN cohorts /\ control'[r].cohorts[i].members = cohorts[i].members
            /\ control'[r].status = "blocked" /\ control'[r].epoch = control[r].epoch
            /\ commands' = commands
        BY <1>1, <1>5, <1>7, <1>8
      <4>2. control'[r].cohorts[i].status = "applied" => cohorts[i].status = "applied"
        BY <4>1, <1>4, <1>5, <1>7
      <4> QED BY <4>1, <4>2, <2>1, <2>3
    <3> QED BY <2>3, <3>1, <3>2
  <2> QED BY <2>2, <2>3
<1>15. ApplyingOK'
  BY <1>1 DEF ApplyingOK
<1>16. \A q \in Starts : Cohorts(q)' = Cohorts(q)
  BY <1>8 DEF Cohorts
<1>17. ClosedOK'
  BY <1>1, <1>8, <1>9, <1>16 DEF RoundInv, ClosedOK, Over
<1>18. OutboxOK'
  <2>1. ASSUME NEW q \in Starts
        PROVE  StartEvent(q)' = StartEvent(q)
    <3>1. CapturedEvents(q, job)' = CapturedEvents(q, job)
      BY <1>16, <1>1 DEF CapturedEvents
    <3> QED BY <3>1, <1>9 DEF StartEvent
  <2>2. StartEvents' = StartEvents
    BY <2>1 DEF StartEvents
  <2> QED BY <2>2, <1>1, StartsOnly DEF RoundInv, OutboxOK
<1> QED BY <1>1, <1>10, <1>11, <1>12, <1>14, <1>15, <1>17, <1>18, StartsOnly DEF RoundInv

-----------------------------------------------------------------------------
(* The acceptance of a captured start.                                     *)

\* The ranks of the selected jobs are the numbers below their count, each the rank of one.
LEMMA RanksCount ==
  ASSUME NEW selected \in SUBSET Jobs
  PROVE  LET n == Cardinality(selected)
         IN  /\ IsFiniteSet(selected) /\ n \in 0..NJobs
             /\ \A j \in selected : Rank(j, selected) \in 0..(n - 1)
             /\ \A j, k \in selected : Rank(j, selected) = Rank(k, selected) => j = k
             /\ \A x \in 0..(n - 1) : \E j \in selected : Rank(j, selected) = x
<1> DEFINE n == Cardinality(selected)
           below(j) == {k \in selected : k < j}
<1>1. NJobs \in Nat /\ IsFiniteSet(Jobs) /\ Cardinality(Jobs) = NJobs
  <2>1. 1 \in Int /\ NJobs \in Int /\ NJobs \in Nat /\ ~(1 > NJobs)
    BY RoundConstants
  <2>2. IsFiniteSet(1..NJobs) /\ Cardinality(1..NJobs) = NJobs - 1 + 1
    BY <2>1, FS_Interval
  <2> QED BY <2>1, <2>2 DEF Jobs
<1>2. IsFiniteSet(selected) /\ n \in Nat /\ n <= NJobs
  <2>1. IsFiniteSet(selected) /\ n <= NJobs
    BY <1>1, FS_Subset
  <2> QED BY <2>1, FS_CardinalityType
<1>3. \A j \in selected : j \in Int
  BY <1>1 DEF Jobs
<1>4. ASSUME NEW j \in selected
      PROVE  IsFiniteSet(below(j)) /\ Cardinality(below(j)) \in 0..(n - 1)
  <2>1. below(j) \in SUBSET (selected \ {j})
    BY <1>3
  <2>2. IsFiniteSet(selected \ {j}) /\ Cardinality(selected \ {j}) = n - 1
    BY <1>2, FS_RemoveElement
  <2> HIDE DEF below
  <2>3. IsFiniteSet(below(j)) /\ Cardinality(below(j)) <= n - 1
    BY <2>1, <2>2, FS_Subset
  <2>4. Cardinality(below(j)) \in Nat
    BY <2>3, FS_CardinalityType
  <2> QED BY <1>2, <2>3, <2>4
<1>5. ASSUME NEW j \in selected, NEW k \in selected, j < k
      PROVE  Cardinality(below(j)) < Cardinality(below(k))
  <2>1. below(j) \cup {j} \in SUBSET below(k) /\ j \notin below(j)
    BY <1>3, <1>5
  <2> HIDE DEF below
  <2>2. Cardinality(below(j) \cup {j}) = Cardinality(below(j)) + 1
    BY <1>4, <2>1, FS_AddElement
  <2>3. Cardinality(below(j) \cup {j}) <= Cardinality(below(k))
    BY <1>4, <2>1, FS_Subset
  <2>4. Cardinality(below(j)) \in Int /\ Cardinality(below(k)) \in Int
    BY <1>2, <1>4
  <2> QED BY <2>2, <2>3, <2>4
<1>6. \A j \in selected : Rank(j, selected) = Cardinality(below(j))
  BY DEF Rank
<1> HIDE DEF below
<1>7. \A j \in selected : Rank(j, selected) \in 0..(n - 1)
  BY <1>4, <1>6
<1>8. ASSUME NEW j \in selected, NEW k \in selected, Rank(j, selected) = Rank(k, selected)
      PROVE  j = k
  <2>1. ~(j < k) /\ ~(k < j)
    BY <1>2, <1>4, <1>5, <1>6, <1>8
  <2> QED BY <1>3, <2>1
<1> DEFINE rank == [j \in selected |-> Rank(j, selected)]
<1>9. rank \in [selected -> 0..(n - 1)]
  BY <1>7
<1>10. \A j, k \in selected : rank[j] = rank[k] => j = k
  BY <1>8
<1>11. \A j \in selected : rank[j] = Rank(j, selected)
  OBVIOUS
<1> HIDE DEF rank
<1>12. rank \in Injection(selected, 0..(n - 1))
  BY <1>9, <1>10, Fun_IsInj
<1>13. IsFiniteSet(0..(n - 1)) /\ Cardinality(0..(n - 1)) = n
  <2>1. 0 \in Int /\ n - 1 \in Int
    BY <1>2
  <2>2. IsFiniteSet(0..(n - 1)) /\ Cardinality(0..(n - 1)) = IF 0 > n - 1 THEN 0 ELSE n - 1 - 0 + 1
    BY <2>1, FS_Interval
  <2> QED BY <1>2, <2>2
<1>14. rank \in Surjection(selected, 0..(n - 1))
  BY <1>12, <1>13, FS_Injection
<1>15. \A x \in 0..(n - 1) : \E j \in selected : rank[j] = x
  BY <1>14 DEF Surjection
<1> QED BY <1>2, <1>7, <1>8, <1>11, <1>15

\* Division by the size of a cohort.
LEMMA DivCohort ==
  ASSUME NEW a \in Nat
  PROVE  LET q == a \div CohortSize
         IN  q \in Nat /\ q * CohortSize <= a /\ a < (q + 1) * CohortSize
<1>1. CohortSize \in Nat \ {0}
  BY RoundConstants
<1> QED BY <1>1

\* The cohorts of a start are small, not empty, and no more than the jobs; they hold
\* selected jobs at the revisions they have.
LEMMA GroupedRows ==
  ASSUME RowsOK, NEW selected \in SUBSET Jobs
  PROVE  /\ Grouped(selected) \in UNION {[1..n -> CohortRow] : n \in 0..NJobs}
         /\ \A i \in DOMAIN Grouped(selected) :
              LET cohort == Grouped(selected)[i]
              IN  /\ Cardinality(DOMAIN cohort.members) \in 1..CohortSize
                  /\ cohort.status = "pending"
                  /\ DOMAIN cohort.members \subseteq Jobs
                  /\ \A j \in DOMAIN cohort.members : cohort.members[j] = job[j].revision
<1> DEFINE n == Cardinality(selected)
           C == CohortSize
           D == (n + C - 1) \div C
           group(i) == {j \in selected : Rank(j, selected) \div C = i - 1}
           row(i) == [members |-> [j \in group(i) |-> job[j].revision], status |-> "pending"]
<1>1. Grouped(selected) = [i \in 1..D |-> row(i)]
  BY DEF Grouped
<1>2. C \in Nat /\ C >= 1 /\ NJobs \in Nat
  BY RoundConstants
<1>3. IsFiniteSet(selected) /\ n \in 0..NJobs
      /\ (\A j \in selected : Rank(j, selected) \in 0..(n - 1))
      /\ (\A j, k \in selected : Rank(j, selected) = Rank(k, selected) => j = k)
      /\ (\A x \in 0..(n - 1) : \E j \in selected : Rank(j, selected) = x)
  BY RanksCount
<1> HIDE DEF n
<1>4. n \in Nat /\ n <= NJobs
  BY <1>2, <1>3
<1>5. D \in Nat /\ D * C <= n + C - 1
  <2>1. n + C - 1 \in Nat
    BY <1>2, <1>4
  <2> QED BY <2>1, DivCohort
<1> HIDE DEF C, D
<1>6. D \in 0..NJobs
  <2>1. SUFFICES ASSUME D >= n + 1 PROVE FALSE
    BY <1>4, <1>5, <1>2
  <2>2. D * C >= (n + 1) * C
    BY <2>1, <1>2, <1>4, <1>5
  <2>3. (n + 1) * C = n * C + C /\ n * C >= n
    BY <1>2, <1>4
  <2>4. n * C \in Int /\ D * C \in Int
    BY <1>2, <1>4, <1>5
  <2> QED BY <2>2, <2>3, <2>4, <1>2, <1>4, <1>5
<1>7. ASSUME NEW i \in 1..D
      PROVE  Cardinality(group(i)) \in 1..C /\ group(i) \subseteq Jobs /\ IsFiniteSet(group(i))
  <2> DEFINE low == (i - 1) * C
  <2>1. i \in Nat /\ i - 1 \in Nat /\ low \in Nat /\ low + C = i * C
    BY <1>2, <1>5
  <2>2. low <= n - 1
    <3>1. i * C <= D * C
      BY <2>1, <1>2, <1>5
    <3>2. i * C \in Int /\ D * C \in Int
      BY <2>1, <1>2, <1>5
    <3> QED BY <3>1, <3>2, <2>1, <1>2, <1>4, <1>5
  <2>3. ASSUME NEW j \in group(i)
        PROVE  j \in selected /\ Rank(j, selected) \in low..(low + C - 1)
    <3>1. j \in selected /\ Rank(j, selected) \in Nat /\ Rank(j, selected) \div C = i - 1
      BY <1>3, <1>4
    <3>2. (i - 1) * C <= Rank(j, selected) /\ Rank(j, selected) < (i - 1 + 1) * C
      BY <3>1, DivCohort DEF C
    <3>3. (i - 1 + 1) * C = i * C
      BY <2>1
    <3> HIDE DEF low, group
    <3>4. low <= Rank(j, selected) /\ Rank(j, selected) < i * C
      BY <3>2, <3>3 DEF low
    <3> QED BY <3>1, <3>4, <2>1, <1>2
  <2>4. group(i) # {}
    <3>1. low \in 0..(n - 1)
      BY <2>1, <2>2, <1>4
    <3>2. PICK j \in selected : Rank(j, selected) = low
      BY <3>1, <1>3
    <3>3. low \div C = i - 1
      <4>1. (low \div C) \in Nat /\ (low \div C) * C <= low /\ low < (low \div C + 1) * C
        BY <2>1, DivCohort DEF C
      <4> DEFINE q == low \div C
                 p == i - 1
      <4>2. q \in Nat /\ p \in Nat /\ q * C <= p * C /\ p * C < (q + 1) * C
        BY <4>1, <2>1
      <4> HIDE DEF q, p
      <4>3. q <= p
        BY <4>2, <1>2
      <4>4. p < q + 1
        BY <4>2, <1>2
      <4> QED BY <4>2, <4>3, <4>4 DEF q, p
    <3> QED BY <3>2, <3>3
  <2>5. group(i) \in SUBSET selected
    OBVIOUS
  <2>6. IsFiniteSet(group(i)) /\ Cardinality(group(i)) \in Nat
    <3> HIDE DEF group
    <3>1. IsFiniteSet(group(i))
      BY <2>5, <1>3, FS_Subset
    <3> QED BY <3>1, FS_CardinalityType
  <2> DEFINE rank == [j \in group(i) |-> Rank(j, selected)]
  <2> HIDE DEF group, low
  <2>7. rank \in Injection(group(i), low..(low + C - 1))
    <3>1. rank \in [group(i) -> low..(low + C - 1)]
      BY <2>3
    <3>2. \A j, k \in group(i) : rank[j] = rank[k] => j = k
      BY <2>3, <1>3
    <3> HIDE DEF rank
    <3> QED BY <3>1, <3>2, Fun_IsInj
  <2>8. IsFiniteSet(low..(low + C - 1)) /\ Cardinality(low..(low + C - 1)) = C
    <3>1. low \in Int /\ low + C - 1 \in Int /\ ~(low > low + C - 1)
      BY <2>1, <1>2
    <3>2. Cardinality(low..(low + C - 1)) = (low + C - 1) - low + 1
      BY <3>1, FS_Interval
    <3> QED BY <3>1, <3>2, <2>1, <1>2, FS_Interval
  <2>9. Cardinality(group(i)) <= C
    <3> HIDE DEF rank
    <3> QED BY <2>7, <2>8, FS_Injection
  <2>10. Cardinality(group(i)) # 0
    BY <2>4, <2>6, FS_EmptySet
  <2> QED BY <2>5, <2>6, <2>9, <2>10, <1>2
<1>8. ASSUME NEW i \in 1..D
      PROVE  /\ row(i) \in CohortRow /\ row(i).status = "pending"
             /\ DOMAIN row(i).members = group(i)
             /\ \A j \in group(i) : row(i).members[j] = job[j].revision
  <2>1. group(i) \in SUBSET Jobs
    BY <1>7
  <2> HIDE DEF group
  <2>2. \A j \in group(i) : job[j].revision \in Nat
    BY <2>1 DEF RowsOK, JobRow
  <2>3. [j \in group(i) |-> job[j].revision] \in [group(i) -> Nat]
    BY <2>2
  <2> QED BY <2>1, <2>3 DEF CohortRow
<1> HIDE DEF row, group
<1>9. [i \in 1..D |-> row(i)] \in [1..D -> CohortRow]
  BY <1>8
<1> QED BY <1>1, <1>6, <1>7, <1>8, <1>9 DEF C

LEMMA AcceptStep ==
  ASSUME RoundInv, NEW r \in Starts, NEW scope \in SUBSET Jobs, AcceptStart(r, scope)
  PROVE  RoundInv'
<1> DEFINE cohorts == Grouped({j \in scope : job[j].state \notin Terminal})
           start == [status |-> "pending", epoch |-> epoch, closed |-> FALSE, cohorts |-> cohorts]
<1>1. /\ applying' = None /\ UNCHANGED <<epoch, job, head, commands, rounds, outbox>>
      /\ control[r] = NoControl /\ control' = [control EXCEPT ![r] = start]
      /\ touched' = [touched EXCEPT ![r] = {}]
  BY DEF AcceptStart
<1>2. /\ cohorts \in UNION {[1..n -> CohortRow] : n \in 0..NJobs}
      /\ \A i \in DOMAIN cohorts :
           /\ Cardinality(DOMAIN cohorts[i].members) \in 1..CohortSize
           /\ cohorts[i].status = "pending" /\ DOMAIN cohorts[i].members \subseteq Jobs
           /\ \A j \in DOMAIN cohorts[i].members : cohorts[i].members[j] = job[j].revision
  <2>1. {j \in scope : job[j].state \notin Terminal} \in SUBSET Jobs
    OBVIOUS
  <2> QED BY <2>1, GroupedRows DEF RoundInv
<1> HIDE DEF cohorts
<1>3. epoch \in Nat /\ control \in [Starts -> ControlRow] /\ touched \in [Starts -> SUBSET Jobs]
  BY RoundConstants DEF RoundInv, RowsOK
<1>4. /\ start \in ControlRow /\ start.status = "pending" /\ start.epoch = epoch
      /\ start.cohorts = cohorts /\ ~start.closed
  BY <1>2, <1>3 DEF ControlRow
<1> HIDE DEF start
<1>5. /\ control' \in [Starts -> ControlRow] /\ control'[r] = start
      /\ \A q \in Starts : q # r => control'[q] = control[q]
  BY <1>1, <1>3, <1>4
<1>6. /\ touched' \in [Starts -> SUBSET Jobs] /\ touched'[r] = {}
      /\ \A q \in Starts : q # r => touched'[q] = touched[q]
  BY <1>1, <1>3
<1>7. /\ control[r].status = "none" /\ control[r].cohorts = <<>> /\ DOMAIN control[r].cohorts = {}
      /\ ~control[r].closed
  BY <1>1 DEF NoControl
<1>8. RowsOK'
  BY <1>1, <1>5, <1>6 DEF RoundInv, RowsOK, Batches
<1>9. \A i \in 1..NJobs : commands[<<r, i>>] = NoCommand
  BY <1>7 DEF RoundInv, ChildrenOK
<1>10. ChildrenOK'
  <2> SUFFICES ASSUME NEW q \in Starts, NEW i \in 1..NJobs, commands[<<q, i>>] # NoCommand
               PROVE  /\ i \in DOMAIN control'[q].cohorts
                      /\ commands[<<q, i>>].epoch = control'[q].epoch
                      /\ commands[<<q, i>>].new \cup commands[<<q, i>>].existing
                           \subseteq DOMAIN control'[q].cohorts[i].members
    BY <1>1 DEF ChildrenOK
  <2>1. q # r
    BY <1>9
  <2> QED BY <2>1, <1>5 DEF RoundInv, ChildrenOK
<1>11. StartsOK'
  <2> SUFFICES ASSUME NEW q \in Starts
               PROVE  /\ \E p \in 0..NJobs : Pending(q)' = {k \in DOMAIN control'[q].cohorts : k > p}
                      /\ \A i \in DOMAIN control'[q].cohorts :
                           LET cohort == control'[q].cohorts[i]
                           IN  /\ Cardinality(DOMAIN cohort.members) \in 1..CohortSize
                               /\ control'[q].status = "pending" => cohort.status # "blocked"
                               /\ control'[q].status = "applied" => cohort.status = "applied"
                               /\ cohort.status = "applied" =>
                                    commands'[<<q, i>>].epoch = control'[q].epoch
    BY DEF StartsOK
  <2>1. CASE q # r
    <3>1. control'[q] = control[q] /\ Pending(q)' = Pending(q) /\ commands' = commands
      BY <2>1, <1>1, <1>5 DEF Pending
    <3>2. /\ \E p \in 0..NJobs : Pending(q) = {k \in DOMAIN control[q].cohorts : k > p}
          /\ \A i \in DOMAIN control[q].cohorts :
               LET cohort == control[q].cohorts[i]
               IN  /\ Cardinality(DOMAIN cohort.members) \in 1..CohortSize
                   /\ control[q].status = "pending" => cohort.status # "blocked"
                   /\ control[q].status = "applied" => cohort.status = "applied"
                   /\ cohort.status = "applied" => commands[<<q, i>>].epoch = control[q].epoch
      BY DEF RoundInv, StartsOK
    <3> QED BY ONLY <3>1, <3>2
  <2>2. CASE q = r
    <3>1. control'[r].cohorts = cohorts /\ control'[r].status = "pending"
      BY <1>4, <1>5
    <3>2. \A k \in DOMAIN cohorts : k > 0
      <4>1. PICK n \in 0..NJobs : cohorts \in [1..n -> CohortRow]
        BY <1>2
      <4> QED BY <4>1
    <3>3. Pending(r)' = {k \in DOMAIN control'[r].cohorts : k > 0} /\ 0 \in 0..NJobs
      <4>1. 0 \in 0..NJobs
        BY RoundConstants
      <4> QED BY <4>1, <3>1, <3>2, <1>2 DEF Pending
    <3> QED BY <2>2, <3>1, <3>3, <1>2
  <2> QED BY <2>1, <2>2
<1>12. CapturedOK'
  <2> SUFFICES ASSUME NEW q \in Starts, NEW i \in DOMAIN control'[q].cohorts,
                      NEW j \in DOMAIN control'[q].cohorts[i].members
               PROVE  /\ control'[q].cohorts[i].members[j] <= job[j].revision
                      /\ j \in touched'[q] => control'[q].cohorts[i].members[j] < job[j].revision
    BY <1>1 DEF CapturedOK
  <2>1. CASE q # r
    BY <2>1, <1>5, <1>6 DEF RoundInv, CapturedOK
  <2>2. CASE q = r
    <3>1. control'[q].cohorts[i].members[j] = job[j].revision /\ j \in Jobs
      BY <2>2, <1>2, <1>4, <1>5
    <3>2. job[j].revision \in Nat
      BY <3>1 DEF RoundInv, RowsOK, JobRow
    <3> QED BY <2>2, <3>1, <3>2, <1>6
  <2> QED BY <2>1, <2>2
<1>13. ApplyingOK'
  BY <1>1 DEF ApplyingOK
<1>14. \A q \in Starts : q # r => Cohorts(q)' = Cohorts(q)
  BY <1>5 DEF Cohorts
<1>15. ClosedOK'
  <2> SUFFICES ASSUME NEW q \in Starts
               PROVE  control'[q].closed <=>
                        /\ control'[q].status = "applied"
                        /\ \A c \in Cohorts(q)' : \A j \in commands[c].new : Over(j)
    BY <1>1 DEF ClosedOK, Over
  <2>1. CASE q = r
    BY <2>1, <1>4, <1>5
  <2>2. CASE q # r
    BY <2>2, <1>5, <1>14 DEF RoundInv, ClosedOK
  <2> QED BY <2>1, <2>2
<1>16. OutboxOK'
  <2>1. ASSUME NEW q \in Starts
        PROVE  StartEvent(q)' = StartEvent(q)
    <3>1. CASE q = r
      BY <3>1, <1>4, <1>5, <1>7 DEF StartEvent
    <3>2. CASE q # r
      <4>1. CapturedEvents(q, job)' = CapturedEvents(q, job)
        BY <3>2, <1>14, <1>1 DEF CapturedEvents
      <4> QED BY <4>1, <3>2, <1>5 DEF StartEvent
    <3> QED BY <3>1, <3>2
  <2>2. StartEvents' = StartEvents
    BY <2>1 DEF StartEvents
  <2> QED BY <2>2, <1>1, StartsOnly DEF RoundInv, OutboxOK
<1> QED BY <1>1, <1>8, <1>10, <1>11, <1>12, <1>13, <1>15, <1>16, StartsOnly DEF RoundInv

-----------------------------------------------------------------------------
(* A restart.                                                              *)

LEMMA ColdStep ==
  ASSUME RoundInv, ColdStart
  PROVE  RoundInv'
<1> DEFINE moved == {j \in Jobs : job[j].state \notin Terminal}
           row(j) == IF Over(j) THEN job[j]
                     ELSE [job[j] EXCEPT !.state = "paused", !.revision = @ + 1]
           status(j) == IF Over(j) THEN "terminal" ELSE "inactive"
<1>1. /\ epoch < MaxEpoch /\ epoch' = epoch + 1 /\ applying' = None /\ Touch(moved, {})
      /\ UNCHANGED <<commands, rounds, control, outbox>>
      /\ \A j \in Jobs : job[j].revision < MaxRevision
      /\ job' = [j \in Jobs |-> row(j)]
      /\ head' = [j \in Jobs |-> IF head[j] = None THEN None
                                 ELSE Fence(head[j], job'[j], epoch + 1, status(j))]
  BY DEF ColdStart, Over
<1>2. ASSUME NEW j \in Jobs
      PROVE  /\ row(j) \in JobRow /\ job[j] \in JobRow
             /\ job[j].revision \in Nat /\ row(j).revision \in Nat
             /\ Over(j) => row(j) = job[j]
             /\ ~Over(j) => row(j).state = "paused" /\ row(j).revision = job[j].revision + 1
  <2>1. job[j] \in JobRow
    BY DEF RoundInv, RowsOK
  <2>2. CASE Over(j)
    BY <2>1, <2>2 DEF JobRow
  <2>3. CASE ~Over(j)
    <3> DEFINE next == job[j].revision + 1
               x == [job[j] EXCEPT !.state = "paused", !.revision = next]
    <3>0. job[j].revision \in Nat /\ next \in Nat
      BY <2>1 DEF JobRow
    <3>1. x \in JobRow /\ x.state = "paused" /\ x.revision = job[j].revision + 1
          /\ job[j].revision \in Nat /\ x.revision \in Nat
      <4>1. x = [job[j] EXCEPT !.state = "paused", !.revision = next]
        OBVIOUS
      <4> HIDE DEF next
      <4>2. x \in JobRow /\ x.state = "paused" /\ x.revision = next
        BY <2>1, <3>0, <4>1 DEF JobRow, States
      <4> QED BY <3>0, <4>2 DEF next
    <3>2. row(j) = x
      BY <2>3
    <3> QED BY <2>1, <2>3, <3>1, <3>2
  <2> QED BY <2>2, <2>3
<1> HIDE DEF row, status
<1>3. \A j \in Jobs : job'[j] = row(j)
  BY <1>1
<1>4. \A j \in Jobs : /\ Over(j)' <=> Over(j)
                      /\ job'[j].state = "completed" <=> job[j].state = "completed"
  BY <1>2, <1>3, StatesApart DEF Over
<1>5. ASSUME NEW j \in Jobs, head[j] # None
      PROVE  /\ head[j] \in HeadRow /\ head'[j] \in HeadRow /\ head'[j] # None
             /\ head'[j].owner = head[j].owner /\ head'[j].activation = head[j].activation
             /\ head'[j].round = head[j].round
             /\ head'[j].revision = job'[j].revision /\ head'[j].state = job'[j].state
             /\ head'[j].epoch = epoch + 1 /\ head'[j].status = status(j)
  <2>1. head[j] \in HeadRow
    BY <1>5 DEF RoundInv, RowsOK
  <2>2. job'[j].revision \in Nat /\ job'[j].state \in States
    BY <1>2, <1>3 DEF JobRow
  <2>3. epoch + 1 \in Nat
    BY RoundConstants DEF RoundInv, RowsOK
  <2>4. status(j) \in {"current", "inactive", "terminal"}
    BY DEF status
  <2>5. head'[j] = [head[j] EXCEPT !.revision = job'[j].revision, !.state = job'[j].state,
                                   !.epoch = epoch + 1, !.status = status(j)]
    BY <1>1, <1>5 DEF Fence
  <2>6. head'[j] \in HeadRow
    BY <2>1, <2>2, <2>3, <2>4, <2>5 DEF HeadRow
  <2> QED BY <2>1, <2>5, <2>6, RoundMarkers DEF HeadRow
<1>6. \A j \in Jobs : head'[j] = None <=> head[j] = None
  BY <1>1, <1>5
<1>7. touched' \in [Starts -> SUBSET Jobs] /\ \A r \in Starts : touched'[r] \subseteq touched[r] \cup moved
  <2>1. moved \in SUBSET Jobs
    OBVIOUS
  <2> QED BY <2>1, <1>1, TouchRows
<1>8. RowsOK'
  <2>1. epoch' \in 1..MaxEpoch
    BY <1>1, RoundConstants DEF RoundInv, RowsOK
  <2>2. job' \in [Jobs -> JobRow]
    BY <1>1, <1>2
  <2>3. head' \in [Jobs -> HeadRow \cup {None}]
    <3>1. \A j \in Jobs : head'[j] \in HeadRow \cup {None}
      BY <1>1, <1>5
    <3>2. head' = [j \in Jobs |-> head'[j]]
      BY <1>1
    <3> QED BY ONLY <3>1, <3>2
  <2> QED BY <2>1, <2>2, <2>3, <1>1, <1>7 DEF RoundInv, RowsOK, Batches
<1>9. RevisionsOK'
  <2> SUFFICES ASSUME NEW j \in Jobs
               PROVE  job'[j].revision <= MaxRevision
    <3>1. MaxRevision \in Nat /\ \A j \in Jobs : job'[j].revision \in Nat
      BY <1>2, <1>3, RoundConstants
    <3> QED BY <3>1 DEF RevisionsOK
  <2> QED BY <1>1, <1>2, <1>3, RoundConstants
<1>10. HeadIsReadable'
  <2> SUFFICES ASSUME NEW j \in Jobs, head'[j] # None
               PROVE  ReadableHead(j, head[j])'
    BY DEF HeadIsReadable
  <2>1. head[j] # None /\ ReadableHead(j, head[j])
    BY <1>6 DEF RoundInv, HeadIsReadable
  <2>2. head'[j].status = status(j) /\ status(j) # "current" /\ (status(j) = "terminal" <=> Over(j)')
    BY <1>4, <1>5, <2>1 DEF status
  <2> QED BY <2>1, <2>2, <1>1, <1>5 DEF ReadableHead, Over
<1>11. NewOwns'
  <2>1. \A c \in CommandIds : commands[c].new \subseteq Jobs
    BY DEF RoundInv, RowsOK, CommandRow
  <2> QED BY <2>1, <1>1, <1>5 DEF RoundInv, NewOwns
<1>12. RoundsOK'
  <2> SUFFICES ASSUME NEW h \in Batches, NEW n \in 1..Len(rounds[h])
               PROVE  /\ Members(rounds[h][n].owner, h) # {}
                      /\ \A m \in 1..Len(rounds[h]) : rounds[h][m].owner = rounds[h][n].owner => m = n
                      /\ rounds[h][n].status = "terminal" <=>
                           \A j \in Members(rounds[h][n].owner, h) : Over(j)'
    BY <1>1 DEF RoundsOK, Members
  <2>1. \A j \in Members(rounds[h][n].owner, h) : j \in Jobs
    BY RoundIsRow, MembersOwned DEF RoundInv
  <2> QED BY <2>1, <1>4 DEF RoundInv, RoundsOK
<1>13. ChildrenOK' /\ StartsOK'
  BY <1>1, StartsKept
<1>14. CapturedOK'
  <2>1. \A j \in Jobs : job[j].revision <= job'[j].revision
    BY <1>2, <1>3
  <2>2. \A j \in moved : job[j].revision < job'[j].revision
    BY <1>2, <1>3 DEF Over
  <2>3. moved \in SUBSET Jobs /\ job' \in [Jobs -> JobRow]
    BY <1>1, <1>2
  <2> HIDE DEF moved
  <2> QED BY <2>1, <2>2, <2>3, <1>1, <1>7, CapturedKeeps
<1>15. ApplyingOK'
  BY <1>1 DEF ApplyingOK
<1>16. ClosedOK'
  <2> SUFFICES ASSUME NEW r \in Starts
               PROVE  control[r].closed <=>
                        /\ control[r].status = "applied"
                        /\ \A c \in Cohorts(r) : \A j \in commands[c].new : Over(j)'
    BY <1>1 DEF ClosedOK, Cohorts
  <2>1. \A c \in Cohorts(r) : \A j \in commands[c].new : j \in Jobs
    BY CohortCommand DEF RoundInv
  <2> QED BY <2>1, <1>4 DEF RoundInv, ClosedOK
<1>17. OutboxOK'
  <2>1. \A h \in Batches :
           /\ Len(rounds[h]) \in Nat
           /\ \A n \in 1..Len(rounds[h]) :
                rounds'[h][n] = rounds[h][n]
                  /\ Members(rounds[h][n].owner, h)' = Members(rounds[h][n].owner, h)
           /\ rounds'[h] = rounds[h]
    BY <1>1 DEF RoundInv, RowsOK, Members
  <2>2. \A r \in Starts :
           /\ control'[r].closed <=> control[r].closed
           /\ control[r].closed =>
                /\ DOMAIN control'[r].cohorts = DOMAIN control[r].cohorts
                /\ \A c \in Cohorts(r) : commands'[c].new = commands[c].new
    BY <1>1
  <2>3. \A j \in Jobs : /\ job'[j].state = "completed" <=> job[j].state = "completed"
                        /\ Over(j) => (head'[j] = None <=> head[j] = None)
    BY <1>4, <1>6
  <2>4. (JobEvents \cup RoundEvents \cup StartEvents)' = JobEvents \cup RoundEvents \cup StartEvents
    BY <2>1, <2>2, <2>3, SameEvents
  <2> QED BY <2>4, <1>1 DEF RoundInv, OutboxOK
<1> QED BY <1>8, <1>9, <1>10, <1>11, <1>12, <1>13, <1>14, <1>15, <1>16, <1>17 DEF RoundInv

-----------------------------------------------------------------------------
(* The invariant.                                                          *)

LEMMA InitInv ==
  ASSUME RoundInit
  PROVE  RoundInv
<1>1. /\ epoch = 1 /\ applying = None /\ outbox = {}
      /\ job = [j \in Jobs |-> [state |-> "queued", authorized |-> FALSE, hold |-> FALSE, revision |-> 0]]
      /\ head = [j \in Jobs |-> None]
      /\ commands = [c \in CommandIds |-> NoCommand]
      /\ rounds = [h \in Batches |-> <<>>]
      /\ control = [r \in Starts |-> NoControl]
      /\ touched = [r \in Starts |-> {}]
  BY DEF RoundInit, Batches
<1>2. \A j \in Jobs : /\ job[j].state = "queued" /\ job[j].revision = 0 /\ head[j] = None
                      /\ job[j] \in JobRow
  BY <1>1 DEF JobRow, States
<1>3. \A c \in CommandIds : commands[c] = NoCommand /\ commands[c].new = {}
  BY <1>1 DEF NoCommand
<1>4. \A h \in Batches : rounds[h] = <<>> /\ Len(rounds[h]) = 0
  BY <1>1
<1>5. \A r \in Starts : /\ control[r] = NoControl /\ control[r].cohorts = <<>>
                        /\ DOMAIN control[r].cohorts = {} /\ control[r].status = "none"
                        /\ ~control[r].closed
  BY <1>1 DEF NoControl
<1>6. RowsOK
  <2>1. NoCommand \in CommandRow
    BY DEF NoCommand, CommandRow
  <2>2. NoControl \in ControlRow
    <3>1. <<>> \in [1..0 -> CohortRow] /\ 0 \in 0..NJobs
      BY RoundConstants
    <3>2. <<>> \in UNION {[1..n -> CohortRow] : n \in 0..NJobs}
      BY <3>1
    <3> QED BY <3>2 DEF NoControl, ControlRow
  <2>3. <<>> \in Seq(RoundRow)
    OBVIOUS
  <2>4. epoch \in 1..MaxEpoch
    BY <1>1, RoundConstants
  <2>5. /\ job \in [Jobs -> JobRow] /\ head \in [Jobs -> HeadRow \cup {None}]
        /\ rounds \in [Batches -> Seq(RoundRow)] /\ touched \in [Starts -> SUBSET Jobs]
    BY <1>1, <1>2, <2>3
  <2>6. commands \in [CommandIds -> CommandRow] /\ control \in [Starts -> ControlRow]
    BY <1>1, <2>1, <2>2
  <2> QED BY <2>4, <2>5, <2>6 DEF RowsOK
<1>7. RevisionsOK
  BY <1>2, RoundConstants DEF RevisionsOK
<1>8. HeadIsReadable
  BY <1>2 DEF HeadIsReadable
<1>9. NewOwns
  BY <1>3 DEF NewOwns
<1>10. RoundsOK
  BY <1>4 DEF RoundsOK
<1>11. ChildrenOK
  <2>1. \A r \in Starts, i \in 1..NJobs : <<r, i>> \in CommandIds
    BY DEF CommandIds, Children
  <2> QED BY <2>1, <1>3 DEF ChildrenOK
<1>12. StartsOK
  <2>1. 0 \in 0..NJobs
    BY RoundConstants
  <2> QED BY <2>1, <1>5 DEF StartsOK, Pending
<1>13. CapturedOK
  BY <1>5 DEF CapturedOK
<1>14. ApplyingOK
  BY <1>1 DEF ApplyingOK
<1>15. ClosedOK
  BY <1>5 DEF ClosedOK
<1>16. OutboxOK
  <2>1. \A j \in Jobs : Standalone(j, job) = {}
    BY <1>2 DEF Standalone, Announce
  <2>2. JobEvents = {}
    BY <2>1 DEF JobEvents
  <2>3. RoundEvents = {}
    BY <1>4 DEF RoundEvents
  <2>4. StartEvents = {}
    BY <1>5 DEF StartEvents, StartEvent
  <2> QED BY <2>2, <2>3, <2>4, <1>1 DEF OutboxOK
<1> QED BY <1>6, <1>7, <1>8, <1>9, <1>10, <1>11, <1>12, <1>13, <1>14, <1>15, <1>16 DEF RoundInv

LEMMA StutterInv ==
  ASSUME RoundInv, UNCHANGED roundVars
  PROVE  RoundInv'
<1>1. /\ UNCHANGED <<epoch, job, head, commands, rounds, touched, outbox>>
      /\ control' = control /\ applying' = applying
  BY DEF roundVars
<1>2. RowsOK'
  BY <1>1 DEF RoundInv, RowsOK, Batches
<1>3. ChildrenOK' /\ StartsOK'
  BY <1>1, StartsKept
<1>4. CapturedOK' /\ ClosedOK'
  BY <1>1 DEF RoundInv, CapturedOK, ClosedOK, Cohorts, Over
<1>5. ApplyingOK'
  <2>1. \A r \in Starts : Pending(r)' = Pending(r)
    BY <1>1 DEF Pending
  <2>2. \A r \in Starts : First(r)' = First(r)
    BY <2>1 DEF First
  <2> QED BY <1>1, <2>1, <2>2 DEF RoundInv, ApplyingOK
<1>6. OutboxOK'
  <2>1. StartEvents' = StartEvents
    BY <1>1 DEF StartEvents, StartEvent, CapturedEvents, Cohorts
  <2> QED BY <2>1, <1>1, StartsOnly DEF RoundInv, OutboxOK
<1> QED BY <1>1, <1>2, <1>3, <1>4, <1>5, <1>6, StartsOnly DEF RoundInv

\* Every step keeps the invariant.
LEMMA NextInv ==
  ASSUME RoundInv, RoundNext
  PROVE  RoundInv'
<1>1. ASSUME NEW c \in Targets, NEW h \in DOMAIN rounds, Target(c, "start", {j \in Jobs : CohortOf[j] = h})
      PROVE  RoundInv'
  <2>1. "start" \in Actions /\ {j \in Jobs : CohortOf[j] = h} \in SUBSET Jobs
    BY DEF Actions
  <2> QED BY <1>1, <2>1, TargetStep
<1>2. ASSUME NEW c \in Targets, NEW j \in Jobs, NEW action \in {"resume", "start_now"},
             Target(c, action, {j})
      PROVE  RoundInv'
  <2>1. action \in Actions /\ {j} \in SUBSET Jobs
    BY DEF Actions
  <2> QED BY <1>2, <2>1, TargetStep
<1>3. ASSUME NEW j \in Jobs, NEW action \in {"pause", "remove", "resume", "start_now"},
             JobControl(j, action)
      PROVE  RoundInv'
  BY <1>3, JobStep
<1>4. ASSUME NEW j \in Jobs, Admit(j) \/ Stop(j) \/ Complete(j)
      PROVE  RoundInv'
  BY <1>4, JobStep
<1>5. ASSUME NEW r \in Starts, AcceptStart(r, Jobs) \/ \E j \in Jobs : AcceptStart(r, {j})
      PROVE  RoundInv'
  BY <1>5, AcceptStep
<1>6. ASSUME NEW r \in Starts, PollStart(r)
      PROVE  RoundInv'
  BY <1>6, ApplyChildStep, MarkStep, SettleStep, BlockStep DEF PollStart
<1>7. CASE ColdStart
  BY <1>7, ColdStep
<1> QED BY <1>1, <1>2, <1>3, <1>4, <1>5, <1>6, <1>7 DEF RoundNext

\* In every reachable state the heads, rounds and starts agree with the jobs, and the
\* outbox holds exactly the events the rows call for.
THEOREM RoundInvariant == RoundSpec => []RoundInv
<1>1. RoundInit => RoundInv
  BY InitInv
<1>2. RoundInv /\ [RoundNext]_roundVars => RoundInv'
  BY NextInv, StutterInv
<1> QED BY <1>1, <1>2, PTL DEF RoundSpec

-----------------------------------------------------------------------------
(* What the runs check.                                                    *)

LEMMA InvReadable ==
  ASSUME RoundInv
  PROVE  RoundsAreReadable
<1>1. ASSUME NEW r \in Starts, control[r].status # "none"
      PROVE  ReadableStart(r)
  <2>1. control[r] \in ControlRow
    BY DEF RoundInv, RowsOK
  <2>2. control[r].status \in {"pending", "applied", "blocked"}
    BY <1>1, <2>1 DEF ControlRow
  <2>3. ASSUME NEW i \in DOMAIN control[r].cohorts
        PROVE  /\ commands[<<r, i>>].new \cup commands[<<r, i>>].existing
                    \subseteq DOMAIN control[r].cohorts[i].members
    <3>1. i \in 1..NJobs
      BY CohortIsRow DEF RoundInv
    <3>2. CASE commands[<<r, i>>] = NoCommand
      BY <3>2 DEF NoCommand
    <3>3. CASE commands[<<r, i>>] # NoCommand
      BY <3>1, <3>3 DEF RoundInv, ChildrenOK
    <3> QED BY <3>2, <3>3
  <2> QED BY <2>2, <2>3 DEF RoundInv, StartsOK, ReadableStart
<1>2. applying # None => control[applying[1]].status = "pending"
  <2>1. SUFFICES ASSUME applying # None PROVE control[applying[1]].status = "pending"
    OBVIOUS
  <2>2. PICK r \in Starts : control[r].status = "pending"
                             /\ (applying = <<r, "mark">> \/ applying = <<r, "settle">>)
    BY <2>1 DEF RoundInv, ApplyingOK
  <2>3. applying[1] = r
    BY <2>2
  <2> QED BY <2>2, <2>3
<1>3. /\ epoch \in 1..MaxEpoch /\ job \in [Jobs -> JobRow]
      /\ head \in [Jobs -> HeadRow \cup {None}] /\ commands \in [CommandIds -> CommandRow]
      /\ rounds \in [Batches -> Seq(RoundRow)] /\ DOMAIN rounds = Batches
  BY DEF RoundInv, RowsOK
<1>4. \A j \in Jobs : job[j].revision <= MaxRevision + 1
  BY DEF RoundInv, RevisionsOK
<1>5. RoundTypeOK
  <2>1. \A h \in DOMAIN rounds : rounds[h] \in Seq(RoundRow)
    BY <1>3
  <2> QED BY <1>1, <1>2, <1>3, <1>4, <2>1 DEF RoundTypeOK
<1>6. RoundClosesWithItsMembers
  <2>1. \A h \in Batches : DOMAIN rounds[h] = 1..Len(rounds[h])
    BY <1>3
  <2> QED BY <1>3, <2>1 DEF RoundInv, RoundsOK, RoundClosesWithItsMembers, Over
<1> QED BY <1>5, <1>6 DEF RoundInv, RoundsAreReadable

\* Every row can be read: the heads are fenced by the jobs' own rows, the starts have the
\* commands of their applied cohorts, and a round is closed when its last member is over.
THEOREM RoundsReadable == RoundSpec => []RoundsAreReadable
<1>1. RoundInv => RoundsAreReadable
  BY InvReadable
<1> QED BY <1>1, RoundInvariant, PTL

\* Where an event comes from: a job without a head, a closed round no captured start owns,
\* or a cohort of a closed start.
FromJob(e, j) ==
  j \in Jobs /\ head[j] = None /\ e.key = <<"job", j>> /\ e.jobs = {j}
FromRound(e, h, n) ==
  /\ h \in Batches /\ n \in 1..Len(rounds[h]) /\ rounds[h][n].owner \notin Children
  /\ e.key = <<"round", h, n>>
  /\ e.jobs = {k \in Members(rounds[h][n].owner, h) : job[k].state = "completed"}
FromStart(e, c) ==
  /\ c \in Children /\ control[c[1]].closed /\ c[1] \in Starts
  /\ e.key = <<"captured", c>>
  /\ e.jobs = {k \in commands[c].new : job[k].state = "completed"}

LEMMA EventSource ==
  ASSUME RoundInv, NEW e \in outbox
  PROVE  /\ \/ \E j \in Jobs : FromJob(e, j)
            \/ \E h \in Batches : \E n \in 1..Len(rounds[h]) : FromRound(e, h, n)
            \/ \E c \in Children : FromStart(e, c)
         /\ e = [key |-> e.key, jobs |-> e.jobs]
         /\ \A j \in e.jobs : job[j].state = "completed"
<1>1. CASE e \in JobEvents
  <2>1. PICK j \in Jobs : e \in Standalone(j, job)
    BY <1>1 DEF JobEvents
  <2>2. head[j] = None /\ e \in Announce(<<"job", j>>, {j}, job)
    BY <2>1 DEF Standalone
  <2>3. /\ \E k \in {j} : job[k].state = "completed"
        /\ e = [key |-> <<"job", j>>, jobs |-> {k \in {j} : job[k].state = "completed"}]
    BY <2>2, AnnounceEvent
  <2>4. {k \in {j} : job[k].state = "completed"} = {j}
    BY <2>3
  <2>5. FromJob(e, j) /\ e = [key |-> e.key, jobs |-> e.jobs] /\ job[j].state = "completed"
    BY <2>2, <2>3, <2>4 DEF FromJob
  <2> QED BY <2>5 DEF FromJob
<1>2. CASE e \in RoundEvents
  <2>1. PICK h \in Batches : e \in UNION {RoundEvent(h, n) : n \in 1..Len(rounds[h])}
    BY <1>2 DEF RoundEvents
  <2>2. PICK n \in 1..Len(rounds[h]) : e \in RoundEvent(h, n)
    BY <2>1
  <2> DEFINE members == Members(rounds[h][n].owner, h)
  <2>3. /\ rounds[h][n].owner \notin Children
        /\ e \in Announce(<<"round", h, n>>, members, job)
    BY <2>2 DEF RoundEvent
  <2> HIDE DEF members
  <2>4. e = [key |-> <<"round", h, n>>, jobs |-> {k \in members : job[k].state = "completed"}]
    BY <2>3, AnnounceEvent
  <2>5. FromRound(e, h, n) /\ e = [key |-> e.key, jobs |-> e.jobs]
    BY <2>3, <2>4 DEF FromRound, members
  <2>6. \A j \in e.jobs : job[j].state = "completed"
    BY <2>4
  <2> QED BY <2>5, <2>6
<1>3. CASE e \in StartEvents
  <2>1. PICK r \in Starts : e \in StartEvent(r)
    BY <1>3 DEF StartEvents
  <2>2. control[r].closed /\ e \in CapturedEvents(r, job)
    BY <2>1 DEF StartEvent
  <2>3. PICK c \in Cohorts(r) : e \in Announce(<<"captured", c>>, commands[c].new, job)
    BY <2>2 DEF CapturedEvents
  <2>4. c \in Children /\ c[1] = r
    BY CohortCommand DEF RoundInv
  <2>5. e = [key |-> <<"captured", c>>, jobs |-> {k \in commands[c].new : job[k].state = "completed"}]
    BY <2>3, AnnounceEvent
  <2>6. FromStart(e, c) /\ e = [key |-> e.key, jobs |-> e.jobs]
    BY <2>2, <2>4, <2>5 DEF FromStart
  <2>7. \A j \in e.jobs : job[j].state = "completed"
    BY <2>5
  <2> QED BY <2>4, <2>6, <2>7
<1> QED BY <1>1, <1>2, <1>3 DEF RoundInv, OutboxOK

\* A job an event announces names, by its head, where the event comes from.
LEMMA SourceOfJob ==
  ASSUME RoundInv, NEW e, NEW j \in e.jobs
  PROVE  /\ \A k \in Jobs : FromJob(e, k) => k = j /\ head[j] = None
         /\ \A h \in Batches : \A n \in 1..Len(rounds[h]) : FromRound(e, h, n) =>
              head[j] # None /\ head[j].owner \notin Children
                /\ h = CohortOf[j] /\ rounds[h][n].owner = head[j].owner
         /\ \A c \in Children : FromStart(e, c) => head[j] # None /\ head[j].owner = c
<1>1. \A k \in Jobs : FromJob(e, k) => k = j /\ head[j] = None
  BY DEF FromJob
<1>2. ASSUME NEW h \in Batches, NEW n \in 1..Len(rounds[h]), FromRound(e, h, n)
      PROVE  head[j] # None /\ head[j].owner \notin Children
               /\ h = CohortOf[j] /\ rounds[h][n].owner = head[j].owner
  <2>1. j \in Members(rounds[h][n].owner, h) /\ rounds[h][n].owner \notin Children
    BY <1>2 DEF FromRound
  <2>2. rounds[h][n].owner \in CommandIds
    BY RoundIsRow DEF RoundInv
  <2> QED BY <2>1, <2>2, MembersOwned DEF RoundInv
<1>3. ASSUME NEW c \in Children, FromStart(e, c)
      PROVE  head[j] # None /\ head[j].owner = c
  <2>1. j \in commands[c].new /\ c \in CommandIds
    BY <1>3 DEF FromStart, CommandIds
  <2> QED BY <2>1 DEF RoundInv, NewOwns
<1> QED BY <1>1, <1>2, <1>3

\* Events of the same source are the same event.
LEMMA OneEventPerSource ==
  ASSUME RoundInv, NEW e \in outbox, NEW f \in outbox,
         \/ \E j \in Jobs : FromJob(e, j) /\ FromJob(f, j)
         \/ \E h \in Batches : \E n \in 1..Len(rounds[h]) : FromRound(e, h, n) /\ FromRound(f, h, n)
         \/ \E c \in Children : FromStart(e, c) /\ FromStart(f, c)
  PROVE  e = f
<1>1. e = [key |-> e.key, jobs |-> e.jobs] /\ f = [key |-> f.key, jobs |-> f.jobs]
  BY EventSource
<1>2. e.key = f.key /\ e.jobs = f.jobs
  BY DEF FromJob, FromRound, FromStart
<1> QED BY <1>1, <1>2

\* Two events that share a job have the same source.
LEMMA EventsShareNothing ==
  ASSUME RoundInv, NEW e \in outbox, NEW f \in outbox, NEW j \in e.jobs \cap f.jobs
  PROVE  e = f
<1>1. j \in e.jobs /\ j \in f.jobs
  OBVIOUS
<1>2. CASE \E k \in Jobs : FromJob(e, k)
  <2>1. FromJob(e, j) /\ j \in Jobs /\ head[j] = None
    BY <1>1, <1>2, SourceOfJob
  <2>2. PICK k \in Jobs : FromJob(f, k)
    BY <2>1, <1>1, EventSource, SourceOfJob
  <2>3. k = j
    BY <2>2, <1>1, SourceOfJob
  <2> QED BY <2>1, <2>2, <2>3, OneEventPerSource
<1>3. CASE \E h \in Batches : \E n \in 1..Len(rounds[h]) : FromRound(e, h, n)
  <2>1. PICK h \in Batches : \E n \in 1..Len(rounds[h]) : FromRound(e, h, n)
    BY <1>3
  <2>2. PICK n \in 1..Len(rounds[h]) : FromRound(e, h, n)
    BY <2>1
  <2>3. head[j] # None /\ head[j].owner \notin Children /\ h = CohortOf[j]
        /\ rounds[h][n].owner = head[j].owner
    BY <2>2, <1>1, SourceOfJob
  <2>4. PICK g \in Batches : \E m \in 1..Len(rounds[g]) : FromRound(f, g, m)
    BY <2>3, <1>1, EventSource, SourceOfJob
  <2>5. PICK m \in 1..Len(rounds[g]) : FromRound(f, g, m)
    BY <2>4
  <2>6. g = CohortOf[j] /\ rounds[g][m].owner = head[j].owner
    BY <2>5, <1>1, SourceOfJob
  <2>7. g = h /\ m = n
    BY <2>3, <2>6 DEF RoundInv, RoundsOK
  <2> QED BY <2>2, <2>5, <2>7, OneEventPerSource
<1>4. CASE \E c \in Children : FromStart(e, c)
  <2>1. PICK c \in Children : FromStart(e, c)
    BY <1>4
  <2>2. head[j] # None /\ head[j].owner = c
    BY <2>1, <1>1, SourceOfJob
  <2>3. PICK d \in Children : FromStart(f, d)
    BY <2>2, <1>1, EventSource, SourceOfJob
  <2>4. d = c
    BY <2>2, <2>3, <1>1, SourceOfJob
  <2> QED BY <2>1, <2>3, <2>4, OneEventPerSource
<1> QED BY <1>2, <1>3, <1>4, EventSource

\* Two events with the same key have the same source.
LEMMA EventKeys ==
  ASSUME RoundInv, NEW e \in outbox, NEW f \in outbox, e.key = f.key
  PROVE  e = f
<1>1. \A k \in Jobs : FromJob(e, k) => FromJob(f, k)
  <2> SUFFICES ASSUME NEW k \in Jobs, FromJob(e, k) PROVE FromJob(f, k)
    OBVIOUS
  <2>1. f.key = <<"job", k>> /\ f.key[1] = "job"
    BY DEF FromJob
  <2>2. PICK l \in Jobs : FromJob(f, l)
    <3>1. \A h \in Batches : \A n \in 1..Len(rounds[h]) : ~FromRound(f, h, n)
      BY <2>1 DEF FromRound
    <3>2. \A c \in Children : ~FromStart(f, c)
      BY <2>1 DEF FromStart
    <3> QED BY <3>1, <3>2, EventSource
  <2>3. l = k
    BY <2>1, <2>2 DEF FromJob
  <2> QED BY <2>2, <2>3
<1>2. \A h \in Batches : \A n \in 1..Len(rounds[h]) : FromRound(e, h, n) => FromRound(f, h, n)
  <2> SUFFICES ASSUME NEW h \in Batches, NEW n \in 1..Len(rounds[h]), FromRound(e, h, n)
               PROVE  FromRound(f, h, n)
    OBVIOUS
  <2>1. f.key = <<"round", h, n>> /\ f.key[1] = "round"
    BY DEF FromRound
  <2>2. PICK g \in Batches : \E m \in 1..Len(rounds[g]) : FromRound(f, g, m)
    <3>1. \A k \in Jobs : ~FromJob(f, k)
      BY <2>1 DEF FromJob
    <3>2. \A c \in Children : ~FromStart(f, c)
      BY <2>1 DEF FromStart
    <3> QED BY <3>1, <3>2, EventSource
  <2>3. PICK m \in 1..Len(rounds[g]) : FromRound(f, g, m)
    BY <2>2
  <2>4. g = h /\ m = n
    BY <2>1, <2>3 DEF FromRound
  <2> QED BY <2>3, <2>4
<1>3. \A c \in Children : FromStart(e, c) => FromStart(f, c)
  <2> SUFFICES ASSUME NEW c \in Children, FromStart(e, c) PROVE FromStart(f, c)
    OBVIOUS
  <2>1. f.key = <<"captured", c>> /\ f.key[1] = "captured"
    BY DEF FromStart
  <2>2. PICK d \in Children : FromStart(f, d)
    <3>1. \A k \in Jobs : ~FromJob(f, k)
      BY <2>1 DEF FromJob
    <3>2. \A h \in Batches : \A n \in 1..Len(rounds[h]) : ~FromRound(f, h, n)
      BY <2>1 DEF FromRound
    <3> QED BY <3>1, <3>2, EventSource
  <2>3. d = c
    BY <2>1, <2>2 DEF FromStart
  <2> QED BY <2>2, <2>3
<1> QED BY <1>1, <1>2, <1>3, EventSource, OneEventPerSource

LEMMA InvAtMostOnce ==
  ASSUME RoundInv
  PROVE  AnnouncedAtMostOnce
<1>1. \A e \in outbox : \A j \in e.jobs : job[j].state = "completed"
  BY EventSource
<1>2. ASSUME NEW e \in outbox, NEW f \in outbox, e # f
      PROVE  e.jobs \cap f.jobs = {} /\ e.key # f.key
  BY <1>2, EventsShareNothing, EventKeys
<1>3. ASSUME NEW e \in outbox, e.key[1] = "captured"
      PROVE  \A c \in Cohorts(e.key[2][1]) : \A j \in commands[c].new : job[j].state \in Terminal
  <2>1. \A k \in Jobs : ~FromJob(e, k)
    BY <1>3 DEF FromJob
  <2>2. \A h \in Batches : \A n \in 1..Len(rounds[h]) : ~FromRound(e, h, n)
    BY <1>3 DEF FromRound
  <2>3. PICK c \in Children : FromStart(e, c)
    BY <2>1, <2>2, EventSource
  <2>4. e.key[2][1] = c[1] /\ c[1] \in Starts /\ control[c[1]].closed
    BY <2>3 DEF FromStart
  <2> QED BY <2>4 DEF RoundInv, ClosedOK, Over
<1> QED BY <1>1, <1>2, <1>3 DEF AnnouncedAtMostOnce

LEMMA InvAnnounced ==
  ASSUME RoundInv
  PROVE  CompletionIsAnnouncedUnlessCut
<1> SUFFICES ASSUME NEW j \in Jobs, job[j].state = "completed", ~Announced(j)
             PROVE  /\ head[j] # None
                    /\ \/ \E m \in Group(j) : job[m].state \notin Terminal
                       \/ head[j].owner \in Children /\ control[head[j].owner[1]].status # "applied"
  BY DEF CompletionIsAnnouncedUnlessCut
<1>1. \A key, members : members \in SUBSET Jobs /\ j \in members /\ Announce(key, members, job) \subseteq outbox => FALSE
  <2> SUFFICES ASSUME NEW key, NEW members \in SUBSET Jobs, j \in members,
                      Announce(key, members, job) \subseteq outbox
               PROVE  FALSE
    OBVIOUS
  <2> DEFINE done == {k \in members : job[k].state = "completed"}
  <2>1. [key |-> key, jobs |-> done] \in Announce(key, members, job)
    BY AnnounceEvent
  <2>2. j \in done
    OBVIOUS
  <2> HIDE DEF done
  <2>3. [key |-> key, jobs |-> done] \in outbox /\ j \in [key |-> key, jobs |-> done].jobs
    BY <2>1, <2>2
  <2> QED BY <2>3 DEF Announced
<1>2. outbox = JobEvents \cup RoundEvents \cup StartEvents
  BY DEF RoundInv, OutboxOK
<1>3. head[j] # None
  <2> SUFFICES ASSUME head[j] = None PROVE FALSE
    OBVIOUS
  <2>1. Standalone(j, job) = Announce(<<"job", j>>, {j}, job) /\ Standalone(j, job) \subseteq JobEvents
    BY DEF Standalone, JobEvents
  <2> QED BY <2>1, <1>1, <1>2
<1>4. ASSUME head[j].owner \notin Children, \A m \in Group(j) : job[m].state \in Terminal
      PROVE  FALSE
  <2> DEFINE h == CohortOf[j]
             n == head[j].round
             members == Members(head[j].owner, h)
  <2>1. /\ h \in Batches /\ n \in 1..Len(rounds[h]) /\ rounds[h][n].owner = head[j].owner
        /\ j \in members /\ head[j].owner \in CommandIds
    BY <1>3, ManagedHead DEF RoundInv
  <2>2. Group(j) = members
    BY <1>4 DEF Group
  <2>3. rounds[h][n].status = "terminal"
    BY <1>4, <2>1, <2>2 DEF RoundInv, RoundsOK, Over
  <2>4. members \in SUBSET Jobs
    BY <2>1, MembersOwned DEF RoundInv
  <2>5. RoundEvent(h, n) = Announce(<<"round", h, n>>, members, job)
    BY <1>4, <2>1, <2>3 DEF RoundEvent
  <2> HIDE DEF h, n, members
  <2>6. RoundEvent(h, n) \subseteq RoundEvents
    BY <2>1 DEF RoundEvents
  <2> QED BY <2>1, <2>4, <2>5, <2>6, <1>1, <1>2
<1>5. ASSUME head[j].owner \in Children, control[head[j].owner[1]].status = "applied",
             \A m \in Group(j) : job[m].state \in Terminal
      PROVE  FALSE
  <2> DEFINE c == head[j].owner
             r == c[1]
  <2>1. r \in Starts /\ c \in Cohorts(r) /\ j \in commands[c].new
    BY <1>3, <1>5, OwnStart
  <2>2. Group(j) = UNION {commands[d].new : d \in Cohorts(r)}
    BY <1>5 DEF Group
  <2>3. control[r].closed
    <3>1. \A d \in Cohorts(r) : \A m \in commands[d].new : Over(m)
      BY <1>5, <2>2 DEF Over
    <3> QED BY <1>5, <2>1, <3>1 DEF RoundInv, ClosedOK
  <2> HIDE DEF c
  <2>4. Announce(<<"captured", c>>, commands[c].new, job) \subseteq CapturedEvents(r, job)
    BY <2>1 DEF CapturedEvents
  <2>5. CapturedEvents(r, job) \subseteq StartEvents
    BY <2>1, <2>3 DEF StartEvents, StartEvent
  <2>6. commands[c].new \in SUBSET Jobs
    BY <2>1, CohortCommand DEF RoundInv
  <2> QED BY <2>1, <2>4, <2>5, <2>6, <1>1, <1>2
<1> QED BY <1>3, <1>4, <1>5

\* A completed download is announced once its group is over, and never twice, whichever
\* of the last member and the last cohort comes last; a start that was cut off owes nothing.
THEOREM AnnouncedOnce == RoundSpec => []AnnouncedExactlyOnce
<1>1. RoundInv => AnnouncedExactlyOnce
  BY InvAtMostOnce, InvAnnounced DEF AnnouncedExactlyOnce
<1> QED BY <1>1, RoundInvariant, PTL

\* A command gives authority only at the revision a member was selected with.
LEMMA AuthorizeSelected ==
  ASSUME RoundInv, NEW c \in CommandIds, NEW action \in Actions,
         NEW expected, DOMAIN expected \subseteq Jobs, Authorize(c, action, expected),
         NEW j \in commands'[c].new \cup commands'[c].existing
  PROVE  j \in DOMAIN expected /\ expected[j] = job[j].revision
<1> DEFINE kept == {k \in DOMAIN expected : Outcome(k, action, expected[k]) = "existing_authority"}
           new  == {k \in DOMAIN expected : Outcome(k, action, expected[k]) = "new_authority"}
<1>1. commands' = [commands EXCEPT ![c] = [epoch |-> epoch, new |-> new, existing |-> kept]]
  BY DEF Authorize
<1>2. \A k \in new \cup kept : k \in DOMAIN expected /\ expected[k] = job[k].revision
  BY DEF Outcome
<1> HIDE DEF new, kept
<1>3. commands'[c].new = new /\ commands'[c].existing = kept
  BY <1>1 DEF RoundInv, RowsOK
<1> QED BY <1>2, <1>3

\* Only a cohort's child command gives authority in the name of a captured start.
LEMMA StartYieldsStep ==
  ASSUME RoundInv, [RoundNext]_roundVars, NEW c \in Children,
         commands'[c].epoch # commands[c].epoch
  PROVE  (commands'[c].new \cup commands'[c].existing) \cap touched[c[1]] = {}
<1>1. commands' # commands
  OBVIOUS
<1>2. CASE \E d \in Targets, action \in Actions, selected \in SUBSET Jobs : Target(d, action, selected)
  <2>1. PICK d \in Targets, action \in Actions, selected \in SUBSET Jobs : Target(d, action, selected)
    BY <1>2
  <2> DEFINE expected == [j \in selected |-> job[j].revision]
  <2>2. /\ Authorize(d, action, expected) /\ d \in CommandIds /\ DOMAIN expected \subseteq Jobs
        /\ \A j \in DOMAIN expected : job[j].revision < MaxRevision
    BY <2>1 DEF Target, CommandIds
  <2> HIDE DEF expected
  <2>3. c # d /\ c \in CommandIds
    BY RoundMarkers DEF CommandIds
  <2>4. \A b \in CommandIds : b # d => commands'[b] = commands[b]
    BY <2>2, AuthorizeLeaves
  <2> QED BY <2>3, <2>4
<1>3. CASE \E r \in Starts : ApplyChild(r)
  <2>1. PICK r \in Starts : ApplyChild(r)
    BY <1>3
  <2> DEFINE d == <<r, First(r)>>
             expected == control[r].cohorts[First(r)].members
  <2>2. Authorize(d, "start", expected) /\ Pending(r) # {}
    BY <2>1 DEF ApplyChild
  <2>3. First(r) \in DOMAIN control[r].cohorts /\ First(r) \in 1..NJobs
    BY <2>2, FirstPending
  <2>4. d \in CommandIds /\ DOMAIN expected \subseteq Jobs /\ "start" \in Actions /\ d[1] = r
    BY <2>3, CohortIsRow DEF CommandIds, Children, Actions, RoundInv
  <2>5. \A j \in DOMAIN expected : j \in touched[r] => expected[j] < job[j].revision
    BY <2>3 DEF RoundInv, CapturedOK
  <2>6. \A j \in DOMAIN expected : job[j].revision \in Nat
    BY <2>4 DEF RoundInv, RowsOK, JobRow
  <2> HIDE DEF d, expected
  <2>7. c = d
    <3>1. \A b \in CommandIds : b # d => commands'[b] = commands[b]
      BY <2>2, <2>4, AuthorizeLeaves
    <3>2. c \in CommandIds
      BY DEF CommandIds
    <3> QED BY <3>1, <3>2
  <2>8. ASSUME NEW j \in commands'[d].new \cup commands'[d].existing
        PROVE  j \notin touched[r]
    <3>1. j \in DOMAIN expected /\ expected[j] = job[j].revision
      BY <2>2, <2>4, AuthorizeSelected
    <3>2. ~(expected[j] < job[j].revision)
      BY <2>6, <3>1
    <3> QED BY <2>5, <3>1, <3>2
  <2>9. c[1] = r
    BY <2>4, <2>7
  <2> QED BY ONLY <2>7, <2>8, <2>9
<1>4. CASE ~(\E r \in Starts : ApplyChild(r))
           /\ ~(\E d \in Targets, action \in Actions, selected \in SUBSET Jobs : Target(d, action, selected))
  <2>1. \A d \in Targets, action \in Actions, selected \in SUBSET Jobs : ~Target(d, action, selected)
    BY <1>4
  <2>2. "start" \in Actions /\ \A action \in {"resume", "start_now"} : action \in Actions
    BY DEF Actions
  <2>3. \A d \in Targets, h \in DOMAIN rounds : ~Target(d, "start", {j \in Jobs : CohortOf[j] = h})
    BY <2>1, <2>2
  <2>4. \A d \in Targets, j \in Jobs, action \in {"resume", "start_now"} : ~Target(d, action, {j})
    BY <2>1, <2>2
  <2>5. RoundNext => commands' = commands
    <3>1. ASSUME NEW j \in Jobs, NEW action \in {"pause", "remove", "resume", "start_now"},
                 JobControl(j, action)
          PROVE  commands' = commands
      BY <3>1 DEF JobControl
    <3>2. ASSUME NEW j \in Jobs, Admit(j) \/ Stop(j) \/ Complete(j)
          PROVE  commands' = commands
      BY <3>2 DEF Admit, Stop, Complete
    <3>3. ASSUME NEW r \in Starts, AcceptStart(r, Jobs) \/ \E j \in Jobs : AcceptStart(r, {j})
          PROVE  commands' = commands
      BY <3>3 DEF AcceptStart
    <3>4. ASSUME NEW r \in Starts, MarkCohort(r) \/ SettleStart(r) \/ BlockStart(r)
          PROVE  commands' = commands
      BY <3>4 DEF MarkCohort, SettleStart, BlockStart
    <3>5. ColdStart => commands' = commands
      BY DEF ColdStart
    <3> QED BY <1>4, <2>3, <2>4, <3>1, <3>2, <3>3, <3>4, <3>5 DEF RoundNext, PollStart
  <2>6. UNCHANGED roundVars => commands' = commands
    BY DEF roundVars
  <2> QED BY <2>5, <2>6, <1>1
<1> QED BY <1>2, <1>3, <1>4

\* A captured start gives no authority to a job that a control, another command or a
\* restart moved between its acceptance and the cohort that carries the job: whatever
\* moved the job took its revision beyond the captured one.
THEOREM StartYields == RoundSpec => StartYieldsToLaterControl
<1>1. RoundInv /\ [RoundNext]_roundVars =>
        \A c \in Children :
          commands'[c].epoch # commands[c].epoch =>
            (commands'[c].new \cup commands'[c].existing) \cap touched[c[1]] = {}
  BY StartYieldsStep
<1> QED BY <1>1, RoundInvariant, PTL DEF RoundSpec, StartYieldsToLaterControl
=============================================================================
