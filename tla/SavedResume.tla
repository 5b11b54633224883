---------------------------- MODULE SavedResume ----------------------------
(* The saved partial of one batch job and its continuation (store.py, paths.py, worker.py).  *)
(* A stopped body leaves a payload and a control file; an observer reads them and the store  *)
(* seals their facts.  A resume is a consent bound to that checkpoint.  A thread then links  *)
(* the two originals under retained names, unlinks the visible names, clones the payload and *)
(* copies the control, reporting three phases that the owner loop records; the next body     *)
(* runs on the copies.  The job has an expected checksum, so no validator is asked for, and  *)
(* a restart bumps generation and epoch together, so the epoch stands for both.              *)
EXTENDS Naturals, Sequences, FiniteSets

CONSTANTS MaxSerial,     \* bodies of the job
          MaxEpoch,      \* worker starts
          MaxResumes,    \* accepted resumes
          MaxEdits,      \* accepted edits
          MaxHolds,      \* closings of the queue gate
          MaxWrites,     \* writes of the bodies to one inode
          Slots,         \* owners that may run at once (the configured concurrency)
          Faults         \* I/O failures, deadlines, join timeouts and cold starts happen

ASSUME BoundsAssumption ==
    /\ {MaxSerial, MaxEpoch, Slots} \subseteq Nat \ {0}
    /\ {MaxResumes, MaxEdits, MaxHolds, MaxWrites} \subseteq Nat
    /\ Faults \in BOOLEAN

VARIABLES epoch, state, rev, serial,
          wanted,     \* the authorization is current: no control has withdrawn it
          held,       \* the queue gate is closed
          body,       \* the body writes
          host,       \* the owner of the last body and of its stop
          stop,       \* a stopped pair awaits its observer: none, waiting, reading
          stopRev,    \* the revision of the stop
          ckpt,       \* sealed facts, by the serial of the body
          fences,     \* revisions made by cold starts and edits, with the epoch they made
          conts,      \* continuations, in order of consent; the last is the head's activation
          edit,       \* the pending edit: <<>> or its captured epoch and revision
          dir,        \* name -> inode: <<0, role>> the visible names, <<s, role>> retained
          bytes,      \* inode -> number of writes it holds
          thread,     \* per owner, its preparing thread: next step, and whether its check passed
          cancel, mail,
          wedged,     \* owners that failed to join a thread and take no more work
          due,        \* owners the current pass of the loop has still to poll
          control,    \* the owner whose thread a control's handler waits to join, or 0
          count       \* edits accepted and gate closings so far (bounds only)

files == <<dir, bytes>>
task  == <<thread, cancel, mail, wedged>>
loop  == <<due, control>>
job   == <<epoch, state, rev, serial, wanted, body, host>>
saved == <<ckpt, fences, conts>>
vars  == <<job, held, stop, stopRev, saved, edit, files, task, loop, count>>

Owners   == 1..Slots
Roles    == {"payload", "control"}
Inodes   == (1..MaxSerial) \X Roles
Names    == (0..MaxSerial) \X Roles
Nothing  == <<>>
Visible  == [r \in Roles |-> <<0, r>>]
Retained == [s \in 1..MaxSerial |-> [r \in Roles |-> <<s, r>>]]

\* What one look at a name certifies: inode, content and link count.
Fact(name) == [ino |-> dir[name], bytes |-> IF dir[name] = Nothing THEN 0 ELSE bytes[dir[name]]]
Links(ino) == Cardinality({m \in Names : dir[m] = ino})
IsVisible(name, fact, links) ==
    dir[name] # Nothing /\ Fact(name) = fact /\ Links(fact.ino) = links
PairFacts(names) == [r \in Roles |-> Fact(names[r])]
PairIs(names, facts) == \A r \in Roles : IsVisible(names[r], facts[r], 1)

Activation == Len(conts)
Current == conts[Activation]

\* The walk along cold fences and edits from a sealed row to (e, r): no other step intervened.
Reaches(row, e, r, fs) ==
    LET steps == {f \in fs : f.rev \in (row.rev + 1)..r} IN
    /\ {f.rev : f \in steps} = (row.rev + 1)..r
    /\ row.epoch + Cardinality({f \in steps : f.kind = "cold"}) = e

ReadyPair(c) ==
    /\ c.phase \in {"ready", "admitted"}
    /\ PairIs(Visible, c.evidence.candidates)
    /\ PairIs(Retained[c.source], c.evidence.retained)

\* The one continuation of a source that no other was prepared from, if it may be taken over.
Leaves(s) == {i \in DOMAIN conts : /\ conts[i].source = s
                                   /\ \A j \in DOMAIN conts : conts[j].from # i}
Reusable(s) == {i \in Leaves(s) : /\ Cardinality(Leaves(s)) = 1
                                  /\ conts[i].phase = "ready" /\ conts[i].drained
                                  /\ conts[i].epoch < epoch
                                  /\ ReadyPair(conts[i])}

\* at the revision r and with the fences fs the job has when the resume is examined
Eligible(r, fs) ==
    /\ serial > 0 /\ ckpt[serial] # Nothing
    /\ IF \E i \in DOMAIN conts : conts[i].source = serial
         THEN \E i \in Reusable(serial) : Reaches(conts[i], epoch, r, fs)
         ELSE Reaches(ckpt[serial], epoch, r, fs) /\ PairIs(Visible, ckpt[serial].facts)

NoEvidence == [retained |-> Nothing, candidates |-> Nothing]
Continuation(r) ==
    LET prepared == Reusable(serial) IN
    IF prepared = {}
      THEN [source |-> serial, epoch |-> epoch, rev |-> r, phase |-> "intent",
            drained |-> FALSE, from |-> 0, evidence |-> NoEvidence]
      ELSE LET i == CHOOSE i \in prepared : TRUE IN
           [conts[i] EXCEPT !.epoch = epoch, !.rev = r, !.from = i]

\* Handlers run between two passes, one at a time; a join or a dispatch keeps the loop.
LoopFree == control = 0 /\ state # "resolving" /\ due = {}
None   == [n |-> 0, armed |-> FALSE]
Done   == 10
Failed == 11
Alive(o)   == thread[o].n \in 1..9
Ended(o)   == thread[o].n \in {Done, Failed}
LaneFree   == stop # "reading" /\ \A o \in Owners : ~Alive(o)
Hosting(o) == o = host /\ (body \/ stop # "none")
Idle(o)    == thread[o] = None /\ o \notin wedged /\ ~Hosting(o)
Spare(o)   == Idle(o) /\ \A p \in 1..(o - 1) : ~Idle(p)
Preparers  == {o \in Owners : thread[o] # None}

Init ==
    /\ epoch = 1 /\ state = "downloading" /\ rev = 1 /\ serial = 1
    /\ wanted = TRUE /\ held = FALSE /\ body = TRUE /\ host = 1
    /\ stop = "none" /\ stopRev = 0
    /\ ckpt = [s \in 1..MaxSerial |-> Nothing] /\ fences = {} /\ conts = <<>>
    /\ edit = Nothing
    /\ dir = [m \in Names |-> IF m[1] = 0 THEN <<1, m[2]>> ELSE Nothing]
    /\ bytes = [i \in Inodes |-> 0]
    /\ thread = [o \in Owners |-> None] /\ cancel = [o \in Owners |-> FALSE]
    /\ mail = [o \in Owners |-> "none"] /\ wedged = {} /\ due = {} /\ control = 0
    /\ count = [edits |-> 0, holds |-> 0]

-----------------------------------------------------------------------------
(* The body and the sealing of what it leaves.                                             *)

\* aria2 holds the two files it opened; only their inodes change.
BodyWrite(r) ==
    /\ body /\ bytes[dir[Visible[r]]] < MaxWrites
    /\ bytes' = [bytes EXCEPT ![dir[Visible[r]]] = @ + 1]
    /\ UNCHANGED <<job, held, stop, stopRev, saved, edit, dir, task, loop, count>>

\* What follows belongs to publication, and is not followed here.
BodyCompletes ==
    /\ LoopFree /\ body
    /\ body' = FALSE /\ state' = "finished" /\ rev' = rev + 1
    /\ UNCHANGED <<epoch, serial, wanted, host, held, stop, stopRev, saved, edit, files, task,
                   loop, count>>

\* The body is contained and its observer joined before the stop is persisted; the pair is
\* sealed later, if the engine's last answer was good enough to certify it.
StopBody(keep, captured) ==
    /\ body
    /\ body' = FALSE /\ state' = "paused" /\ rev' = rev + 1 /\ wanted' = keep
    /\ IF captured THEN stop' = "waiting" /\ stopRev' = rev + 1
                   ELSE UNCHANGED <<stop, stopRev>>
    /\ UNCHANGED <<epoch, serial, host>>

Polled(o) == o \in due /\ due' = due \ {o}

\* flush_pending_stop: waits while another job's observation holds the lane.
StartSeal ==
    /\ stop = "waiting" /\ LaneFree /\ Polled(host)
    /\ stop' = "reading"
    /\ UNCHANGED <<job, held, stopRev, saved, edit, files, task, control, count>>

Seal(s) == [ckpt EXCEPT ![serial] = s]

\* One observation: a failure, or a job that has moved on, leaves no checkpoint.
FinishSeal(read) ==
    /\ stop = "reading" /\ Polled(host)
    /\ stop' = "none"
    /\ ckpt' = IF read /\ state = "paused" /\ rev = stopRev
                 THEN Seal([epoch |-> epoch, rev |-> rev, facts |-> PairFacts(Visible)])
                 ELSE ckpt
    /\ UNCHANGED <<job, held, stopRev, fences, conts, edit, files, task, control, count>>

-----------------------------------------------------------------------------
(* Consent, preparation and admission.                                                     *)

MayContinue == Len(conts) < MaxResumes /\ serial < MaxSerial   \* bounds

Consent(r) ==
    /\ conts' = Append(conts, Continuation(r))
    /\ state' = "queued" /\ rev' = r /\ wanted' = TRUE

Resume ==
    /\ LoopFree /\ state = "paused" /\ MayContinue
    /\ Eligible(rev, fences)
    /\ Consent(rev + 1)
    /\ UNCHANGED <<epoch, serial, body, host, held, stop, stopRev, ckpt, fences, edit, files,
                   task, loop, count>>

\* The consent still speaks of this job, in this epoch.
Consented ==
    /\ state = "queued" /\ conts # <<>>
    /\ Current.epoch = epoch /\ Current.rev = rev /\ Current.source = serial

\* The first idle owner asks for work, while the observation lane is free.
MayDispatch(o) == LoopFree /\ LaneFree /\ Spare(o) /\ Consented /\ ~held /\ edit = Nothing

StartPreparation(o) ==
    /\ MayDispatch(o) /\ Current.phase = "intent"
    /\ thread' = [thread EXCEPT ![o] = [n |-> 1, armed |-> FALSE]]
    /\ cancel' = [cancel EXCEPT ![o] = FALSE] /\ mail' = [mail EXCEPT ![o] = "none"]
    /\ UNCHANGED <<job, held, stop, stopRev, saved, edit, files, wedged, loop, count>>

Admit(o) ==
    /\ MayDispatch(o)
    /\ Current.phase = "ready" /\ Current.drained /\ ReadyPair(Current)
    /\ state' = "resolving" /\ rev' = rev + 1 /\ serial' = serial + 1 /\ host' = o
    /\ conts' = [conts EXCEPT ![Activation].phase = "admitted"]
    /\ UNCHANGED <<epoch, wanted, body, held, stop, stopRev, ckpt, fences, edit, files, task,
                   loop, count>>

\* saved_body looks at the pair once more before the engine is given it.
StartBody ==
    /\ state = "resolving" /\ ReadyPair(Current)
    /\ state' = "downloading" /\ rev' = rev + 1 /\ body' = TRUE
    /\ UNCHANGED <<epoch, serial, wanted, host, held, stop, stopRev, saved, edit, files, task,
                   loop, count>>

AbortBody ==
    /\ state = "resolving" /\ Faults
    /\ state' = "paused" /\ rev' = rev + 1
    /\ UNCHANGED <<epoch, serial, wanted, body, host, held, stop, stopRev, saved, edit, files, task,
                   loop, count>>

-----------------------------------------------------------------------------
(* The preparing thread, one effect at a time.  A check and its effect are two steps: the   *)
(* owner may cancel between them, and then waits for the thread to end.                     *)

Origin == ckpt[Current.source].facts
Keep == Retained[Current.source]
RoleOf(n) == IF n \in {1, 4, 7} THEN "payload" ELSE "control"
Phases == {3, 6, 9}
PhaseAt == [n \in Phases |-> IF n = 3 THEN "linked" ELSE IF n = 6 THEN "retired" ELSE "ready"]

\* What the step's fence certifies of the files before it acts.
Checked(n) ==
    \/ n = 1 /\ PairIs(Visible, Origin) /\ \A r \in Roles : dir[Keep[r]] = Nothing
    \/ n = 2 /\ IsVisible(Visible["control"], Origin["control"], 1)
    \/ n = 3 /\ \A r \in Roles : IsVisible(Keep[r], Origin[r], 2)
    \/ /\ n \in {4, 5}
       /\ IsVisible(Visible[RoleOf(n)], Origin[RoleOf(n)], 2)
       /\ IsVisible(Keep[RoleOf(n)], Origin[RoleOf(n)], 2)
    \/ n \in {6, 7, 9} /\ PairIs(Keep, Origin)
    \/ n = 8 /\ dir[Visible["payload"]] # Origin["payload"].ino

Link(r) ==
    dir' = [dir EXCEPT ![Keep[r]] = dir[Visible[r]]] /\ UNCHANGED bytes
Unlink(r) ==
    dir' = [dir EXCEPT ![Visible[r]] = Nothing] /\ UNCHANGED bytes
CopyBack(r) ==
    LET copy == <<Current.source + 1, r>> IN
    /\ dir[Visible[r]] = Nothing
    /\ dir' = [dir EXCEPT ![Visible[r]] = copy]
    /\ bytes' = [bytes EXCEPT ![copy] = bytes[dir[Keep[r]]]]

Effect(n) ==
    \/ n \in {1, 2} /\ Link(RoleOf(n))
    \/ n \in {4, 5} /\ Unlink(RoleOf(n))
    \/ n \in {7, 8} /\ CopyBack(RoleOf(n))

Check(o) ==
    /\ Alive(o) /\ ~thread[o].armed /\ ~cancel[o] /\ Checked(thread[o].n)
    /\ thread' = [thread EXCEPT ![o].armed = TRUE]
    /\ mail' = [mail EXCEPT ![o] = IF thread[o].n \in Phases THEN PhaseAt[thread[o].n] ELSE @]
    /\ UNCHANGED <<job, held, stop, stopRev, saved, edit, files, cancel, wedged, loop, count>>

NextStep(o) == [n |-> thread[o].n + 1, armed |-> FALSE]

Act(o) ==
    /\ Alive(o) /\ thread[o].armed /\ thread[o].n \notin Phases
    /\ Effect(thread[o].n)
    /\ thread' = [thread EXCEPT ![o] = NextStep(o)]
    /\ UNCHANGED <<job, held, stop, stopRev, saved, edit, cancel, mail, wedged, loop, count>>

Acknowledged(o) ==
    /\ Alive(o) /\ thread[o].armed /\ thread[o].n \in Phases
    /\ mail[o] = "acked" /\ ~cancel[o]
    /\ thread' = [thread EXCEPT ![o] = NextStep(o)] /\ mail' = [mail EXCEPT ![o] = "none"]
    /\ UNCHANGED <<job, held, stop, stopRev, saved, edit, files, cancel, wedged, loop, count>>

\* A mistake: a failed preparation removes the retained names
GiveUp_Faulty(o) ==
    /\ Alive(o)
    /\ \/ Faults
       \/ cancel[o] /\ (thread[o].armed => thread[o].n \in Phases)
       \/ ~thread[o].armed /\ ~Checked(thread[o].n)
    /\ thread' = [thread EXCEPT ![o] = [n |-> Failed, armed |-> FALSE]]
    /\ dir' = [m \in Names |-> IF m[1] = Current.source THEN Nothing ELSE dir[m]]
    /\ UNCHANGED <<job, held, stop, stopRev, saved, edit, bytes, cancel, mail, wedged, loop,
                   count>>

\* Cancelled, out of time, or refused by a file; a step past its check fails only by itself.
GiveUp(o) ==
    /\ Alive(o)
    /\ \/ Faults
       \/ cancel[o] /\ (thread[o].armed => thread[o].n \in Phases)
       \/ ~thread[o].armed /\ ~Checked(thread[o].n)
    /\ thread' = [thread EXCEPT ![o] = [n |-> Failed, armed |-> FALSE]]
    /\ UNCHANGED <<job, held, stop, stopRev, saved, edit, files, cancel, mail, wedged, loop,
                   count>>

-----------------------------------------------------------------------------
(* The owner loop: phases, the end of the thread, controls, edits and cold start.          *)

Posted(o) == mail[o] \in {"linked", "retired", "ready"}
Before == [linked |-> "intent", retired |-> "linked", ready |-> "retired"]

\* Each pass polls every owner once; one that has nothing to report is passed over.
BeginPass ==
    /\ LoopFree /\ (Preparers # {} \/ stop # "none")
    /\ due' = Owners
    /\ UNCHANGED <<job, held, stop, stopRev, saved, edit, files, task, control, count>>

PassOver(o) ==
    /\ ~Posted(o) /\ ~Ended(o) /\ Polled(o)
    /\ UNCHANGED <<job, held, stop, stopRev, saved, edit, files, task, control, count>>

\* A phase is recorded for a consent that still holds; anything else cancels the thread.
\* A thread that has ended meanwhile is reaped in the same poll.
PollPhase(o) ==
    /\ o \in due /\ Posted(o)
    /\ due' = IF Ended(o) THEN due ELSE due \ {o}
    /\ mail' = [mail EXCEPT ![o] = "acked"]
    /\ IF ~cancel[o] /\ Consented /\ ~held /\ Current.phase = Before[mail[o]]
         THEN /\ conts' = [conts EXCEPT ![Activation].phase = mail[o],
                   ![Activation].evidence =
                       IF mail[o] = "ready" THEN [retained   |-> PairFacts(Keep),
                                                  candidates |-> PairFacts(Visible)]
                                            ELSE @]
              /\ UNCHANGED cancel
         ELSE cancel' = [cancel EXCEPT ![o] = TRUE] /\ UNCHANGED conts
    /\ UNCHANGED <<job, held, stop, stopRev, ckpt, fences, edit, files, thread, wedged, control,
                   count>>

FailPreparation ==
    /\ conts' = [conts EXCEPT ![Activation].phase = IF @ = "admitted" THEN @ ELSE "failed"]
    /\ IF state = "queued" THEN state' = "paused" /\ rev' = rev + 1 /\ wanted' = FALSE
                           ELSE UNCHANGED <<state, rev, wanted>>

Retire(o) == thread' = [thread EXCEPT ![o] = None] /\ mail' = [mail EXCEPT ![o] = "none"]

\* A mistake: the drain of the original observer is not recorded
Reap_Faulty(o) ==
    /\ Ended(o) /\ ~Posted(o) /\ Polled(o)
    /\ Retire(o)
    /\ IF thread[o].n = Done /\ ~cancel[o] /\ Consented /\ ReadyPair(Current)
         THEN /\ conts' = [conts EXCEPT ![Activation].drained = FALSE]
              /\ UNCHANGED <<state, rev, wanted>>
         ELSE FailPreparation
    /\ UNCHANGED <<epoch, serial, body, host, held, stop, stopRev, ckpt, fences, edit, files,
                   cancel, wedged, control, count>>

Reap(o) ==
    /\ Ended(o) /\ ~Posted(o) /\ Polled(o)
    /\ Retire(o)
    /\ IF thread[o].n = Done /\ ~cancel[o] /\ Consented /\ ReadyPair(Current)
         THEN /\ conts' = [conts EXCEPT ![Activation].drained = TRUE]
              /\ UNCHANGED <<state, rev, wanted>>
         ELSE FailPreparation
    /\ UNCHANGED <<epoch, serial, body, host, held, stop, stopRev, ckpt, fences, edit, files,
                   cancel, wedged, control, count>>

\* cancel_saved: revoke, then wait for the JOIN before the control is acknowledged.
Revoke(o) ==
    /\ control' = o /\ cancel' = [cancel EXCEPT ![o] = TRUE]
    /\ UNCHANGED <<job, stop, stopRev>>

\* A control of the job goes to the one owner that is busy with it; two of them refuse it.
Pause(captured) ==
    /\ LoopFree /\ Cardinality(Preparers \cup {o \in Owners : Hosting(o)} \cup wedged) <= 1
    /\ \/ \E o \in Preparers : Revoke(o)
       \/ /\ Preparers = {}
          /\ \/ StopBody(FALSE, captured)
             \/ /\ state = "queued"
                /\ state' = "paused" /\ rev' = rev + 1 /\ wanted' = FALSE
                /\ UNCHANGED <<epoch, serial, body, host, stop, stopRev>>
          /\ UNCHANGED <<cancel, control>>
    /\ UNCHANGED <<held, saved, edit, files, thread, mail, wedged, due, count>>

\* The gate closes first; the preparation is cancelled and the body stopped after that.
CloseGate(captured) ==
    /\ LoopFree /\ ~held /\ count.holds < MaxHolds
    /\ held' = TRUE /\ count' = [count EXCEPT !.holds = @ + 1]
    /\ \/ \E o \in Preparers : (\A p \in Preparers \ {o} : ~Alive(p)) /\ Revoke(o)
       \/ /\ Preparers = {}
          /\ \/ StopBody(TRUE, captured)
             \/ ~body /\ UNCHANGED <<job, stop, stopRev>>
          /\ UNCHANGED <<cancel, control>>
    /\ UNCHANGED <<saved, edit, files, thread, mail, wedged, due>>

OpenGate ==
    /\ LoopFree /\ held /\ stop # "reading"
    /\ held' = FALSE
    /\ UNCHANGED <<job, stop, stopRev, saved, edit, files, task, loop, count>>

\* A mistake: the control is acknowledged without waiting for the JOIN
Joined_Faulty ==
    /\ control # 0
    /\ control' = 0 /\ UNCHANGED <<thread, mail>>
    /\ FailPreparation
    /\ UNCHANGED <<epoch, serial, body, host, held, stop, stopRev, ckpt, fences, edit, files,
                   cancel, wedged, due, count>>

Joined ==
    /\ control # 0 /\ Ended(control)
    /\ Retire(control) /\ control' = 0
    /\ FailPreparation
    /\ UNCHANGED <<epoch, serial, body, host, held, stop, stopRev, ckpt, fences, edit, files,
                   cancel, wedged, due, count>>

\* The thread outlives the join: the control fails and the job is left as it was.
JoinTimeout ==
    /\ control # 0 /\ Alive(control) /\ Faults
    /\ wedged' = wedged \cup {control} /\ control' = 0
    /\ UNCHANGED <<job, held, stop, stopRev, saved, edit, files, thread, cancel, mail, due, count>>

AcceptEdit ==
    /\ LoopFree /\ state # "finished" /\ edit = Nothing /\ count.edits < MaxEdits
    /\ edit' = [epoch |-> epoch, rev |-> rev]
    /\ count' = [count EXCEPT !.edits = @ + 1]
    /\ UNCHANGED <<job, held, stop, stopRev, saved, files, task, loop>>

\* apply_edits: an active body is stopped first, with its authorization kept.
StopForEdit(captured) ==
    /\ LoopFree /\ edit # Nothing /\ Preparers = {}
    /\ StopBody(TRUE, captured)
    /\ UNCHANGED <<held, saved, edit, files, task, loop, count>>

\* A running observation of this job delays the edit; a stop still waiting for its own does not.
EditMayApply == Preparers = {} /\ stop # "reading"

ApplyEdit ==
    /\ LoopFree /\ edit # Nothing /\ state \in {"paused", "queued"} /\ EditMayApply
    /\ edit' = Nothing
    /\ LET fresh == edit.epoch = epoch /\ rev \in {edit.rev, edit.rev + 1}
           after == fences \cup {[kind |-> "edit", rev |-> rev + 1]}
       IN \/ /\ fresh /\ fences' = after
             /\ IF wanted /\ state = "paused" /\ MayContinue /\ Eligible(rev + 1, after)
                  THEN Consent(rev + 2)
                  ELSE rev' = rev + 1 /\ UNCHANGED <<state, wanted, conts>>
          \/ ~fresh /\ UNCHANGED <<state, rev, wanted, fences, conts>>
    /\ UNCHANGED <<epoch, serial, body, host, held, stop, stopRev, ckpt, files, task, loop, count>>

\* The worker dies at any point; the next one pauses the job behind a fence, contains the
\* engine and, for a body it can still certify, seals the pair in its own epoch.
ColdStart(sealed) ==
    /\ Faults /\ epoch < MaxEpoch
    /\ epoch' = epoch + 1 /\ wanted' = FALSE /\ body' = FALSE
    /\ IF state = "finished"
         THEN UNCHANGED <<state, rev, fences>>
         ELSE /\ state' = "paused" /\ rev' = rev + 1
              /\ fences' = fences \cup {[kind |-> "cold", rev |-> rev + 1]}
    /\ ckpt' = IF sealed /\ body
                 THEN Seal([epoch |-> epoch + 1, rev |-> rev + 1, facts |-> PairFacts(Visible)])
                 ELSE ckpt
    /\ stop' = "none" /\ control' = 0 /\ due' = {} /\ wedged' = {}
    /\ thread' = [o \in Owners |-> None] /\ cancel' = [o \in Owners |-> FALSE]
    /\ mail' = [o \in Owners |-> "none"]
    /\ UNCHANGED <<serial, host, held, stopRev, conts, edit, files, count>>

Preparing(o) == Check(o) \/ Act(o) \/ Acknowledged(o) \/ GiveUp(o)
Looping ==
    \/ BeginPass \/ Joined
    \/ \E o \in Owners : PassOver(o) \/ PollPhase(o) \/ Reap(o)
Stopping  == StartSeal \/ \E read \in BOOLEAN : (read \/ Faults) /\ FinishSeal(read)
Dispatching == \E o \in Owners : StartPreparation(o) \/ Admit(o)
Controls  ==
    \/ \E captured \in {TRUE, ~Faults} :
          Pause(captured) \/ CloseGate(captured) \/ StopForEdit(captured)
    \/ OpenGate \/ JoinTimeout \/ AcceptEdit

Next ==
    \/ \E r \in Roles : BodyWrite(r)
    \/ BodyCompletes \/ Stopping
    \/ Resume \/ Dispatching \/ StartBody \/ AbortBody
    \/ \E o \in Owners : Preparing(o)
    \/ Looping \/ Controls \/ ApplyEdit
    \/ \E sealed \in BOOLEAN : ColdStart(sealed)

\* The loop and the threads keep running; between two passes it applies edits and asks for
\* work, and an observation that was started comes back.
Fairness ==
    /\ \A o \in Owners : WF_vars(Preparing(o))
    /\ WF_vars(Looping) /\ WF_vars(StartBody)
    /\ SF_vars(Dispatching) /\ SF_vars(ApplyEdit) /\ SF_vars(Stopping)

Spec == Init /\ [][Next]_vars /\ Fairness

-----------------------------------------------------------------------------
(* Properties.                                                                             *)

Facts == [ino : Inodes, bytes : 0..MaxWrites]
SavedTypeOK ==
    /\ epoch \in 1..MaxEpoch /\ rev \in Nat \ {0} /\ serial \in 1..MaxSerial
    /\ state \in {"downloading", "paused", "queued", "resolving", "finished"}
    /\ {wanted, held, body} \subseteq BOOLEAN /\ cancel \in [Owners -> BOOLEAN]
    /\ stop \in {"none", "waiting", "reading"}
    /\ \A s \in 1..MaxSerial : ckpt[s] = Nothing \/ ckpt[s].facts \in [Roles -> Facts]
    /\ Len(conts) <= MaxResumes
    /\ \A i \in DOMAIN conts :
          conts[i].phase \in {"intent", "linked", "retired", "ready", "admitted", "failed"}
    /\ dir \in [Names -> Inodes \cup {Nothing}] /\ bytes \in [Inodes -> 0..MaxWrites]
    /\ \A o \in Owners : /\ thread[o].n \in 0..Failed
                         /\ mail[o] \in {"none", "acked", "linked", "retired", "ready"}
    /\ control \in Owners \cup {0} /\ host \in Owners /\ wedged \cup due \subseteq Owners

\* Whatever is cancelled, fails, times out or crashes while a pair is retained and copied, the
\* two sealed files of every checkpoint remain under some name with the bytes that were sealed.
OriginalsSurvive ==
    \A s \in 1..MaxSerial : ckpt[s] # Nothing =>
        \A r \in Roles : /\ Links(ckpt[s].facts[r].ino) > 0
                         /\ bytes[ckpt[s].facts[r].ino] = ckpt[s].facts[r].bytes

\* A later body starts from exactly the bytes its source was stopped with, on files that no
\* retained name shares.
StartsFromSealedBytes ==
    state = "resolving" /\ serial > 1 =>
        \A r \in Roles : /\ dir[Visible[r]] # Nothing
                         /\ bytes[dir[Visible[r]]] = ckpt[serial - 1].facts[r].bytes
                         /\ Links(dir[Visible[r]]) = 1

\* A prepared pair that was joined and never given to a body stays as it was certified, so the
\* consent of a later epoch may take it over.
PreparedPairKept ==
    \A i \in DOMAIN conts :
        conts[i].phase = "ready" /\ conts[i].drained /\ i \in Leaves(conts[i].source)
            => ReadyPair(conts[i])

\* From the stop of one body to the start of the next the sealed bytes are never lost,
\* never replaced and never shared, whatever happens between any two file operations.
SealedBytesSurvive ==
    SavedTypeOK /\ OriginalsSurvive /\ PreparedPairKept /\ StartsFromSealedBytes

\* The preparing thread changes a directory only for a job still queued: once a pause, an edit
\* or a restart has moved the job, no late link, unlink or copy follows.
QuietAfterControl == [][dir' # dir => state = "queued"]_vars

\* worker.py:691: the result of a stop checkpoint is drained before another control can act on
\* the job it stopped.
StopDrainedFirst == [][stop # "none" /\ stop' # "none" => rev' = rev]_vars

\* store.py:4644: one exact operation is selected and committed, so no two owners ever prepare
\* the same pair.
OnePreparation == Cardinality(Preparers) <= 1

\* A consent that neither the gate nor another control holds back is settled: the job is
\* dispatched, or the preparation has failed and the job is paused.
ConsentIsSettled == Consented /\ ~held ~> ~Consented \/ held

\* A stopped pair does not keep its owner: its observation ends, with or without a checkpoint.
StopIsSettled == stop # "none" ~> stop = "none"

\* Neither half of a saved continuation is left hanging: the stop that makes it and the
\* consent that uses it are both settled.
SavedWorkSettles == ConsentIsSettled /\ StopIsSettled
=============================================================================
