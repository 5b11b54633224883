-------------------------- MODULE SavedResumeProofs --------------------------
(***************************************************************************)
(* Proofs about SavedResume, for any number of bodies, epochs, resumes,    *)
(* edits and owners.                                                       *)
(*                                                                         *)
(* The files of the generation that serial names are in one of few states: *)
(* until a continuation is consented to, the visible names hold the body's *)
(* own inodes and nothing is retained; from then on each of them stays     *)
(* under a visible or a retained name, a copy appears only when both are   *)
(* retained, and a prepared pair can be disturbed by no step of a thread.  *)
(***************************************************************************)
EXTENDS SavedResume, FiniteSetTheorems, SequenceTheorems, TLAPS

-----------------------------------------------------------------------------
(* The inductive invariant.                                                *)

Phase == {"intent", "linked", "retired", "ready", "admitted", "failed"}
Seen == [ino : Inodes \cup {Nothing}, bytes : 0..MaxWrites]
Evidence == {Nothing} \cup [Roles -> Seen]
Conts ==
  [source : 1..MaxSerial, epoch : Nat, rev : Nat, phase : Phase, drained : BOOLEAN,
   from : Nat, evidence : [retained : Evidence, candidates : Evidence]]
Mails == {"none", "acked", "linked", "retired", "ready"}

JobTyped ==
  /\ epoch \in 1..MaxEpoch /\ rev \in Nat \ {0} /\ serial \in 1..MaxSerial
  /\ state \in {"downloading", "paused", "queued", "resolving", "finished"}
  /\ {wanted, held, body} \subseteq BOOLEAN
  /\ stop \in {"none", "waiting", "reading"}
  /\ host \in Owners /\ DOMAIN ckpt = 1..MaxSerial
FilesTyped == dir \in [Names -> Inodes \cup {Nothing}] /\ bytes \in [Inodes -> 0..MaxWrites]
ContsTyped == conts \in Seq(Conts) /\ Len(conts) <= MaxResumes
ThreadsTyped ==
  /\ thread \in [Owners -> [n : 0..Failed, armed : BOOLEAN]]
  /\ cancel \in [Owners -> BOOLEAN] /\ mail \in [Owners -> Mails]
  /\ control \in Owners \cup {0} /\ wedged \subseteq Owners /\ due \subseteq Owners
Typed == JobTyped /\ FilesTyped /\ ContsTyped /\ ThreadsTyped

\* A continuation of the last body has been consented to.
Open == conts # <<>> /\ Current.source = serial

SealedAs(s) == [r \in Roles |-> [ino |-> <<s, r>>, bytes |-> bytes[<<s, r>>]]]
\* Which bodies are sealed, and that the seals are true.
SealsOK ==
  /\ \A s \in 1..MaxSerial :
       /\ s < serial => ckpt[s] # Nothing
       /\ s > serial => ckpt[s] = Nothing
       /\ ckpt[s] # Nothing => ckpt[s].facts = SealedAs(s)
  /\ stop # "none" \/ body \/ state = "resolving" => ckpt[serial] = Nothing
  /\ body \/ state = "resolving" => stop = "none"
  /\ body => state # "resolving"
  /\ Open => ckpt[serial] # Nothing /\ serial < MaxSerial

\* Continuations follow the bodies; a ready one that is not the last was taken over.
ContsOK ==
  /\ \A i \in DOMAIN conts :
       /\ conts[i].source <= Current.source /\ Current.source <= serial
       /\ conts[i].from < i
       /\ conts[i].phase = "ready" /\ i # Activation
            => \E j \in DOMAIN conts : conts[j].from = i
  /\ conts # <<>> /\ Current.phase = "ready" => Current.source = serial

\* What the names of the last body, r, hold.
Own(r) == <<serial, r>>
Copy(r) == <<serial + 1, r>>
Kept(r) == dir[<<serial, r>>] = Own(r)
Fresh == \A r \in Roles : dir[<<0, r>>] = Own(r) /\ dir[<<serial, r>>] = Nothing
FilesOK ==
  /\ \A s \in 1..MaxSerial, r \in Roles :
       /\ s < serial => dir[<<s, r>>] = <<s, r>>
       /\ s > serial => dir[<<s, r>>] = Nothing
  /\ \A r \in Roles :
       /\ dir[<<0, r>>] \in {Nothing, Own(r), Copy(r)}
       /\ dir[<<serial, r>>] \in {Nothing, Own(r)}
       /\ dir[<<0, r>>] = Own(r) \/ Kept(r)
       /\ dir[<<0, r>>] = Copy(r) => /\ \A q \in Roles : Kept(q)
                                     /\ bytes[Copy(r)] = bytes[Own(r)]
       /\ state = "resolving" /\ serial > 1 => bytes[Own(r)] = bytes[<<serial - 1, r>>]
  /\ ~Open => Fresh

\* A prepared pair: both originals retained, both copies visible.
Prepared == \A r \in Roles : Kept(r) /\ dir[<<0, r>>] = Copy(r)
PairOK == Open /\ Current.phase = "ready" => ReadyPair(Current)

\* The one thread that may run; what it checked is still so when it acts.
ThreadsOK ==
  /\ \A o, p \in Owners : Alive(o) /\ Alive(p) => o = p
  /\ \A o \in Owners :
       /\ Alive(o) => /\ Open
                      /\ thread[o].armed => Checked(thread[o].n)
                      /\ thread[o].n >= 8 => dir[<<0, "payload">>] = Copy("payload")
                      /\ thread[o].n >= 9 => dir[<<0, "control">>] = Copy("control")
       /\ IF thread[o] = None THEN mail[o] = "none" ELSE conts # <<>>

\* A report "ready" of an earlier body is taken by the loop before the next consent.
MailOK ==
  /\ \A o \in Owners : mail[o] = "ready" =>
       /\ Open => Prepared
       /\ ~Open /\ (due # {} \/ stop = "reading" \/ ckpt[serial] # Nothing) => o \in due
  /\ body \/ stop # "none" \/ state = "resolving" => mail[host] # "ready"

SavedInv ==
  Typed /\ SealsOK /\ ContsOK /\ FilesOK /\ PairOK /\ ThreadsOK /\ MailOK

-----------------------------------------------------------------------------
(* Names, links and pairs.                                                 *)

LEMMA Bounds ==
  /\ MaxSerial \in Nat /\ MaxSerial > 0 /\ MaxEpoch \in Nat /\ MaxEpoch > 0
  /\ Slots \in Nat /\ Slots > 0 /\ MaxResumes \in Nat /\ MaxWrites \in Nat
BY BoundsAssumption

LEMMA NamesFinite == IsFiniteSet(Names)
<1>1. IsFiniteSet(0..MaxSerial)
  BY Bounds, FS_Interval
<1>2. IsFiniteSet({"payload", "control"})
  <2>1. IsFiniteSet({}) /\ IsFiniteSet({"payload"})
    BY FS_EmptySet, FS_Singleton
  <2>2. {"payload", "control"} = {"payload"} \cup {"control"}
    OBVIOUS
  <2> QED BY <2>1, <2>2, FS_AddElement
<1> QED BY <1>1, <1>2, FS_Product DEF Names, Roles

\* An inode with one link has one name, and conversely.
LEMMA OneName ==
  ASSUME NEW m \in Names, NEW ino, dir[m] = ino
  PROVE  Links(ino) = 1 <=> \A k \in Names : dir[k] = ino => k = m
<1> DEFINE S == {k \in Names : dir[k] = ino}
<1>1. IsFiniteSet(S)
  BY NamesFinite, FS_Subset
<1>2. Links(ino) = 1 <=> \E x : S = {x}
  <2>1. Links(ino) = Cardinality(S)
    BY DEF Links
  <2> QED BY <1>1, <2>1, FS_Singleton
<1>3. m \in S
  OBVIOUS
<1>4. ASSUME \E x : S = {x} PROVE \A k \in Names : dir[k] = ino => k = m
  BY <1>3, <1>4
<1>5. ASSUME \A k \in Names : dir[k] = ino => k = m PROVE S = {m}
  BY <1>3, <1>5
<1> QED BY <1>2, <1>4, <1>5

\* An inode with a name has a link.
LEMMA SomeName ==
  ASSUME NEW m \in Names, NEW ino, dir[m] = ino
  PROVE  Links(ino) > 0
<1> DEFINE S == {k \in Names : dir[k] = ino}
<1>1. IsFiniteSet(S)
  BY NamesFinite, FS_Subset
<1>2. S # {}
  OBVIOUS
<1>3. Cardinality(S) \in Nat /\ Cardinality(S) # 0
  BY <1>1, <1>2, FS_CardinalityType, FS_EmptySet
<1>4. Links(ino) = Cardinality(S)
  BY DEF Links
<1> QED BY <1>3, <1>4

\* What the names of the present generation are.
LEMMA NameShapes ==
  ASSUME JobTyped
  PROVE  /\ serial \in Nat /\ serial > 0 /\ serial <= MaxSerial
         /\ \A r \in Roles : /\ <<0, r>> \in Names /\ <<serial, r>> \in Names
                             /\ Visible[r] = <<0, r>> /\ Retained[serial][r] = <<serial, r>>
                             /\ <<serial, r>> \in Inodes
                             /\ serial < MaxSerial => <<serial + 1, r>> \in Inodes
                             /\ serial < MaxSerial => <<serial + 1, r>> \in Names
         /\ Nothing \notin Inodes
<1>1. serial \in Nat /\ serial > 0 /\ serial <= MaxSerial
  BY Bounds DEF JobTyped
<1>2. Nothing \notin Inodes
  BY DEF Nothing, Inodes
<1> QED BY <1>1, <1>2, Bounds DEF Names, Inodes, Visible, Retained

\* Which names an inode of generation serial or of its copy can have.
LEMMA OwnNames ==
  ASSUME Typed, FilesOK, NEW r \in Roles, NEW k \in Names
  PROVE  /\ dir[k] = Own(r) => k = <<0, r>> \/ k = <<serial, r>>
         /\ dir[k] = Copy(r) => k = <<0, r>>
<1>1. PICK s \in 0..MaxSerial, q \in Roles : k = <<s, q>>
  BY DEF Names
<1>2. serial \in Nat /\ serial > 0 /\ serial <= MaxSerial
  BY NameShapes DEF Typed
<1>3. Nothing # Own(r) /\ Nothing # Copy(r)
  BY DEF Nothing, Own, Copy
<1>4. CASE s = 0
  <2>1. dir[k] \in {Nothing, Own(q), Copy(q)}
    BY <1>1, <1>4 DEF FilesOK
  <2> QED BY <1>1, <1>2, <1>3, <1>4, <2>1 DEF Own, Copy
<1>5. CASE s = serial
  <2>1. dir[k] \in {Nothing, Own(q)}
    BY <1>1, <1>5 DEF FilesOK
  <2> QED BY <1>1, <1>2, <1>3, <1>5, <2>1 DEF Own, Copy
<1>6. CASE s # 0 /\ s # serial
  <2>1. s \in 1..MaxSerial /\ (s < serial \/ s > serial)
    BY <1>2, <1>6, Bounds
  <2>2. (dir[k] = <<s, q>> /\ s < serial) \/ dir[k] = Nothing
    BY <1>1, <2>1 DEF FilesOK
  <2> QED BY <1>2, <1>3, <2>1, <2>2 DEF Own, Copy
<1> QED BY <1>4, <1>5, <1>6

\* The evidence of a prepared pair certifies that it is prepared, and nothing else does.
LEMMA ReadyIsPrepared ==
  ASSUME Typed, FilesOK, Open, ReadyPair(Current)
  PROVE  Prepared
<1> SUFFICES ASSUME NEW r \in Roles PROVE Kept(r) /\ dir[<<0, r>>] = Copy(r)
  BY DEF Prepared
<1> DEFINE retained == Current.evidence.retained
           candidates == Current.evidence.candidates
<1>1. /\ IsVisible(<<serial, r>>, retained[r], 1)
      /\ IsVisible(<<0, r>>, candidates[r], 1)
  BY NameShapes DEF Typed, Open, ReadyPair, PairIs
<1>2. dir[<<serial, r>>] # Nothing /\ dir[<<0, r>>] # Nothing
  BY <1>1 DEF IsVisible
<1>3. retained[r].ino = dir[<<serial, r>>] /\ Links(dir[<<serial, r>>]) = 1
  BY <1>1 DEF IsVisible, Fact
<1>4. Kept(r)
  BY <1>2 DEF FilesOK, Kept
<1>5. dir[<<0, r>>] # Own(r)
  <2>1. <<0, r>> # <<serial, r>>
    BY NameShapes DEF Typed
  <2>2. <<0, r>> \in Names /\ <<serial, r>> \in Names
    BY NameShapes DEF Typed
  <2>3. \A k \in Names : dir[k] = dir[<<serial, r>>] => k = <<serial, r>>
    BY <1>3, <2>2, OneName
  <2> QED BY <1>4, <2>1, <2>2, <2>3 DEF Kept
<1> QED BY <1>2, <1>4, <1>5 DEF FilesOK

LEMMA FactIno ==
  ASSUME NEW name, NEW fact, NEW links, IsVisible(name, fact, links)
  PROVE  dir[name] # Nothing /\ dir[name] = fact.ino /\ Links(fact.ino) = links
BY DEF IsVisible, Fact

LEMMA PreparedIsReady ==
  ASSUME Typed, FilesOK, Prepared
  PROVE  PairIs(Retained[serial], PairFacts(Retained[serial])) /\ PairIs(Visible, PairFacts(Visible))
<1> SUFFICES ASSUME NEW r \in Roles
             PROVE  /\ IsVisible(<<serial, r>>, Fact(<<serial, r>>), 1)
                    /\ IsVisible(<<0, r>>, Fact(<<0, r>>), 1)
  BY NameShapes DEF PairIs, PairFacts, Typed
<1>1. dir[<<serial, r>>] = Own(r) /\ dir[<<0, r>>] = Copy(r)
  BY DEF Prepared, Kept
<1>2. Own(r) # Copy(r) /\ Own(r) # Nothing /\ Copy(r) # Nothing
  BY NameShapes DEF Own, Copy, Nothing, Typed
<1>3. <<0, r>> \in Names /\ <<serial, r>> \in Names
  BY NameShapes DEF Typed
<1>4. Links(Own(r)) = 1
  <2>1. \A k \in Names : dir[k] = Own(r) => k = <<serial, r>>
    BY <1>1, <1>2, OwnNames
  <2> QED BY <1>1, <1>3, <2>1, OneName
<1>5. Links(Copy(r)) = 1
  <2>1. \A k \in Names : dir[k] = Copy(r) => k = <<0, r>>
    BY OwnNames
  <2> QED BY <1>1, <1>3, <2>1, OneName
<1> QED BY <1>1, <1>2, <1>4, <1>5 DEF IsVisible, Fact

-----------------------------------------------------------------------------
(* What a step can do to the continuations.                                *)

LEMMA Updated ==
  ASSUME NEW S, NEW s \in Seq(S), NEW x \in S, s # <<>>
  PROVE  /\ [s EXCEPT ![Len(s)] = x] \in Seq(S)
         /\ Len([s EXCEPT ![Len(s)] = x]) = Len(s)
         /\ Len(s) \in 1..Len(s)
         /\ \A i \in 1..Len(s) : [s EXCEPT ![Len(s)] = x][i] = IF i = Len(s) THEN x ELSE s[i]
<1>1. Len(s) \in Nat /\ Len(s) # 0 /\ DOMAIN s = 1..Len(s)
  BY EmptySeq, LenProperties
<1>2. Len(s) \in 1..Len(s)
  BY <1>1
<1> QED BY <1>1, <1>2, ExceptSeq

LEMMA CurrentIn ==
  ASSUME ContsTyped, conts # <<>>
  PROVE  /\ Activation \in 1..Len(conts) /\ DOMAIN conts = 1..Len(conts) /\ Len(conts) \in Nat
         /\ Current \in Conts
<1>1. conts \in Seq(Conts)
  BY DEF ContsTyped
<1>2. Len(conts) \in Nat /\ Len(conts) # 0 /\ DOMAIN conts = 1..Len(conts)
  BY <1>1, EmptySeq, LenProperties
<1> QED BY <1>1, <1>2, ElementOfSeq DEF Activation, Current

\* The row of the head is replaced by one of the same origin, recorded as ready only on a report.
Relabelled ==
  /\ conts # <<>>
  /\ \E row \in Conts :
       /\ conts' = [conts EXCEPT ![Activation] = row]
       /\ row.source = Current.source /\ row.from = Current.from
       /\ row.phase = "ready" =>
            \/ Current.phase = "ready" /\ row.evidence = Current.evidence
            \/ /\ Open /\ \E o \in Owners : mail[o] = "ready"
               /\ row.evidence = [retained |-> PairFacts(Keep), candidates |-> PairFacts(Visible)]
\* A consent, by a resume or by an edit of a stopped download.
Granted ==
  /\ serial < MaxSerial /\ Len(conts) < MaxResumes /\ ckpt[serial] # Nothing
  /\ (\E i \in DOMAIN conts : conts[i].source = serial) => Reusable(serial) # {}
  /\ \E r \in Nat : conts' = Append(conts, Continuation(r))
  /\ state' = "queued" /\ due = {}
  /\ UNCHANGED <<dir, bytes, serial, ckpt, thread, cancel, mail, due, stop, body, host>>

LEMMA FactsSeen ==
  ASSUME Typed, NEW names \in [Roles -> Names]
  PROVE  PairFacts(names) \in [Roles -> Seen]
<1>1. ASSUME NEW r \in Roles PROVE Fact(names[r]) \in Seen
  <2>1. dir[names[r]] \in Inodes \cup {Nothing}
    BY DEF Typed, FilesTyped
  <2>2. dir[names[r]] # Nothing => bytes[dir[names[r]]] \in 0..MaxWrites
    BY <2>1 DEF Typed, FilesTyped
  <2>3. 0 \in 0..MaxWrites
    BY Bounds
  <2> QED BY <2>1, <2>2, <2>3 DEF Fact, Seen
<1> QED BY <1>1 DEF PairFacts

LEMMA PairNames ==
  ASSUME Typed
  PROVE  /\ Visible \in [Roles -> Names]
         /\ \A s \in 1..MaxSerial : Retained[s] \in [Roles -> Names]
BY Bounds DEF Visible, Retained, Names

LEMMA FailedRelabels ==
  ASSUME Typed, conts # <<>>,
         conts' = [conts EXCEPT ![Activation].phase = IF @ = "admitted" THEN @ ELSE "failed"]
  PROVE  Relabelled
<1> DEFINE row == [Current EXCEPT !.phase = IF @ = "admitted" THEN @ ELSE "failed"]
<1>1. Activation \in 1..Len(conts) /\ DOMAIN conts = 1..Len(conts) /\ Current \in Conts
  BY CurrentIn DEF Typed
<1>2. row \in Conts /\ row.source = Current.source /\ row.from = Current.from /\ row.phase # "ready"
  BY <1>1 DEF Conts, Phase
<1>3. conts' = [conts EXCEPT ![Activation] = row]
  BY <1>1 DEF Current
<1> QED BY <1>2, <1>3 DEF Relabelled

LEMMA ReapRelabels ==
  ASSUME Typed, ThreadsOK, NEW o \in Owners, Reap(o)
  PROVE  Relabelled
<1>1. conts # <<>>
  BY DEF ThreadsOK, Reap, Ended, None, Done, Failed
<1>2. ASSUME FailPreparation PROVE Relabelled
  BY <1>1, <1>2, FailedRelabels DEF FailPreparation
<1>3. ASSUME conts' = [conts EXCEPT ![Activation].drained = TRUE] PROVE Relabelled
  <2> DEFINE row == [Current EXCEPT !.drained = TRUE]
  <2>1. Activation \in 1..Len(conts) /\ DOMAIN conts = 1..Len(conts) /\ Current \in Conts
    BY <1>1, CurrentIn DEF Typed
  <2>2. row \in Conts /\ row.source = Current.source /\ row.from = Current.from
        /\ row.phase = Current.phase /\ row.evidence = Current.evidence
    BY <2>1 DEF Conts
  <2>3. conts' = [conts EXCEPT ![Activation] = row]
    BY <1>3, <2>1 DEF Current
  <2> QED BY <1>1, <2>2, <2>3 DEF Relabelled
<1> QED BY <1>2, <1>3 DEF Reap

LEMMA PollRelabels ==
  ASSUME Typed, NEW o \in Owners, PollPhase(o)
  PROVE  Relabelled \/ UNCHANGED conts
<1> DEFINE facts == [retained |-> PairFacts(Keep), candidates |-> PairFacts(Visible)]
           ev == IF mail[o] = "ready" THEN facts ELSE Current.evidence
           row == [Current EXCEPT !.phase = mail[o], !.evidence = ev]
<1> SUFFICES ASSUME Consented, conts' # conts PROVE Relabelled
  BY DEF PollPhase
<1>1. conts # <<>> /\ Open
  BY DEF Consented, Open
<1>2. Activation \in 1..Len(conts) /\ DOMAIN conts = 1..Len(conts) /\ Current \in Conts
  BY <1>1, CurrentIn DEF Typed
<1>3. mail[o] \in {"linked", "retired", "ready"}
  BY DEF PollPhase, Posted
<1>4. conts' = [conts EXCEPT ![Activation].phase = mail[o], ![Activation].evidence =
                   IF mail[o] = "ready" THEN facts ELSE @]
  BY DEF PollPhase
<1>5. conts' = [conts EXCEPT ![Activation] = row]
  BY <1>2, <1>4 DEF Current
<1>6. facts \in [retained : Evidence, candidates : Evidence]
  <2>1. Keep \in [Roles -> Names]
    BY <1>2, PairNames DEF Keep, Conts
  <2> QED BY <2>1, PairNames, FactsSeen DEF Evidence
<1>7. row \in Conts
  BY <1>2, <1>3, <1>6 DEF Conts, Phase
<1>8. row.source = Current.source /\ row.from = Current.from /\ row.phase = mail[o]
      /\ row.evidence = ev
  BY <1>2 DEF Conts
<1> QED BY <1>1, <1>5, <1>7, <1>8 DEF Relabelled

LEMMA AdmitRelabels ==
  ASSUME Typed, NEW o \in Owners, Admit(o)
  PROVE  /\ conts # <<>>
         /\ \E row \in Conts :
              /\ conts' = [conts EXCEPT ![Activation] = row]
              /\ row.source = Current.source /\ row.from = Current.from /\ row.phase = "admitted"
<1> DEFINE row == [Current EXCEPT !.phase = "admitted"]
<1>1. conts # <<>>
  BY DEF Admit, MayDispatch, Consented
<1>2. Activation \in 1..Len(conts) /\ DOMAIN conts = 1..Len(conts) /\ Current \in Conts
  BY <1>1, CurrentIn DEF Typed
<1>3. conts' = [conts EXCEPT ![Activation].phase = "admitted"]
  BY DEF Admit
<1>4. conts' = [conts EXCEPT ![Activation] = row]
  BY <1>2, <1>3 DEF Current
<1>5. row \in Conts /\ row.source = Current.source /\ row.from = Current.from /\ row.phase = "admitted"
  BY <1>2 DEF Conts, Phase
<1> QED BY <1>1, <1>4, <1>5

\* A consent to a body that has one already takes over the head, which is ready.
LEMMA NewRow ==
  ASSUME Typed, ContsOK, Granted
  PROVE  \E row \in Conts :
           /\ conts' = Append(conts, row) /\ row.source = serial
           /\ \/ ~Open /\ row.phase = "intent" /\ row.from = 0
              \/ /\ Open /\ Current.phase = "ready"
                 /\ row.phase = "ready" /\ row.from = Activation /\ row.evidence = Current.evidence
<1>1. PICK r \in Nat : conts' = Append(conts, Continuation(r))
  BY DEF Granted
<1>2. conts \in Seq(Conts) /\ Len(conts) \in Nat /\ DOMAIN conts = 1..Len(conts)
  BY LenProperties DEF Typed, ContsTyped
<1> DEFINE Rows == \A k \in DOMAIN conts : conts[k] \in Conts
<1>7. Rows /\ IsFiniteSet(DOMAIN conts)
  <2>1. \A k \in 1..Len(conts) : conts[k] \in Conts
    BY <1>2, ElementOfSeq
  <2>2. IsFiniteSet(1..Len(conts))
    BY <1>2, FS_Interval
  <2> QED BY <1>2, <2>1, <2>2
<1>3. epoch \in Nat /\ serial \in 1..MaxSerial
  BY Bounds DEF Typed, JobTyped
<1>4. Leaves(serial) \subseteq DOMAIN conts /\ Reusable(serial) \subseteq Leaves(serial)
      /\ \A i \in Leaves(serial) : conts[i].source = serial
  BY DEF Leaves, Reusable
<1>5. CASE Reusable(serial) = {}
  <2> DEFINE row == [source |-> serial, epoch |-> epoch, rev |-> r, phase |-> "intent",
                     drained |-> FALSE, from |-> 0, evidence |-> NoEvidence]
  <2>1. Continuation(r) = row
    BY <1>5 DEF Continuation
  <2>2. row \in Conts
    BY <1>3 DEF Conts, Phase, NoEvidence, Evidence
  <2>3. ~Open
    <3>1. ASSUME Open PROVE FALSE
      <4>1. Activation \in DOMAIN conts /\ conts[Activation].source = serial
        BY <3>1, CurrentIn DEF Open, Typed, Current
      <4> QED BY <1>5, <4>1 DEF Granted
    <3> QED BY <3>1
  <2> QED BY <1>1, <2>1, <2>2, <2>3
<1>6. CASE Reusable(serial) # {}
  <2> DEFINE i == CHOOSE j \in Reusable(serial) : TRUE
             row == [conts[i] EXCEPT !.epoch = epoch, !.rev = r, !.from = i]
  <2>1. i \in Reusable(serial)
    BY <1>6
  <2>2. Continuation(r) = row
    BY <1>6 DEF Continuation
  <2>3. i \in Leaves(serial) /\ Cardinality(Leaves(serial)) = 1 /\ conts[i].phase = "ready"
    BY <2>1 DEF Reusable
  <2>4. conts # <<>> /\ Activation \in DOMAIN conts
    BY <1>2, <1>4, <2>3 DEF Activation
  <2>5. conts[Activation].source = serial
    <3>1. conts[i].source <= conts[Activation].source /\ conts[Activation].source <= serial
      BY <1>4, <2>3 DEF ContsOK, Current
    <3>2. conts[Activation] \in Conts
      BY <2>4, CurrentIn DEF Typed, Current
    <3> QED BY <1>3, <1>4, <2>3, <3>1, <3>2, Bounds DEF Conts
  <2>6. Activation \in Leaves(serial)
    <3>1. ASSUME NEW j \in DOMAIN conts PROVE conts[j].from # Activation
      <4>1. conts[j].from < j /\ j <= Activation
        BY <1>2 DEF ContsOK, Activation
      <4>2. conts[j].from \in Nat
        BY <1>7 DEF Conts
      <4> QED BY <1>2, <4>1, <4>2 DEF Activation
    <3> QED BY <2>4, <2>5, <3>1 DEF Leaves
  <2>7. i = Activation
    <3>1. IsFiniteSet(Leaves(serial))
      BY <1>4, <1>7, FS_Subset
    <3>2. PICK x : Leaves(serial) = {x}
      BY <2>3, <3>1, FS_Singleton
    <3> QED BY <2>3, <2>6, <3>2
  <2>8. conts[i] \in Conts /\ i \in Nat
    <3>1. conts[Activation] \in Conts /\ Activation \in Nat
      BY <1>2, <1>7, <2>4 DEF Activation
    <3> HIDE DEF i
    <3> QED BY <2>7, <3>1
  <2>9. /\ row \in Conts /\ row.source = conts[i].source /\ row.phase = "ready" /\ row.from = i
        /\ row.evidence = conts[i].evidence
    BY <1>3, <2>3, <2>8 DEF Conts
  <2> QED BY <1>1, <2>2, <2>3, <2>4, <2>5, <2>7, <2>9 DEF Open, Current
<1> QED BY <1>5, <1>6

-----------------------------------------------------------------------------
(* What a step can do.                                                     *)

\* Names, seals and origins stay; nothing starts.
Steady ==
  /\ UNCHANGED <<dir, bytes, serial, ckpt>>
  /\ UNCHANGED conts \/ Relabelled
  /\ body' => body
  /\ stop' # "none" => stop # "none"
  /\ state' = "resolving" => state = "resolving"
Stopped ==
  /\ UNCHANGED <<dir, bytes, serial, ckpt, conts>>
  /\ body /\ ~body' /\ state' = "paused"
Sealed ==
  /\ UNCHANGED <<dir, bytes, serial, conts>>
  /\ stop = "reading" \/ body
  /\ ~body' /\ stop' = "none" /\ state' # "resolving"
  /\ \E e, r : ckpt' = [ckpt EXCEPT ![serial] = [epoch |-> e, rev |-> r, facts |-> PairFacts(Visible)]]

LEMMA StopBodyStops ==
  ASSUME Typed, NEW keep, NEW captured, StopBody(keep, captured),
         UNCHANGED <<dir, bytes, ckpt, conts>>
  PROVE  Stopped
BY DEF StopBody, Stopped, Typed, JobTyped

LEMMA EligibleIsSealed ==
  ASSUME NEW r, NEW fs, Eligible(r, fs)
  PROVE  /\ ckpt[serial] # Nothing
         /\ (\E i \in DOMAIN conts : conts[i].source = serial) => Reusable(serial) # {}
<1> DEFINE E == \E i \in DOMAIN conts : conts[i].source = serial
           G == \E i \in Reusable(serial) : Reaches(conts[i], epoch, r, fs)
<1>1. ckpt[serial] # Nothing /\ (E => G)
  BY DEF Eligible
<1>2. G => Reusable(serial) # {}
  OBVIOUS
<1> HIDE DEF G
<1> QED BY <1>1, <1>2

LEMMA ThreadSteps ==
  ASSUME NEW o \in Owners, Check(o) \/ Acknowledged(o) \/ GiveUp(o)
  PROVE  Steady
BY DEF Check, Acknowledged, GiveUp, Steady, job, saved, files

LEMMA LoopSteps ==
  ASSUME Typed, ThreadsOK, SealsOK, Looping
  PROVE  Steady
<1>1. CASE BeginPass
  BY <1>1 DEF BeginPass, Steady, job, saved, files
<1>2. CASE Joined
  <2>1. conts # <<>>
    <3>1. control \in Owners
      BY <1>2 DEF Joined, Typed, ThreadsTyped
    <3> QED BY <1>2, <3>1 DEF Joined, ThreadsOK, Ended, None, Done, Failed
  <2>2. Relabelled
    BY <1>2, <2>1, FailedRelabels DEF Joined, FailPreparation
  <2> QED BY <1>2, <2>2 DEF Joined, FailPreparation, Steady, files
<1>3. ASSUME NEW o \in Owners, PassOver(o) PROVE Steady
  BY <1>3 DEF PassOver, Steady, job, saved, files
<1>4. ASSUME NEW o \in Owners, PollPhase(o) PROVE Steady
  BY <1>4, PollRelabels DEF PollPhase, Steady, job, files
<1>5. ASSUME NEW o \in Owners, Reap(o) PROVE Steady
  <2>1. Relabelled
    BY <1>5, ReapRelabels
  <2> QED BY <1>5, <2>1 DEF Reap, FailPreparation, Steady, files
<1> QED BY <1>1, <1>2, <1>3, <1>4, <1>5 DEF Looping

LEMMA ControlSteps ==
  ASSUME Typed, Controls
  PROVE  Steady \/ Stopped
<1>1. ASSUME NEW captured, Pause(captured) PROVE Steady \/ Stopped
  <2>1. UNCHANGED <<dir, bytes, ckpt, conts>>
    BY <1>1 DEF Pause, saved, files
  <2>2. CASE StopBody(FALSE, captured)
    BY <2>1, <2>2, StopBodyStops
  <2>3. CASE ~StopBody(FALSE, captured)
    <3>1. /\ serial' = serial /\ body' = body /\ stop' = stop
          /\ state' # "resolving" \/ state' = state
      BY <1>1, <2>3 DEF Pause, Revoke, job
    <3> QED BY <2>1, <3>1 DEF Steady
  <2> QED BY <2>2, <2>3
<1>2. ASSUME NEW captured, CloseGate(captured) PROVE Steady \/ Stopped
  <2>1. UNCHANGED <<dir, bytes, ckpt, conts>>
    BY <1>2 DEF CloseGate, saved, files
  <2>2. CASE StopBody(TRUE, captured)
    BY <2>1, <2>2, StopBodyStops
  <2>3. CASE ~StopBody(TRUE, captured)
    <3>1. serial' = serial /\ body' = body /\ stop' = stop /\ state' = state
      BY <1>2, <2>3 DEF CloseGate, Revoke, job
    <3> QED BY <2>1, <3>1 DEF Steady
  <2> QED BY <2>2, <2>3
<1>3. ASSUME NEW captured, StopForEdit(captured) PROVE Stopped
  BY <1>3, StopBodyStops DEF StopForEdit, saved, files
<1>4. ASSUME OpenGate \/ JoinTimeout \/ AcceptEdit PROVE Steady
  BY <1>4 DEF OpenGate, JoinTimeout, AcceptEdit, Steady, job, saved, files
<1> QED BY <1>1, <1>2, <1>3, <1>4 DEF Controls

LEMMA Kinds ==
  ASSUME Typed, ThreadsOK, SealsOK, [Next]_vars
  PROVE  \/ Steady \/ Stopped \/ Sealed \/ Granted \/ StartBody
         \/ \E r \in Roles : BodyWrite(r)
         \/ \E o \in Owners : Admit(o) \/ Act(o)
<1>1. CASE UNCHANGED vars
  BY <1>1 DEF vars, job, saved, files, Steady
<1>2. CASE BodyCompletes
  BY <1>2 DEF BodyCompletes, Steady, saved, files
<1>3. CASE StartSeal
  BY <1>3 DEF StartSeal, Steady, job, saved, files
<1>4. ASSUME NEW read, FinishSeal(read) PROVE Steady \/ Sealed
  <2>1. /\ stop = "reading" /\ stop' = "none"
        /\ UNCHANGED <<dir, bytes, serial, conts, state, body>>
    BY <1>4 DEF FinishSeal, job, files
  <2>2. ~body /\ state # "resolving"
    BY <2>1 DEF SealsOK
  <2>3. CASE read /\ state = "paused" /\ rev = stopRev
    BY <1>4, <2>1, <2>2, <2>3 DEF FinishSeal, Seal, Sealed, Typed, JobTyped
  <2>4. CASE ~(read /\ state = "paused" /\ rev = stopRev)
    BY <1>4, <2>1, <2>4 DEF FinishSeal, Steady
  <2> QED BY <2>3, <2>4
<1>5. CASE Resume
  <2>1. rev + 1 \in Nat
    BY <1>5 DEF Typed, JobTyped
  <2> QED BY <1>5, <2>1, EligibleIsSealed
      DEF Resume, Consent, MayContinue, LoopFree, Granted, files, task, loop
<1>6. ASSUME NEW o \in Owners, StartPreparation(o) PROVE Steady
  BY <1>6 DEF StartPreparation, Steady, job, saved, files
<1>7. CASE AbortBody
  BY <1>7 DEF AbortBody, Steady, saved, files
<1>8. CASE ApplyEdit
  <2>1. UNCHANGED <<dir, bytes, serial, ckpt, thread, cancel, mail, due, stop, body, host>>
        /\ due = {} /\ state \in {"paused", "queued"}
    BY <1>8 DEF ApplyEdit, LoopFree, files, task, loop
  <2>2. ASSUME NEW fs, MayContinue, Eligible(rev + 1, fs), Consent(rev + 2) PROVE Granted
    <3>1. rev + 2 \in Nat
      BY DEF Typed, JobTyped
    <3> QED BY <2>1, <2>2, <3>1, EligibleIsSealed DEF Consent, MayContinue, Granted
  <2>3. ASSUME UNCHANGED <<state, conts>> PROVE Steady
    BY <2>1, <2>3 DEF Steady
  <2> QED BY <1>8, <2>2, <2>3 DEF ApplyEdit
<1>9. ASSUME NEW sealed \in BOOLEAN, ColdStart(sealed) PROVE Steady \/ Sealed
  <2>1. /\ UNCHANGED <<dir, bytes, serial, conts>> /\ body' = FALSE /\ stop' = "none"
        /\ state' # "resolving"
    BY <1>9 DEF ColdStart, files
  <2>2. CASE sealed /\ body
    BY <1>9, <2>1, <2>2 DEF ColdStart, Seal, Sealed
  <2>3. CASE ~(sealed /\ body)
    BY <1>9, <2>1, <2>3 DEF ColdStart, Steady
  <2> QED BY <2>2, <2>3
<1> QED
  BY <1>1, <1>2, <1>3, <1>4, <1>5, <1>6, <1>7, <1>8, <1>9, ThreadSteps, LoopSteps, ControlSteps
     DEF Next, Stopping, Dispatching, Preparing

-----------------------------------------------------------------------------
(* The continuations.                                                      *)

LEMMA RowReplaced ==
  ASSUME Typed, conts # <<>>, NEW row \in Conts, conts' = [conts EXCEPT ![Activation] = row]
  PROVE  /\ conts' \in Seq(Conts) /\ Len(conts') = Len(conts) /\ conts' # <<>>
         /\ Activation' = Activation /\ Current' = row
         /\ DOMAIN conts = 1..Len(conts) /\ DOMAIN conts' = 1..Len(conts)
         /\ Activation \in 1..Len(conts)
         /\ \A i \in 1..Len(conts) : conts'[i] = IF i = Activation THEN row ELSE conts[i]
<1>1. conts \in Seq(Conts) /\ conts' = [conts EXCEPT ![Len(conts)] = row]
  BY DEF Typed, ContsTyped, Activation
<1>2. /\ conts' \in Seq(Conts) /\ Len(conts') = Len(conts) /\ Len(conts) \in 1..Len(conts)
      /\ \A i \in 1..Len(conts) : conts'[i] = IF i = Len(conts) THEN row ELSE conts[i]
  <2> DEFINE t == [conts EXCEPT ![Len(conts)] = row]
  <2>1. /\ t \in Seq(Conts) /\ Len(t) = Len(conts) /\ Len(conts) \in 1..Len(conts)
        /\ \A i \in 1..Len(conts) : t[i] = IF i = Len(conts) THEN row ELSE conts[i]
    BY <1>1, Updated
  <2>2. conts' = t
    BY <1>1
  <2> HIDE DEF t
  <2> QED BY <2>1, <2>2
<1>3. DOMAIN conts = 1..Len(conts) /\ DOMAIN conts' = 1..Len(conts)
  BY <1>1, <1>2, LenProperties
<1>4. conts' # <<>>
  <2>1. Activation \in DOMAIN conts'
    BY <1>2, <1>3 DEF Activation
  <2> QED BY <2>1
<1> QED BY <1>2, <1>3, <1>4 DEF Activation, Current

LEMMA RowAdded ==
  ASSUME Typed, NEW row \in Conts, conts' = Append(conts, row)
  PROVE  /\ conts' \in Seq(Conts) /\ Len(conts') = Len(conts) + 1 /\ conts' # <<>>
         /\ Activation' = Activation + 1 /\ Current' = row
         /\ Len(conts) \in Nat /\ DOMAIN conts = 1..Len(conts) /\ DOMAIN conts' = 1..(Len(conts) + 1)
         /\ \A i \in 1..Len(conts) : conts'[i] = conts[i]
<1>1. conts \in Seq(Conts)
  BY DEF Typed, ContsTyped
<1>2. /\ conts' \in Seq(Conts) /\ Len(conts') = Len(conts) + 1
      /\ \A i \in 1..Len(conts) : conts'[i] = conts[i]
      /\ conts'[Len(conts) + 1] = row
  BY <1>1, AppendProperties
<1>3. DOMAIN conts = 1..Len(conts) /\ DOMAIN conts' = 1..Len(conts') /\ Len(conts) \in Nat
  BY <1>1, <1>2, LenProperties
<1>4. conts' # <<>>
  BY <1>2, <1>3, EmptySeq
<1> QED BY <1>2, <1>3, <1>4 DEF Activation, Current

LEMMA StillOpen ==
  ASSUME Typed, UNCHANGED serial, UNCHANGED conts \/ Relabelled
  PROVE  /\ Open' <=> Open
         /\ conts # <<>> => conts' # <<>> /\ Current'.source = Current.source
<1>1. CASE UNCHANGED conts
  BY <1>1 DEF Open, Current, Activation
<1>2. CASE Relabelled
  <2>1. PICK row \in Conts : conts' = [conts EXCEPT ![Activation] = row]
                             /\ row.source = Current.source
    BY <1>2 DEF Relabelled
  <2>2. conts # <<>>
    BY <1>2 DEF Relabelled
  <2>3. conts' # <<>> /\ Current' = row
    BY <2>1, <2>2, RowReplaced
  <2> QED BY <2>1, <2>2, <2>3 DEF Open
<1> QED BY <1>1, <1>2

LEMMA AdmitCloses ==
  ASSUME Typed, NEW o \in Owners, Admit(o)
  PROVE  Open /\ Open' = FALSE /\ serial' = serial + 1 /\ ReadyPair(Current) /\ Current.phase = "ready"
<1>1. PICK row \in Conts : conts' = [conts EXCEPT ![Activation] = row] /\ row.source = Current.source
  BY AdmitRelabels
<1>2. Open /\ ReadyPair(Current) /\ serial' = serial + 1 /\ Current.phase = "ready"
  BY DEF Admit, MayDispatch, Consented, Open
<1>3. Current' = row
  BY <1>1, <1>2, RowReplaced DEF Open
<1>4. serial \in Nat
  BY NameShapes DEF Typed
<1> QED BY <1>1, <1>2, <1>3, <1>4 DEF Open

LEMMA GrantOpens ==
  ASSUME Typed, ContsOK, Granted
  PROVE  Open'
<1>1. PICK row \in Conts : conts' = Append(conts, row) /\ row.source = serial
  BY NewRow
<1>2. conts' # <<>> /\ Current' = row
  BY <1>1, RowAdded
<1> QED BY <1>1, <1>2 DEF Open, Granted

LEMMA SerialMoves ==
  ASSUME Typed, ThreadsOK, SealsOK, [Next]_vars
  PROVE  UNCHANGED serial \/ \E o \in Owners : Admit(o)
BY Kinds DEF Steady, Stopped, Sealed, Granted, StartBody, BodyWrite, Act, job

LEMMA ContsMove ==
  ASSUME Typed, ThreadsOK, SealsOK, [Next]_vars
  PROVE  \/ UNCHANGED <<conts, serial>>
         \/ Relabelled /\ UNCHANGED serial
         \/ Granted \/ \E o \in Owners : Admit(o)
BY Kinds DEF Steady, Stopped, Sealed, StartBody, BodyWrite, Act, job, saved

LEMMA ContsHold ==
  ASSUME Typed, ThreadsOK, SealsOK, ContsOK, [Next]_vars
  PROVE  ContsTyped' /\ ContsOK'
<1>0. serial \in Nat /\ serial' \in Nat /\ serial <= serial'
  <2>1. serial \in Nat
    BY NameShapes DEF Typed
  <2>2. serial' = serial \/ serial' = serial + 1
    BY SerialMoves, AdmitCloses
  <2> QED BY <2>1, <2>2
<1>1. CASE UNCHANGED <<conts, serial>>
  BY <1>1 DEF Typed, ContsTyped, ContsOK, Current, Activation
<1> DEFINE Kept1 == \A i \in DOMAIN conts :
                      i # Activation /\ conts[i].phase = "ready" => \E j \in DOMAIN conts : conts[j].from = i
<1>2. ASSUME NEW row \in Conts, conts # <<>>, conts' = [conts EXCEPT ![Activation] = row],
             row.source = Current.source, row.from = Current.from,
             row.phase = "ready" => row.source = serial'
      PROVE  ContsTyped' /\ ContsOK'
  <2>1. /\ conts' \in Seq(Conts) /\ Len(conts') = Len(conts) /\ conts' # <<>>
        /\ Activation' = Activation /\ Current' = row
        /\ DOMAIN conts = 1..Len(conts) /\ DOMAIN conts' = 1..Len(conts)
        /\ Activation \in 1..Len(conts)
        /\ \A i \in 1..Len(conts) : conts'[i] = IF i = Activation THEN row ELSE conts[i]
    BY <1>2, RowReplaced
  <2>2. \A i \in 1..Len(conts) : conts'[i].source = conts[i].source /\ conts'[i].from = conts[i].from
    BY <1>2, <2>1 DEF Current
  <2>3. ContsTyped'
    BY <2>1 DEF ContsTyped, Typed
  <2>4. ASSUME NEW i \in DOMAIN conts'
        PROVE  /\ conts'[i].source <= Current'.source /\ Current'.source <= serial'
               /\ conts'[i].from < i
    <3>1. conts[i].source <= Current.source /\ Current.source <= serial /\ conts[i].from < i
      BY <2>1 DEF ContsOK
    <3>2. Current.source \in Nat
      BY <1>2, CurrentIn, Bounds DEF Typed, Conts
    <3> QED BY <1>0, <1>2, <2>1, <2>2, <3>1, <3>2
  <2>5. ASSUME NEW i \in DOMAIN conts', conts'[i].phase = "ready", i # Activation'
        PROVE  \E j \in DOMAIN conts' : conts'[j].from = i
    <3>1. conts[i].phase = "ready" /\ i # Activation /\ i \in DOMAIN conts
      BY <2>1, <2>5
    <3>2. PICK j \in DOMAIN conts : conts[j].from = i
      BY <3>1 DEF ContsOK
    <3> QED BY <2>1, <2>2, <3>2
  <2>6. conts' # <<>> /\ Current'.phase = "ready" => Current'.source = serial'
    BY <1>2, <2>1
  <2> QED BY <2>3, <2>4, <2>5, <2>6 DEF ContsOK
<1>3. CASE Relabelled /\ UNCHANGED serial
  <2>1. PICK row \in Conts :
          /\ conts' = [conts EXCEPT ![Activation] = row]
          /\ row.source = Current.source /\ row.from = Current.from
          /\ row.phase = "ready" => Current.phase = "ready" \/ Open
    BY <1>3 DEF Relabelled
  <2>2. row.phase = "ready" => row.source = serial'
    BY <1>3, <2>1 DEF Open, ContsOK, Relabelled
  <2> QED BY <1>2, <1>3, <2>1, <2>2 DEF Relabelled
<1>4. ASSUME NEW o \in Owners, Admit(o) PROVE ContsTyped' /\ ContsOK'
  BY <1>2, <1>4, AdmitRelabels
<1>5. CASE Granted
  <2>1. PICK row \in Conts :
           /\ conts' = Append(conts, row) /\ row.source = serial
           /\ \/ ~Open /\ row.phase = "intent" /\ row.from = 0
              \/ /\ Open /\ Current.phase = "ready"
                 /\ row.phase = "ready" /\ row.from = Activation
    BY <1>5, NewRow
  <2>2. /\ conts' \in Seq(Conts) /\ Len(conts') = Len(conts) + 1 /\ conts' # <<>>
        /\ Activation' = Activation + 1 /\ Current' = row
        /\ Len(conts) \in Nat /\ DOMAIN conts = 1..Len(conts) /\ DOMAIN conts' = 1..(Len(conts) + 1)
        /\ \A i \in 1..Len(conts) : conts'[i] = conts[i]
    BY <2>1, RowAdded
  <2>3. serial' = serial /\ Len(conts) < MaxResumes
    BY <1>5 DEF Granted
  <2>4. ContsTyped'
    BY <2>2, <2>3, Bounds DEF ContsTyped
  <2>5. Activation' = Len(conts) + 1 /\ conts'[Len(conts) + 1] = row
    BY <2>2 DEF Activation, Current
  <2>6. \A i \in 1..Len(conts) : conts[i].source \in Nat /\ conts[i].from \in Nat
    <3>1. \A i \in 1..Len(conts) : conts[i] \in Conts
      BY ElementOfSeq DEF Typed, ContsTyped
    <3> QED BY <3>1, Bounds DEF Conts
  <2>7. ASSUME NEW i \in DOMAIN conts'
        PROVE  /\ conts'[i].source <= Current'.source /\ Current'.source <= serial'
               /\ conts'[i].from < i
    <3>1. CASE i = Len(conts) + 1
      BY <1>0, <2>1, <2>2, <2>3, <2>5, <3>1 DEF Activation
    <3>2. CASE i # Len(conts) + 1
      <4>1. i \in 1..Len(conts)
        BY <2>2, <3>2
      <4>2. conts[i].source <= Current.source /\ Current.source <= serial /\ conts[i].from < i
        BY <2>2, <4>1 DEF ContsOK
      <4>3. conts # <<>>
        BY <4>1, <2>2
      <4>4. Current.source \in Nat
        BY <4>3, CurrentIn, Bounds DEF Typed, Conts
      <4>5. conts[i].source <= serial
        BY <1>0, <2>6, <4>1, <4>2, <4>4
      <4> QED BY <1>0, <2>1, <2>2, <2>3, <4>1, <4>2, <4>5
    <3> QED BY <3>1, <3>2
  <2>8. ASSUME NEW i \in DOMAIN conts', conts'[i].phase = "ready", i # Activation'
        PROVE  \E j \in DOMAIN conts' : conts'[j].from = i
    <3>1. i \in 1..Len(conts) /\ conts[i].phase = "ready"
      BY <2>2, <2>5, <2>8
    <3>2. CASE i = Activation
      <4>1. Open
        BY <3>1, <3>2, <2>2 DEF Open, ContsOK, Current
      <4> QED BY <2>1, <2>2, <2>5, <3>2, <4>1
    <3>3. CASE i # Activation
      <4>1. PICK j \in DOMAIN conts : conts[j].from = i
        BY <2>2, <3>1, <3>3 DEF ContsOK
      <4> QED BY <2>2, <4>1
    <3> QED BY <3>2, <3>3
  <2>9. conts' # <<>> /\ Current'.phase = "ready" => Current'.source = serial'
    BY <2>1, <2>2, <2>3
  <2> QED BY <2>4, <2>7, <2>8, <2>9 DEF ContsOK
<1> QED BY <1>1, <1>3, <1>4, <1>5, ContsMove

-----------------------------------------------------------------------------
(* The seals and the files.                                                *)

\* While a body writes or a stop is read, the visible names hold the body's own inodes.
LEMMA UnsealedIsFresh ==
  ASSUME SealsOK, FilesOK, stop # "none" \/ body \/ state = "resolving"
  PROVE  ckpt[serial] = Nothing /\ ~Open /\ Fresh
BY DEF SealsOK, FilesOK

\* The three effects of a thread, in the terms of the generation it works on.
Linking(n, r) ==
  /\ dir' = [dir EXCEPT ![<<serial, r>>] = Own(r)] /\ bytes' = bytes
  /\ dir[<<0, r>>] = Own(r) /\ n \in {1, 2}
Unlinking(n, r) ==
  /\ dir' = [dir EXCEPT ![<<0, r>>] = Nothing] /\ bytes' = bytes
  /\ dir[<<0, r>>] = Own(r) /\ Kept(r) /\ n \in {4, 5}
Copying(n, r) ==
  /\ dir' = [dir EXCEPT ![<<0, r>>] = Copy(r)]
  /\ bytes' = [bytes EXCEPT ![Copy(r)] = bytes[Own(r)]]
  /\ dir[<<0, r>>] = Nothing /\ \A q \in Roles : Kept(q)
  /\ \/ n = 7 /\ r = "payload"
     \/ n = 8 /\ r = "control"

\* The only thread that acts: what it checked holds, and it is at work on the last body.
LEMMA ActMoves ==
  ASSUME Typed, SealsOK, FilesOK, ThreadsOK, NEW o \in Owners, Act(o)
  PROVE  /\ Open /\ serial < MaxSerial /\ Alive(o)
         /\ \E r \in Roles : \/ Linking(thread[o].n, r) \/ Unlinking(thread[o].n, r)
                             \/ Copying(thread[o].n, r)
<1>1. Alive(o) /\ Open /\ Checked(thread[o].n) /\ Effect(thread[o].n)
  BY DEF Act, ThreadsOK
<1>2. serial < MaxSerial /\ ckpt[serial] # Nothing
  BY <1>1 DEF SealsOK
<1>3. \A r \in Roles : Origin[r].ino = Own(r)
  <2>1. Origin = SealedAs(serial)
    BY <1>1, <1>2, NameShapes, Bounds DEF Origin, Open, SealsOK, Typed
  <2> QED BY <2>1 DEF SealedAs, Own
<1>4. /\ \A r \in Roles : Visible[r] = <<0, r>> /\ Keep[r] = <<serial, r>>
      /\ Current.source = serial
  BY <1>1, NameShapes DEF Keep, Open, Typed
<1>5. "payload" \in Roles /\ "control" \in Roles
  BY DEF Roles
<1>6. thread[o].n \in {1, 2, 4, 5, 7, 8}
  <2>1. thread[o].n \in 1..9 /\ thread[o].n \notin {3, 6, 9}
    BY DEF Act, Alive, Phases
  <2> QED BY <2>1
<1>7. ASSUME NEW n \in {1, 2}, NEW r \in Roles, r = RoleOf(n), Checked(n), Effect(n)
      PROVE  Linking(n, r)
  <2>1. IsVisible(<<0, r>>, Origin[r], 1)
    <3>1. CASE n = 1
      BY <1>4, <1>7, <3>1 DEF Checked, PairIs
    <3>2. CASE n = 2
      <4>1. r = "control"
        BY <1>7, <3>2 DEF RoleOf
      <4> QED BY <1>4, <1>7, <3>2, <4>1 DEF Checked
    <3> QED BY <3>1, <3>2
  <2>2. dir' = [dir EXCEPT ![<<serial, r>>] = dir[<<0, r>>]] /\ bytes' = bytes
    <3>1. dir' = [dir EXCEPT ![Keep[RoleOf(n)]] = dir[Visible[RoleOf(n)]]] /\ bytes' = bytes
      BY <1>7 DEF Effect, Link
    <3> QED BY <1>4, <1>7, <3>1
  <2>3. dir[<<0, r>>] = Own(r)
    BY <1>3, <2>1, FactIno
  <2> QED BY <2>2, <2>3 DEF Linking
<1>8. ASSUME NEW n \in {4, 5}, NEW r \in Roles, r = RoleOf(n), Checked(n), Effect(n)
      PROVE  Unlinking(n, r)
  <2>1. IsVisible(<<0, r>>, Origin[r], 2) /\ IsVisible(<<serial, r>>, Origin[r], 2)
    <3>1. IsVisible(Visible[RoleOf(n)], Origin[RoleOf(n)], 2)
          /\ IsVisible(Keep[RoleOf(n)], Origin[RoleOf(n)], 2)
      BY <1>8 DEF Checked
    <3> QED BY <1>4, <1>8, <3>1
  <2>2. dir' = [dir EXCEPT ![<<0, r>>] = Nothing] /\ bytes' = bytes
    <3>1. dir' = [dir EXCEPT ![Visible[RoleOf(n)]] = Nothing] /\ bytes' = bytes
      BY <1>8 DEF Effect, Unlink
    <3> QED BY <1>4, <1>8, <3>1
  <2>3. dir[<<0, r>>] = Own(r) /\ Kept(r)
    BY <1>3, <2>1, FactIno DEF Kept
  <2> QED BY <2>2, <2>3 DEF Unlinking
<1>9. ASSUME NEW n \in {7, 8}, NEW r \in Roles, r = RoleOf(n),
             Effect(n), \A q \in Roles : Kept(q)
      PROVE  Copying(n, r)
  <2>1. /\ dir[Visible[r]] = Nothing
        /\ dir' = [dir EXCEPT ![Visible[r]] = <<Current.source + 1, r>>]
        /\ bytes' = [bytes EXCEPT ![<<Current.source + 1, r>>] = bytes[dir[Keep[r]]]]
    BY <1>9 DEF Effect, CopyBack
  <2>2. dir[Keep[r]] = Own(r)
    BY <1>4, <1>9 DEF Kept
  <2>3. \/ n = 7 /\ r = "payload"
        \/ n = 8 /\ r = "control"
    BY <1>9 DEF RoleOf
  <2>4. /\ dir' = [dir EXCEPT ![<<0, r>>] = Copy(r)]
        /\ bytes' = [bytes EXCEPT ![Copy(r)] = bytes[Own(r)]]
        /\ dir[<<0, r>>] = Nothing
    BY <1>4, <2>1, <2>2 DEF Copy
  <2> QED BY <1>9, <2>3, <2>4 DEF Copying
<1>10. CASE thread[o].n \in {1, 2, 4, 5}
  <2>1. RoleOf(thread[o].n) \in Roles
    BY <1>5 DEF RoleOf
  <2> QED BY <1>1, <1>2, <1>7, <1>8, <1>10, <2>1
<1>11. CASE thread[o].n = 7
  <2>1. \A q \in Roles : IsVisible(<<serial, q>>, Origin[q], 1)
    BY <1>1, <1>4, <1>11 DEF Checked, PairIs
  <2>2. \A q \in Roles : Kept(q)
    BY <1>3, <2>1, FactIno DEF Kept
  <2> QED BY <1>1, <1>2, <1>5, <1>9, <1>11, <2>2 DEF RoleOf
<1>12. CASE thread[o].n = 8
  <2>1. dir[<<0, "payload">>] = Copy("payload")
    BY <1>1, <1>12 DEF ThreadsOK
  <2>2. \A q \in Roles : Kept(q)
    BY <1>5, <2>1 DEF FilesOK
  <2> QED BY <1>1, <1>2, <1>5, <1>9, <1>12, <2>2 DEF RoleOf
<1> QED BY <1>6, <1>10, <1>11, <1>12

\* A prepared pair is safe from every step of a thread.
LEMMA ActIsNotPrepared ==
  ASSUME Typed, SealsOK, FilesOK, ThreadsOK, NEW o \in Owners, Act(o)
  PROVE  ~Prepared
<1>1. \A r \in Roles : Own(r) # Copy(r) /\ Nothing # Copy(r)
  BY NameShapes DEF Own, Copy, Nothing, Typed
<1> QED BY <1>1, ActMoves DEF Prepared, Linking, Unlinking, Copying

LEMMA SealsHold ==
  ASSUME Typed, SealsOK, ContsOK, FilesOK, ThreadsOK, [Next]_vars
  PROVE  SealsOK'
<1>0. serial \in 1..MaxSerial /\ DOMAIN ckpt = 1..MaxSerial /\ MaxSerial \in Nat
      /\ bytes \in [Inodes -> 0..MaxWrites]
  BY Bounds DEF Typed, JobTyped, FilesTyped
<1>1. CASE Steady
  <2>1. Open' <=> Open
    BY <1>1, StillOpen DEF Steady
  <2>2. UNCHANGED <<bytes, serial, ckpt>>
    BY <1>1 DEF Steady
  <2>3. \A s : SealedAs(s)' = SealedAs(s)
    BY <2>2 DEF SealedAs
  <2> QED BY <1>1, <2>1, <2>2, <2>3 DEF Steady, SealsOK
<1>2. CASE Stopped
  <2>1. Open' <=> Open
    BY <1>2, StillOpen DEF Stopped
  <2>2. ckpt[serial] = Nothing
    BY <1>2 DEF Stopped, SealsOK
  <2>3. \A s : SealedAs(s)' = SealedAs(s)
    BY <1>2 DEF SealedAs, Stopped
  <2> QED BY <1>2, <2>1, <2>2, <2>3 DEF Stopped, SealsOK
<1>3. CASE Sealed
  <2>1. ~Open /\ Fresh
    BY <1>3, UnsealedIsFresh DEF Sealed
  <2>2. Open' <=> Open
    BY <1>3, StillOpen DEF Sealed
  <2>3. PairFacts(Visible) = SealedAs(serial)
    <3>1. ASSUME NEW r \in Roles
          PROVE Fact(Visible[r]) = [ino |-> <<serial, r>>, bytes |-> bytes[<<serial, r>>]]
      <4>1. Visible[r] = <<0, r>> /\ dir[<<0, r>>] = <<serial, r>> /\ <<serial, r>> # Nothing
        BY <2>1, NameShapes DEF Fresh, Own, Typed, Nothing
      <4> QED BY <4>1 DEF Fact
    <3> QED BY <3>1 DEF PairFacts, SealedAs
  <2>4. \A s : SealedAs(s)' = SealedAs(s)
    BY <1>3 DEF SealedAs, Sealed
  <2>5. PICK e, r : ckpt' = [ckpt EXCEPT ![serial] = [epoch |-> e, rev |-> r, facts |-> PairFacts(Visible)]]
    BY <1>3 DEF Sealed
  <2>6. ckpt'[serial] # Nothing /\ ckpt'[serial].facts = SealedAs(serial)
    BY <1>0, <2>3, <2>5 DEF Nothing
  <2>7. \A s \in 1..MaxSerial : s # serial => ckpt'[s] = ckpt[s]
    BY <1>0, <2>5
  <2>8. serial' = serial /\ stop' = "none" /\ ~body' /\ state' # "resolving"
    BY <1>3 DEF Sealed
  <2> QED BY <1>0, <2>1, <2>2, <2>4, <2>6, <2>7, <2>8 DEF SealsOK
<1>4. CASE Granted
  <2>1. \A s : SealedAs(s)' = SealedAs(s)
    BY <1>4 DEF SealedAs, Granted
  <2> QED BY <1>4, <2>1 DEF Granted, SealsOK
<1>5. CASE StartBody
  <2>1. Open' <=> Open
    BY <1>5, StillOpen DEF StartBody, saved
  <2>2. \A s : SealedAs(s)' = SealedAs(s)
    BY <1>5 DEF SealedAs, StartBody, files
  <2> QED BY <1>5, <2>1, <2>2 DEF StartBody, SealsOK, saved, files
<1>6. ASSUME NEW r \in Roles, BodyWrite(r) PROVE SealsOK'
  <2>1. ckpt[serial] = Nothing /\ ~Open /\ Fresh
    BY <1>6, UnsealedIsFresh DEF BodyWrite
  <2>2. UNCHANGED <<serial, conts, ckpt, stop, body, state>>
    BY <1>6 DEF BodyWrite, job, saved
  <2>3. Open' <=> Open
    BY <2>2, StillOpen
  <2>4. ASSUME NEW s \in 1..MaxSerial, s # serial PROVE SealedAs(s)' = SealedAs(s)
    <3>1. bytes' = [bytes EXCEPT ![<<serial, r>>] = @ + 1]
      BY <1>6, <2>1, NameShapes DEF BodyWrite, Fresh, Own, Typed
    <3>2. \A q \in Roles : <<s, q>> \in Inodes /\ <<s, q>> # <<serial, r>>
      BY <2>4 DEF Inodes
    <3>3. \A q \in Roles : bytes'[<<s, q>>] = bytes[<<s, q>>]
      BY <1>0, <3>1, <3>2
    <3> QED BY <3>3 DEF SealedAs
  <2> QED BY <2>1, <2>2, <2>3, <2>4 DEF SealsOK
<1>7. ASSUME NEW o \in Owners, Admit(o) PROVE SealsOK'
  <2>1. Open /\ Open' = FALSE /\ serial' = serial + 1
    BY <1>7, AdmitCloses
  <2>2. UNCHANGED <<ckpt, bytes, stop, body>>
    BY <1>7 DEF Admit, files
  <2>3. ckpt[serial] # Nothing /\ serial < MaxSerial /\ stop = "none" /\ ~body
    BY <2>1 DEF SealsOK
  <2>4. \A s : SealedAs(s)' = SealedAs(s)
    BY <2>2 DEF SealedAs
  <2>5. ckpt'[serial'] = Nothing
    BY <1>0, <2>1, <2>2, <2>3 DEF SealsOK
  <2>6. \A s \in 1..MaxSerial : (s < serial' => ckpt'[s] # Nothing) /\ (s > serial' => ckpt'[s] = Nothing)
    <3> SUFFICES ASSUME NEW s \in 1..MaxSerial
                 PROVE (s < serial' => ckpt'[s] # Nothing) /\ (s > serial' => ckpt'[s] = Nothing)
      OBVIOUS
    <3>1. s < serial' => s < serial \/ s = serial
      BY <1>0, <2>1
    <3>2. s > serial' => s > serial
      BY <1>0, <2>1
    <3> QED BY <2>2, <2>3, <3>1, <3>2 DEF SealsOK
  <2> QED BY <2>1, <2>2, <2>3, <2>4, <2>5, <2>6 DEF SealsOK
<1>8. ASSUME NEW o \in Owners, Act(o) PROVE SealsOK'
  <2>1. UNCHANGED <<serial, conts, ckpt, stop, body, state>>
    BY <1>8 DEF Act, job, saved
  <2>2. Open' <=> Open
    BY <2>1, StillOpen
  <2>3. ASSUME NEW s \in 1..MaxSerial, s <= serial PROVE SealedAs(s)' = SealedAs(s)
    <3>1. ASSUME NEW q \in Roles PROVE bytes'[<<s, q>>] = bytes[<<s, q>>]
      <4>1. <<s, q>> \in Inodes
        BY DEF Inodes
      <4>2. \A r \in Roles : <<s, q>> # Copy(r)
        BY <1>0, <2>3 DEF Copy
      <4>3. bytes' = bytes \/ \E r \in Roles : bytes' = [bytes EXCEPT ![Copy(r)] = bytes[Own(r)]]
        BY <1>8, ActMoves DEF Linking, Unlinking, Copying
      <4> QED BY <1>0, <4>1, <4>2, <4>3
    <3> QED BY <3>1 DEF SealedAs
  <2>4. \A s \in 1..MaxSerial : s <= serial \/ s > serial
    BY <1>0
  <2> QED BY <2>1, <2>2, <2>3, <2>4 DEF SealsOK
<1> QED BY <1>1, <1>2, <1>3, <1>4, <1>5, <1>6, <1>7, <1>8, Kinds

LEMMA FilesStay ==
  ASSUME FilesOK, UNCHANGED <<dir, bytes, serial>>, Open => Open',
         state' = "resolving" => state = "resolving"
  PROVE  FilesOK'
BY DEF FilesOK, Fresh, Kept, Own, Copy

LEMMA FilesHold ==
  ASSUME Typed, SealsOK, ContsOK, FilesOK, ThreadsOK, [Next]_vars
  PROVE  FilesOK'
<1>0. /\ serial \in Nat /\ serial > 0 /\ serial <= MaxSerial /\ MaxSerial \in Nat
      /\ dir \in [Names -> Inodes \cup {Nothing}] /\ bytes \in [Inodes -> 0..MaxWrites]
  BY NameShapes, Bounds DEF Typed, FilesTyped
<1>1. CASE Steady
  BY <1>1, StillOpen, FilesStay DEF Steady
<1>2. CASE Stopped
  BY <1>2, StillOpen, FilesStay DEF Stopped
<1>3. CASE Sealed
  BY <1>3, StillOpen, FilesStay DEF Sealed
<1>4. CASE Granted
  BY <1>4, GrantOpens, FilesStay DEF Granted
<1>5. CASE StartBody
  BY <1>5, StillOpen, FilesStay DEF StartBody, files, saved
<1>6. ASSUME NEW r \in Roles, BodyWrite(r) PROVE FilesOK'
  <2>1. Fresh /\ state # "resolving"
    BY <1>6, UnsealedIsFresh DEF BodyWrite, SealsOK
  <2>2. UNCHANGED <<dir, serial, state>>
    BY <1>6 DEF BodyWrite, job
  <2>3. \A q \in Roles : Own(q) # Copy(q) /\ Own(q) # Nothing
    BY <1>0 DEF Own, Copy, Nothing
  <2> QED BY <2>1, <2>2, <2>3 DEF FilesOK, Fresh, Kept, Own, Copy
<1>7. ASSUME NEW o \in Owners, Admit(o) PROVE FilesOK'
  <2>1. Open /\ serial' = serial + 1 /\ ReadyPair(Current)
    BY <1>7, AdmitCloses
  <2>2. UNCHANGED <<dir, bytes>>
    BY <1>7 DEF Admit, files
  <2>3. Prepared
    BY <2>1, ReadyIsPrepared
  <2>4. serial + 1 \in 1..MaxSerial
    BY <1>0, <2>1, Bounds DEF SealsOK
  <2>5. ASSUME NEW r \in Roles
        PROVE  /\ dir[<<0, r>>] = <<serial', r>> /\ dir[<<serial', r>>] = Nothing
               /\ bytes[<<serial', r>>] = bytes[<<serial, r>>]
    <3>1. dir[<<0, r>>] = <<serial + 1, r>> /\ dir[<<serial, r>>] = <<serial, r>>
      BY <2>3 DEF Prepared, Kept, Own, Copy
    <3>2. dir[<<serial + 1, r>>] = Nothing
      BY <1>0, <2>4 DEF FilesOK
    <3>3. bytes[<<serial + 1, r>>] = bytes[<<serial, r>>]
      BY <3>1 DEF FilesOK, Own, Copy
    <3> QED BY <2>1, <3>1, <3>2, <3>3
  <2>6. ASSUME NEW s \in 1..MaxSerial, NEW r \in Roles
        PROVE  (s < serial' => dir[<<s, r>>] = <<s, r>>) /\ (s > serial' => dir[<<s, r>>] = Nothing)
    <3>1. s < serial' => s < serial \/ s = serial
      BY <1>0, <2>1
    <3>2. s > serial' => s > serial
      BY <1>0, <2>1
    <3> QED BY <2>3, <3>1, <3>2 DEF Prepared, Kept, Own, FilesOK
  <2>7. \A r \in Roles : <<serial', r>> # Nothing /\ <<serial', r>> # <<serial' + 1, r>>
    BY <1>0, <2>1 DEF Nothing
  <2>8. serial' - 1 = serial
    BY <1>0, <2>1
  <2> QED BY <2>2, <2>5, <2>6, <2>7, <2>8 DEF FilesOK, Fresh, Kept, Own, Copy
<1>8. ASSUME NEW o \in Owners, Act(o) PROVE FilesOK'
  <2>1. UNCHANGED <<serial, conts, state>>
    BY <1>8 DEF Act, job, saved
  <2>2. Open /\ serial < MaxSerial
    BY <1>8, ActMoves
  <2>3. Open'
    BY <2>1, <2>2, StillOpen
  <2>4. state # "resolving"
    BY <2>2 DEF SealsOK
  <2>5. PICK r \in Roles : \/ Linking(thread[o].n, r) \/ Unlinking(thread[o].n, r)
                           \/ Copying(thread[o].n, r)
    BY <1>8, ActMoves
  <2>6. \A q \in Roles : /\ <<0, q>> \in Names /\ <<serial, q>> \in Names /\ Copy(q) \in Inodes
                         /\ Own(q) \in Inodes
    BY <1>0, <2>2 DEF Names, Inodes, Copy, Own
  <2>7. \A p, q \in Roles : /\ <<0, p>> # <<serial, q>> /\ Own(p) # Copy(q)
                            /\ Own(p) # Nothing /\ Copy(p) # Nothing
                            /\ p # q => Copy(p) # Copy(q) /\ <<0, p>> # <<0, q>>
                                        /\ <<serial, p>> # <<serial, q>>
    BY <1>0 DEF Copy, Own, Nothing
  <2>8. ASSUME NEW s \in 1..MaxSerial, NEW q \in Roles, s # serial
        PROVE  dir'[<<s, q>>] = dir[<<s, q>>]
    <3>1. <<s, q>> \in Names /\ <<s, q>> # <<0, r>> /\ <<s, q>> # <<serial, r>>
      BY <2>8 DEF Names
    <3> QED BY <1>0, <2>5, <3>1 DEF Linking, Unlinking, Copying
  <2>9. ASSUME NEW s \in 1..MaxSerial, NEW q \in Roles
        PROVE  (s < serial => dir'[<<s, q>>] = <<s, q>>) /\ (s > serial => dir'[<<s, q>>] = Nothing)
    <3>1. (s < serial => dir[<<s, q>>] = <<s, q>>) /\ (s > serial => dir[<<s, q>>] = Nothing)
      BY DEF FilesOK
    <3>2. s < serial \/ s > serial => s # serial
      BY <1>0
    <3> QED BY <2>8, <3>1, <3>2
  <2>10. ASSUME NEW q \in Roles
         PROVE  /\ dir'[<<0, q>>] \in {Nothing, Own(q), Copy(q)}
                /\ dir'[<<serial, q>>] \in {Nothing, Own(q)}
                /\ dir'[<<0, q>>] = Own(q) \/ dir'[<<serial, q>>] = Own(q)
                /\ dir'[<<0, q>>] = Copy(q) =>
                      /\ \A p \in Roles : dir'[<<serial, p>>] = Own(p)
                      /\ bytes'[Copy(q)] = bytes'[Own(q)]
    <3>1. /\ dir[<<0, q>>] \in {Nothing, Own(q), Copy(q)}
          /\ dir[<<serial, q>>] \in {Nothing, Own(q)}
          /\ dir[<<0, q>>] = Own(q) \/ dir[<<serial, q>>] = Own(q)
          /\ dir[<<0, q>>] = Copy(q) =>
                /\ \A p \in Roles : dir[<<serial, p>>] = Own(p)
                /\ bytes[Copy(q)] = bytes[Own(q)]
      BY DEF FilesOK, Kept
    <3>2. CASE Linking(thread[o].n, r)
      BY <1>0, <2>6, <2>7, <3>1, <3>2 DEF Linking
    <3>3. CASE Unlinking(thread[o].n, r)
      BY <1>0, <2>6, <2>7, <3>1, <3>3 DEF Unlinking, Kept
    <3>4. CASE Copying(thread[o].n, r)
      <4>1. \A p \in Roles : dir'[<<serial, p>>] = Own(p)
        BY <1>0, <2>6, <2>7, <3>4 DEF Copying, Kept
      <4>2. bytes'[Own(q)] = bytes[Own(q)]
        BY <1>0, <2>6, <2>7, <3>4 DEF Copying
      <4>3. CASE q = r
        BY <1>0, <2>6, <2>7, <3>4, <4>1, <4>2, <4>3 DEF Copying
      <4>4. CASE q # r
        <5>1. dir'[<<0, q>>] = dir[<<0, q>>] /\ bytes'[Copy(q)] = bytes[Copy(q)]
          BY <1>0, <2>6, <2>7, <3>4, <4>4 DEF Copying
        <5> QED BY <3>1, <4>1, <4>2, <5>1
      <4> QED BY <4>3, <4>4
    <3> QED BY <2>5, <3>2, <3>3, <3>4
  <2>11. \A q \in Roles : Own(q)' = Own(q) /\ Copy(q)' = Copy(q)
    BY <2>1 DEF Own, Copy
  <2> QED BY <2>1, <2>3, <2>4, <2>9, <2>10, <2>11 DEF FilesOK, Kept
<1> QED BY <1>1, <1>2, <1>3, <1>4, <1>5, <1>6, <1>7, <1>8, Kinds

-----------------------------------------------------------------------------
(* A prepared pair is left alone.                                          *)

LEMMA PairStays ==
  ASSUME UNCHANGED <<dir, bytes>>, NEW row, Current' = row, ReadyPair(row)
  PROVE  ReadyPair(Current)'
<1>1. ASSUME NEW ino PROVE Links(ino)' = Links(ino)
  BY DEF Links
<1>2. ASSUME NEW name, NEW fact, IsVisible(name, fact, 1) PROVE IsVisible(name, fact, 1)'
  BY <1>1, <1>2 DEF IsVisible, Fact
<1>3. PairIs(Visible, row.evidence.candidates)'
  BY <1>2 DEF ReadyPair, PairIs, Visible
<1>4. PairIs(Retained[row.source], row.evidence.retained)'
  BY <1>2 DEF ReadyPair, PairIs, Retained
<1> QED BY <1>3, <1>4 DEF ReadyPair

LEMMA PairHold ==
  ASSUME Typed, SealsOK, ContsOK, FilesOK, PairOK, ThreadsOK, MailOK, [Next]_vars
  PROVE  PairOK'
<1>1. ASSUME UNCHANGED <<dir, bytes, serial, conts>> PROVE PairOK'
  <2>1. Current' = Current /\ (Open' <=> Open)
    BY <1>1 DEF Current, Activation, Open
  <2> QED BY <1>1, <2>1, PairStays DEF PairOK
<1>2. ASSUME UNCHANGED <<dir, bytes, serial>>, Relabelled PROVE PairOK'
  <2> SUFFICES ASSUME Open', Current'.phase = "ready" PROVE ReadyPair(Current)'
    BY DEF PairOK
  <2>1. conts # <<>> /\ Open
    BY <1>2, StillOpen DEF Relabelled
  <2>2. PICK row \in Conts :
          /\ conts' = [conts EXCEPT ![Activation] = row]
          /\ row.source = Current.source
          /\ row.phase = "ready" =>
               \/ Current.phase = "ready" /\ row.evidence = Current.evidence
               \/ /\ \E o \in Owners : mail[o] = "ready"
                  /\ row.evidence = [retained |-> PairFacts(Keep), candidates |-> PairFacts(Visible)]
    BY <1>2 DEF Relabelled
  <2>3. Current' = row /\ row.phase = "ready"
    BY <2>1, <2>2, RowReplaced
  <2>4. ReadyPair(row)
    <3>1. CASE Current.phase = "ready" /\ row.evidence = Current.evidence
      <4>1. ReadyPair(Current)
        BY <2>1, <3>1 DEF PairOK
      <4> QED BY <2>2, <2>3, <3>1, <4>1 DEF ReadyPair
    <3>2. CASE /\ \E o \in Owners : mail[o] = "ready"
               /\ row.evidence = [retained |-> PairFacts(Keep), candidates |-> PairFacts(Visible)]
      <4>1. Prepared
        BY <2>1, <3>2 DEF MailOK
      <4>2. PairIs(Retained[serial], PairFacts(Retained[serial])) /\ PairIs(Visible, PairFacts(Visible))
        BY <4>1, PreparedIsReady
      <4>3. row.source = serial /\ Keep = Retained[serial]
        BY <2>1, <2>2 DEF Open, Keep
      <4>4. row.evidence.retained = PairFacts(Retained[serial])
            /\ row.evidence.candidates = PairFacts(Visible)
        BY <3>2, <4>3
      <4> QED BY <2>3, <4>2, <4>3, <4>4 DEF ReadyPair
    <3> QED BY <2>2, <2>3, <3>1, <3>2
  <2> QED BY <1>2, <2>3, <2>4, PairStays
<1>3. CASE Granted
  <2> SUFFICES ASSUME Current'.phase = "ready" PROVE ReadyPair(Current)'
    BY DEF PairOK
  <2>1. PICK row \in Conts :
          /\ conts' = Append(conts, row) /\ row.source = serial
          /\ \/ row.phase = "intent"
             \/ /\ Open /\ Current.phase = "ready"
                /\ row.phase = "ready" /\ row.evidence = Current.evidence
    BY <1>3, NewRow
  <2>2. Current' = row
    BY <2>1, RowAdded
  <2>3. Open /\ Current.phase = "ready" /\ row.evidence = Current.evidence /\ row.phase = "ready"
    BY <2>1, <2>2
  <2>4. ReadyPair(Current) /\ Current.source = serial
    BY <2>3 DEF PairOK, Open
  <2>5. ReadyPair(row)
    BY <2>1, <2>3, <2>4 DEF ReadyPair
  <2>6. UNCHANGED <<dir, bytes>>
    BY <1>3 DEF Granted
  <2> QED BY <2>2, <2>5, <2>6, PairStays
<1>4. ASSUME NEW r \in Roles, BodyWrite(r) PROVE PairOK'
  <2>1. ~Open /\ UNCHANGED <<serial, conts>>
    BY <1>4, UnsealedIsFresh DEF BodyWrite, job, saved
  <2> QED BY <2>1, StillOpen DEF PairOK
<1>5. ASSUME NEW o \in Owners, Admit(o) PROVE PairOK'
  BY <1>5, AdmitCloses DEF PairOK
<1>6. ASSUME NEW o \in Owners, Act(o) PROVE PairOK'
  <2>1. Open /\ UNCHANGED conts
    BY <1>6, ActMoves DEF Act, saved
  <2>2. Current.phase # "ready"
    BY <1>6, <2>1, ReadyIsPrepared, ActIsNotPrepared DEF PairOK
  <2> QED BY <2>1, <2>2 DEF PairOK, Current, Activation
<1> QED BY <1>1, <1>2, <1>3, <1>4, <1>5, <1>6, Kinds
        DEF Steady, Stopped, Sealed, StartBody, saved, files

-----------------------------------------------------------------------------
(* The threads.                                                            *)

\* What a step does to the threads and to what they report.
ThreadsKept ==
  /\ thread' = thread
  /\ \/ mail' = mail
     \/ \E o \in Owners : Posted(o) /\ mail' = [mail EXCEPT ![o] = "acked"]
ThreadWorks(o) == StartPreparation(o) \/ Check(o) \/ Act(o) \/ Acknowledged(o) \/ GiveUp(o)
ThreadEnds(o) == Ended(o) /\ Retire(o)

LEMMA ThreadMoves ==
  ASSUME Typed, [Next]_vars
  PROVE  \/ ThreadsKept
         \/ \E o \in Owners : ThreadWorks(o) \/ ThreadEnds(o)
         \/ \E sealed \in BOOLEAN : ColdStart(sealed)
<1>1. CASE UNCHANGED vars
  BY <1>1 DEF vars, task, ThreadsKept
<1>2. ASSUME \E r \in Roles : BodyWrite(r) PROVE ThreadsKept
  BY <1>2 DEF BodyWrite, task, ThreadsKept
<1>3. CASE BodyCompletes \/ Resume \/ StartBody \/ AbortBody \/ ApplyEdit
  BY <1>3 DEF BodyCompletes, Resume, StartBody, AbortBody, ApplyEdit, task, ThreadsKept
<1>4. CASE Stopping
  BY <1>4 DEF Stopping, StartSeal, FinishSeal, task, ThreadsKept
<1>5. ASSUME Dispatching PROVE ThreadsKept \/ \E o \in Owners : ThreadWorks(o)
  BY <1>5 DEF Dispatching, Admit, task, ThreadsKept, ThreadWorks
<1>6. ASSUME Looping PROVE ThreadsKept \/ \E o \in Owners : ThreadEnds(o)
  <2>1. ASSUME Joined PROVE control \in Owners /\ ThreadEnds(control)
    BY <2>1 DEF Joined, ThreadEnds, Typed, ThreadsTyped
  <2>2. ASSUME NEW o \in Owners, PollPhase(o) PROVE ThreadsKept
    BY <2>2 DEF PollPhase, ThreadsKept
  <2>3. ASSUME NEW o \in Owners, Reap(o) PROVE ThreadEnds(o)
    BY <2>3 DEF Reap, ThreadEnds
  <2>4. ASSUME NEW o \in Owners, PassOver(o) PROVE ThreadsKept
    BY <2>4 DEF PassOver, task, ThreadsKept
  <2>5. ASSUME BeginPass PROVE ThreadsKept
    BY <2>5 DEF BeginPass, task, ThreadsKept
  <2> QED BY <1>6, <2>1, <2>2, <2>3, <2>4, <2>5 DEF Looping
<1>7. CASE Controls
  BY <1>7 DEF Controls, Pause, CloseGate, StopForEdit, OpenGate, JoinTimeout, AcceptEdit, task,
              ThreadsKept
<1> QED BY <1>1, <1>2, <1>3, <1>4, <1>5, <1>6, <1>7 DEF Next, Preparing, ThreadWorks

\* What a thread relies on is left alone while it lives.
LEMMA GroundKept ==
  ASSUME Typed, SealsOK, ContsOK, FilesOK, ThreadsOK, [Next]_vars,
         NEW p \in Owners, Alive(p), ~\E o \in Owners : Act(o)
  PROVE  Open /\ Open' /\ UNCHANGED <<dir, bytes, serial>> /\ ckpt'[serial] = ckpt[serial]
<1>1. Open
  BY DEF ThreadsOK
<1>2. ~Sealed /\ ~(\E r \in Roles : BodyWrite(r))
  BY <1>1 DEF Sealed, BodyWrite, SealsOK
<1>3. ~\E o \in Owners : Admit(o)
  BY DEF Admit, MayDispatch, LaneFree
<1>4. CASE Granted
  BY <1>1, <1>4, GrantOpens DEF Granted
<1>5. CASE Steady \/ Stopped \/ StartBody
  BY <1>1, <1>5, StillOpen DEF Steady, Stopped, StartBody, saved, files
<1> QED BY <1>2, <1>3, <1>4, <1>5, Kinds

LEMMA CheckedStays ==
  ASSUME Open, Open', UNCHANGED <<dir, bytes, serial>>, ckpt'[serial] = ckpt[serial],
         NEW n, Checked(n)
  PROVE  Checked(n)'
<1>1. Origin' = Origin /\ Keep' = Keep /\ Current'.source = Current.source
  BY DEF Open, Origin, Keep
<1>2. ASSUME NEW ino PROVE Links(ino)' = Links(ino)
  BY DEF Links
<1>3. ASSUME NEW name, NEW fact, NEW links, IsVisible(name, fact, links)
      PROVE  IsVisible(name, fact, links)'
  BY <1>2, <1>3 DEF IsVisible, Fact
<1>4. CASE n = 1 /\ PairIs(Visible, Origin) /\ \A r \in Roles : dir[Keep[r]] = Nothing
  <2>1. PairIs(Visible, Origin)'
    BY <1>1, <1>3, <1>4 DEF PairIs, Visible
  <2>2. \A r \in Roles : dir'[Keep'[r]] = Nothing
    BY <1>1, <1>4
  <2> QED BY <1>4, <2>1, <2>2 DEF Checked
<1>5. CASE n = 2 /\ IsVisible(Visible["control"], Origin["control"], 1)
  <2>1. IsVisible(Visible["control"], Origin["control"], 1)'
    BY <1>1, <1>3, <1>5 DEF Visible
  <2> QED BY <1>5, <2>1 DEF Checked
<1>6. CASE n = 3 /\ \A r \in Roles : IsVisible(Keep[r], Origin[r], 2)
  <2>1. (\A r \in Roles : IsVisible(Keep[r], Origin[r], 2))'
    BY <1>1, <1>3, <1>6
  <2> QED BY <1>6, <2>1 DEF Checked
<1>7. CASE /\ n \in {4, 5}
           /\ IsVisible(Visible[RoleOf(n)], Origin[RoleOf(n)], 2)
           /\ IsVisible(Keep[RoleOf(n)], Origin[RoleOf(n)], 2)
  <2>1. /\ IsVisible(Visible[RoleOf(n)], Origin[RoleOf(n)], 2)'
        /\ IsVisible(Keep[RoleOf(n)], Origin[RoleOf(n)], 2)'
    BY <1>1, <1>3, <1>7 DEF Visible
  <2> QED BY <1>7, <2>1 DEF Checked
<1>8. CASE n \in {6, 7, 9} /\ PairIs(Keep, Origin)
  <2>1. PairIs(Keep, Origin)'
    BY <1>1, <1>3, <1>8 DEF PairIs
  <2> QED BY <1>8, <2>1 DEF Checked
<1>9. CASE n = 8 /\ dir[Visible["payload"]] # Origin["payload"].ino
  <2>1. n = 8 /\ dir'[Visible["payload"]] # Origin'["payload"].ino
    BY <1>1, <1>9
  <2> QED BY <2>1 DEF Checked, Visible
<1> QED BY <1>4, <1>5, <1>6, <1>7, <1>8, <1>9 DEF Checked

\* The conditions on one thread.
OnCourse(o) ==
  Alive(o) => /\ Open
              /\ thread[o].armed => Checked(thread[o].n)
              /\ thread[o].n >= 8 => dir[<<0, "payload">>] = Copy("payload")
              /\ thread[o].n >= 9 => dir[<<0, "control">>] = Copy("control")
Reporting(o) == IF thread[o] = None THEN mail[o] = "none" ELSE conts # <<>>

LEMMA OtherStays ==
  ASSUME Typed, SealsOK, ContsOK, FilesOK, ThreadsOK, [Next]_vars, ~\E o \in Owners : Act(o),
         NEW p \in Owners, thread'[p] = thread[p]
  PROVE  OnCourse(p)' /\ (Alive(p)' <=> Alive(p))
<1>1. Alive(p)' <=> Alive(p)
  BY DEF Alive
<1>2. ASSUME Alive(p) PROVE OnCourse(p)'
  <2>1. Open /\ Open' /\ UNCHANGED <<dir, bytes, serial>> /\ ckpt'[serial] = ckpt[serial]
    BY <1>2, GroundKept
  <2>2. PICK n : n = thread[p].n
    OBVIOUS
  <2>3. \A r : Copy(r)' = Copy(r)
    BY <2>1 DEF Copy
  <2>4. thread[p].armed => Checked(n)'
    BY <1>2, <2>1, <2>2, CheckedStays DEF ThreadsOK
  <2>5. (thread[p].armed => Checked(thread[p].n))'
    BY <2>2, <2>4
  <2>6. /\ thread'[p].n >= 8 => dir'[<<0, "payload">>] = Copy("payload")'
        /\ thread'[p].n >= 9 => dir'[<<0, "control">>] = Copy("control")'
    BY <1>2, <2>1, <2>3 DEF ThreadsOK
  <2> QED BY <2>1, <2>5, <2>6 DEF OnCourse
<1> QED BY <1>1, <1>2 DEF OnCourse

LEMMA ContsStay ==
  ASSUME Typed, SealsOK, ThreadsOK, [Next]_vars, conts # <<>>
  PROVE  conts' # <<>>
<1>1. CASE Granted
  <2>1. PICK r \in Nat : conts' = Append(conts, Continuation(r))
    BY <1>1 DEF Granted
  <2>2. conts \in Seq(Conts)
    BY DEF Typed, ContsTyped
  <2>3. Len(conts) \in Nat /\ conts' # <<>>
    BY <2>1, <2>2, AppendProperties, LenProperties, EmptySeq
  <2> QED BY <2>3
<1>2. ASSUME NEW o \in Owners, Admit(o) PROVE conts' # <<>>
  BY <1>2, AdmitRelabels, RowReplaced
<1> QED BY <1>1, <1>2, ContsMove, StillOpen

\* The step of an acting thread takes it one further, and no other thread lives.
LEMMA ActAdvances ==
  ASSUME Typed, SealsOK, ContsOK, FilesOK, ThreadsOK, NEW o \in Owners, Act(o)
  PROVE  /\ thread' = [thread EXCEPT ![o] = [n |-> thread[o].n + 1, armed |-> FALSE]]
         /\ Open' /\ mail' = mail /\ conts' = conts /\ serial' = serial
         /\ thread[o].n \in {1, 2, 4, 5, 7, 8}
         /\ thread[o].n \in {7, 8} => dir'[<<0, "payload">>] = Copy("payload")
         /\ thread[o].n = 8 => dir'[<<0, "control">>] = Copy("control")
<1>1. /\ thread' = [thread EXCEPT ![o] = [n |-> thread[o].n + 1, armed |-> FALSE]]
      /\ UNCHANGED <<mail, conts, serial>>
  BY DEF Act, NextStep, job, saved
<1>2. Open /\ Open' /\ serial < MaxSerial
  BY <1>1, ActMoves DEF Open, Current, Activation
<1>3. thread[o].n \in {1, 2, 4, 5, 7, 8}
  <2>1. thread[o].n \in 1..9 /\ thread[o].n \notin {3, 6, 9}
    BY DEF Act, Alive, Phases
  <2> QED BY <2>1
<1>4. PICK r \in Roles : \/ Linking(thread[o].n, r) \/ Unlinking(thread[o].n, r)
                         \/ Copying(thread[o].n, r)
  BY ActMoves
<1>5. /\ <<0, "payload">> \in Names /\ <<0, "control">> \in Names
      /\ dir \in [Names -> Inodes \cup {Nothing}]
  BY Bounds DEF Typed, FilesTyped, Names, Roles
<1>6. ASSUME thread[o].n \in {7, 8} PROVE Copying(thread[o].n, r)
  BY <1>4, <1>6 DEF Linking, Unlinking
<1>7. ASSUME thread[o].n = 7 PROVE dir'[<<0, "payload">>] = Copy("payload")
  <2>1. r = "payload" /\ dir' = [dir EXCEPT ![<<0, r>>] = Copy(r)]
    BY <1>6, <1>7 DEF Copying
  <2> QED BY <1>5, <2>1
<1>8. ASSUME thread[o].n = 8
      PROVE dir'[<<0, "payload">>] = Copy("payload") /\ dir'[<<0, "control">>] = Copy("control")
  <2>1. r = "control" /\ dir' = [dir EXCEPT ![<<0, r>>] = Copy(r)]
    BY <1>6, <1>8 DEF Copying
  <2>2. dir[<<0, "payload">>] = Copy("payload")
    <3>1. Alive(o)
      BY DEF Act
    <3> QED BY <1>8, <3>1 DEF ThreadsOK
  <2> QED BY <1>5, <2>1, <2>2
<1> QED BY <1>1, <1>2, <1>3, <1>7, <1>8

LEMMA ThreadsHold ==
  ASSUME Typed, SealsOK, ContsOK, FilesOK, ThreadsOK, [Next]_vars
  PROVE  ThreadsOK'
<1>0. /\ thread \in [Owners -> [n : 0..Failed, armed : BOOLEAN]]
      /\ mail \in [Owners -> Mails]
  BY DEF Typed, ThreadsTyped
<1>1. ASSUME \A o, p \in Owners : Alive(o)' /\ Alive(p)' => o = p,
             \A o \in Owners : OnCourse(o)' /\ Reporting(o)'
      PROVE  ThreadsOK'
  BY <1>1 DEF ThreadsOK, OnCourse, Reporting
<1>2. conts # <<>> => conts' # <<>>
  BY ContsStay
<1>3. \A o \in Owners : Reporting(o)
  BY DEF ThreadsOK, Reporting
<1>4. \A o, p \in Owners : Alive(o) /\ Alive(p) => o = p
  BY DEF ThreadsOK
<1>5. ASSUME NEW o \in Owners, Act(o)
      PROVE  /\ \A p, q \in Owners : Alive(p)' /\ Alive(q)' => p = q
             /\ \A p \in Owners : OnCourse(p)' /\ Reporting(p)'
  <2>1. /\ thread' = [thread EXCEPT ![o] = [n |-> thread[o].n + 1, armed |-> FALSE]]
        /\ Open' /\ mail' = mail /\ conts' = conts /\ serial' = serial
        /\ thread[o].n \in {1, 2, 4, 5, 7, 8}
        /\ thread[o].n \in {7, 8} => dir'[<<0, "payload">>] = Copy("payload")
        /\ thread[o].n = 8 => dir'[<<0, "control">>] = Copy("control")
    BY <1>5, ActAdvances
  <2>2. Alive(o)
    BY <1>5 DEF Act
  <2>3. thread'[o] = [n |-> thread[o].n + 1, armed |-> FALSE]
    BY <1>0, <2>1
  <2>4. ASSUME NEW p \in Owners, p # o PROVE ~Alive(p)' /\ thread'[p] = thread[p]
    <3>1. ~Alive(p) /\ thread'[p] = thread[p]
      BY <1>0, <1>4, <2>1, <2>2, <2>4
    <3> QED BY <3>1 DEF Alive
  <2>5. OnCourse(o)'
    <3>1. Copy("payload")' = Copy("payload") /\ Copy("control")' = Copy("control")
      BY <2>1 DEF Copy
    <3>2. thread'[o].n >= 8 => thread[o].n \in {7, 8}
      BY <2>1, <2>3
    <3>3. thread'[o].n >= 9 => thread[o].n = 8
      BY <2>1, <2>3
    <3>4. ~thread'[o].armed
      BY <2>3
    <3> QED BY <2>1, <3>1, <3>2, <3>3, <3>4 DEF OnCourse
  <2>6. Reporting(o)'
    <3>1. thread[o] # None /\ thread'[o] # None
      BY <2>1, <2>3 DEF None
    <3> QED BY <1>2, <1>3, <3>1 DEF Reporting
  <2>7. ASSUME NEW p \in Owners, p # o PROVE OnCourse(p)' /\ Reporting(p)'
    BY <1>3, <2>1, <2>4, <2>7 DEF OnCourse, Reporting
  <2> QED BY <2>4, <2>5, <2>6, <2>7
<1>6. CASE ThreadsKept /\ ~\E o \in Owners : Act(o)
  <2>1. \A o \in Owners : OnCourse(o)' /\ (Alive(o)' <=> Alive(o))
    BY <1>6, OtherStays DEF ThreadsKept
  <2>2. ASSUME NEW o \in Owners PROVE Reporting(o)'
    <3>1. mail[o] = "none" => mail'[o] = "none"
      BY <1>0, <1>6 DEF ThreadsKept, Posted
    <3> QED BY <1>2, <1>3, <1>6, <3>1 DEF Reporting, ThreadsKept
  <2> QED BY <1>1, <1>4, <2>1, <2>2
<1>7. ASSUME NEW o \in Owners, ~\E p \in Owners : Act(p),
             \A p \in Owners \ {o} : thread'[p] = thread[p] /\ mail'[p] = mail[p],
             Alive(o)' => Alive(o) \/ \A p \in Owners : ~Alive(p),
             OnCourse(o)', Reporting(o)'
      PROVE  /\ \A p, q \in Owners : Alive(p)' /\ Alive(q)' => p = q
             /\ \A p \in Owners : OnCourse(p)' /\ Reporting(p)'
  <2>1. \A p \in Owners \ {o} : OnCourse(p)' /\ (Alive(p)' <=> Alive(p))
    BY <1>7, OtherStays
  <2>2. \A p \in Owners \ {o} : Reporting(p)'
    BY <1>2, <1>3, <1>7 DEF Reporting
  <2> QED BY <1>4, <1>7, <2>1, <2>2
<1>8. ASSUME NEW o \in Owners, StartPreparation(o), ~\E p \in Owners : Act(p)
      PROVE  ThreadsOK'
  <2>1. /\ thread' = [thread EXCEPT ![o] = [n |-> 1, armed |-> FALSE]]
        /\ mail' = [mail EXCEPT ![o] = "none"] /\ UNCHANGED <<conts, serial>>
        /\ Open /\ conts # <<>> /\ \A p \in Owners : ~Alive(p)
    BY <1>8 DEF StartPreparation, MayDispatch, LaneFree, Consented, Open, job, saved
  <2>2. Open'
    BY <2>1, StillOpen
  <2>3. thread'[o].n = 1 /\ thread'[o].armed = FALSE
    BY <1>0, <2>1
  <2>4. OnCourse(o)'
    BY <2>2, <2>3 DEF OnCourse
  <2>5. Reporting(o)'
    BY <2>1, <2>3 DEF Reporting, None
  <2> QED BY <1>0, <1>1, <1>7, <1>8, <2>1, <2>4, <2>5
<1>9. ASSUME NEW o \in Owners, Check(o), ~\E p \in Owners : Act(p)
      PROVE  ThreadsOK'
  <2>1. /\ thread' = [thread EXCEPT ![o].armed = TRUE]
        /\ mail' = [mail EXCEPT ![o] = IF thread[o].n \in Phases THEN PhaseAt[thread[o].n] ELSE @]
        /\ Alive(o) /\ Checked(thread[o].n)
    BY <1>9 DEF Check
  <2>2. thread'[o].n = thread[o].n
    BY <1>0, <2>1
  <2>3. Open /\ Open' /\ UNCHANGED <<dir, bytes, serial>> /\ ckpt'[serial] = ckpt[serial]
    BY <1>9, <2>1, GroundKept
  <2>4. PICK n : n = thread[o].n
    OBVIOUS
  <2>5. Checked(n)'
    BY <2>1, <2>3, <2>4, CheckedStays
  <2>6. Checked(thread[o].n)'
    BY <2>2, <2>4, <2>5
  <2>7. \A r : Copy(r)' = Copy(r)
    BY <2>3 DEF Copy
  <2>8. OnCourse(o)'
    BY <2>1, <2>2, <2>3, <2>6, <2>7 DEF OnCourse, ThreadsOK
  <2>9. Reporting(o)'
    <3>1. thread[o].n # 0 /\ thread[o] # None /\ thread'[o] # None
      BY <2>1, <2>2 DEF Alive, None
    <3> QED BY <1>2, <1>3, <3>1 DEF Reporting
  <2> QED BY <1>0, <1>1, <1>7, <1>9, <2>1, <2>8, <2>9
<1>10. ASSUME NEW o \in Owners, Acknowledged(o) \/ GiveUp(o), ~\E p \in Owners : Act(p)
       PROVE  ThreadsOK'
  <2>1. /\ Alive(o) /\ thread[o].n \in 1..9
        /\ \A p \in Owners \ {o} : thread'[p] = thread[p] /\ mail'[p] = mail[p]
    BY <1>0, <1>10 DEF Acknowledged, GiveUp, Alive
  <2>2. thread'[o].n \in {4, 7, Done, Failed} /\ ~thread'[o].armed
    BY <1>0, <1>10, <2>1 DEF Acknowledged, GiveUp, NextStep, Phases, Done
  <2>3. OnCourse(o)'
    <3>1. Open'
      BY <1>10, <2>1, GroundKept
    <3>2. Alive(o)' => thread'[o].n < 8
      BY <2>2 DEF Alive, Done, Failed
    <3> QED BY <2>2, <3>1, <3>2 DEF OnCourse, Done, Failed
  <2>4. Reporting(o)'
    <3>1. thread[o] # None /\ thread'[o] # None
      BY <2>1, <2>2 DEF None, Done, Failed
    <3> QED BY <1>2, <1>3, <3>1 DEF Reporting
  <2> QED BY <1>1, <1>7, <1>10, <2>1, <2>3, <2>4
<1>11. ASSUME NEW o \in Owners, ThreadEnds(o), ~\E p \in Owners : Act(p)
       PROVE  ThreadsOK'
  <2>1. /\ thread'[o] = None /\ mail'[o] = "none"
        /\ \A p \in Owners \ {o} : thread'[p] = thread[p] /\ mail'[p] = mail[p]
    BY <1>0, <1>11 DEF ThreadEnds, Retire
  <2>2. OnCourse(o)' /\ ~Alive(o)' /\ Reporting(o)'
    BY <2>1 DEF OnCourse, Alive, None, Reporting
  <2> QED BY <1>1, <1>7, <1>11, <2>1, <2>2
<1>12. ASSUME NEW sealed \in BOOLEAN, ColdStart(sealed) PROVE ThreadsOK'
  <2>1. \A o \in Owners : thread'[o] = None /\ mail'[o] = "none"
    BY <1>12 DEF ColdStart
  <2>2. \A o \in Owners : OnCourse(o)' /\ ~Alive(o)' /\ Reporting(o)'
    BY <2>1 DEF OnCourse, Alive, None, Reporting
  <2> QED BY <1>1, <2>2
<1> QED BY <1>1, <1>5, <1>6, <1>8, <1>9, <1>10, <1>11, <1>12, ThreadMoves DEF ThreadWorks

-----------------------------------------------------------------------------
(* The reports.                                                            *)

\* Only a check of the last phase posts the report that the pair is ready.
LEMMA ReadyIsPosted ==
  ASSUME Typed, [Next]_vars, NEW o \in Owners, mail'[o] = "ready"
  PROVE  mail[o] = "ready" \/ (Check(o) /\ thread[o].n = 9)
<1>0. mail \in [Owners -> Mails]
  BY DEF Typed, ThreadsTyped
<1>1. CASE ThreadsKept
  BY <1>0, <1>1 DEF ThreadsKept
<1>2. ASSUME NEW p \in Owners, Check(p) PROVE mail[o] = "ready" \/ (Check(o) /\ thread[o].n = 9)
  <2>1. mail' = [mail EXCEPT ![p] = IF thread[p].n \in Phases THEN PhaseAt[thread[p].n] ELSE @]
    BY <1>2 DEF Check
  <2>2. CASE p = o /\ thread[o].n \in Phases
    <3>1. PhaseAt[thread[o].n] = "ready"
      BY <1>0, <2>1, <2>2
    <3>2. thread[o].n = 9
      BY <2>2, <3>1 DEF PhaseAt, Phases
    <3> QED BY <1>2, <2>2, <3>2
  <2>3. CASE ~(p = o /\ thread[o].n \in Phases)
    BY <1>0, <2>1, <2>3
  <2> QED BY <2>2, <2>3
<1>3. ASSUME NEW p \in Owners, StartPreparation(p) \/ ThreadEnds(p) PROVE mail[o] = "ready"
  <2>1. mail' = [mail EXCEPT ![p] = "none"]
    BY <1>3 DEF StartPreparation, ThreadEnds, Retire
  <2> QED BY <1>0, <2>1
<1>4. ASSUME NEW p \in Owners, Acknowledged(p) PROVE mail[o] = "ready"
  <2>1. mail' = [mail EXCEPT ![p] = "none"]
    BY <1>4 DEF Acknowledged
  <2> QED BY <1>0, <2>1
<1>5. ASSUME NEW p \in Owners, Act(p) \/ GiveUp(p) PROVE mail[o] = "ready"
  BY <1>5 DEF Act, GiveUp
<1>6. ASSUME NEW sealed \in BOOLEAN, ColdStart(sealed) PROVE FALSE
  BY <1>6 DEF ColdStart
<1> QED BY <1>1, <1>2, <1>3, <1>4, <1>5, <1>6, ThreadMoves DEF ThreadWorks

\* What a step takes from the pass of the loop.
LEMMA DueMoves ==
  ASSUME Typed, [Next]_vars
  PROVE  \/ due' = due /\ ckpt' = ckpt /\ (stop' = "reading" => stop = "reading")
         \/ due' = Owners
         \/ \E p \in due : /\ due \ {p} \subseteq due'
                           /\ mail'[p] # "ready" \/ (p = host /\ stop # "none")
         \/ \E sealed \in BOOLEAN : ColdStart(sealed)
<1> DEFINE Same == due' = due /\ ckpt' = ckpt /\ (stop' = "reading" => stop = "reading")
           Taken == \E p \in due : /\ due \ {p} \subseteq due'
                                   /\ mail'[p] # "ready" \/ (p = host /\ stop # "none")
<1>0. due \subseteq Owners /\ mail \in [Owners -> Mails]
  BY DEF Typed, ThreadsTyped
<1>1. CASE UNCHANGED vars
  BY <1>1 DEF vars, saved, loop
<1>2. ASSUME \E r \in Roles : BodyWrite(r) PROVE Same
  BY <1>2 DEF BodyWrite, saved, loop
<1>3. ASSUME BodyCompletes \/ Resume \/ StartBody \/ AbortBody \/ ApplyEdit PROVE Same
  BY <1>3 DEF BodyCompletes, Resume, StartBody, AbortBody, ApplyEdit, saved, loop
<1>4. ASSUME Stopping PROVE Taken
  <2>1. Polled(host) /\ stop # "none"
    BY <1>4 DEF Stopping, StartSeal, FinishSeal
  <2> QED BY <2>1 DEF Polled
<1>5. ASSUME Dispatching PROVE Same
  BY <1>5 DEF Dispatching, StartPreparation, Admit, saved, loop
<1>6. ASSUME NEW o \in Owners, Preparing(o) PROVE Same
  BY <1>6 DEF Preparing, Check, Act, Acknowledged, GiveUp, saved, loop
<1>7. ASSUME Looping PROVE Same \/ due' = Owners \/ Taken
  <2>1. ASSUME BeginPass PROVE due' = Owners
    BY <2>1 DEF BeginPass
  <2>2. ASSUME Joined PROVE Same
    BY <2>2 DEF Joined
  <2>3. ASSUME NEW o \in Owners, PassOver(o) PROVE Taken
    <3>1. mail' = mail /\ mail[o] # "ready" /\ o \in due /\ due' = due \ {o}
      BY <2>3 DEF PassOver, Posted, Polled, task
    <3> QED BY <3>1
  <2>4. ASSUME NEW o \in Owners, PollPhase(o) PROVE Taken
    <3>1. mail'[o] # "ready" /\ o \in due /\ due \ {o} \subseteq due'
      BY <1>0, <2>4 DEF PollPhase
    <3> QED BY <3>1
  <2>5. ASSUME NEW o \in Owners, Reap(o) PROVE Taken
    <3>1. mail'[o] # "ready" /\ o \in due /\ due' = due \ {o}
      BY <1>0, <2>5 DEF Reap, Retire, Polled
    <3> QED BY <3>1
  <2> HIDE DEF Same, Taken
  <2> QED BY <1>7, <2>1, <2>2, <2>3, <2>4, <2>5 DEF Looping
<1>8. ASSUME Controls PROVE Same
  BY <1>8 DEF Controls, Pause, CloseGate, StopForEdit, OpenGate, JoinTimeout, AcceptEdit, Revoke,
              StopBody, saved, loop
<1> HIDE DEF Same, Taken
<1>9. Same \/ due' = Owners \/ Taken \/ \E sealed \in BOOLEAN : ColdStart(sealed)
  BY <1>1, <1>2, <1>3, <1>4, <1>5, <1>6, <1>7, <1>8 DEF Next, Same, vars, saved, loop
<1> QED BY <1>9 DEF Same, Taken

LEMMA HostStays ==
  ASSUME [Next]_vars
  PROVE  host' = host \/ \E o \in Owners : Admit(o)
<1>1. ASSUME NEW keep, NEW captured, StopBody(keep, captured) PROVE host' = host
  BY <1>1 DEF StopBody
<1>2. CASE UNCHANGED vars \/ \E r \in Roles : BodyWrite(r)
  BY <1>2 DEF vars, BodyWrite, job
<1>3. CASE BodyCompletes \/ Resume \/ StartBody \/ AbortBody \/ ApplyEdit \/ Stopping
  BY <1>3 DEF BodyCompletes, Resume, StartBody, AbortBody, ApplyEdit, Stopping, StartSeal,
              FinishSeal, job
<1>4. CASE Dispatching
  BY <1>4 DEF Dispatching, StartPreparation, job
<1>5. ASSUME NEW o \in Owners, Preparing(o) PROVE host' = host
  BY <1>5 DEF Preparing, Check, Act, Acknowledged, GiveUp, job
<1>6. CASE Looping
  BY <1>6 DEF Looping, BeginPass, Joined, PassOver, PollPhase, Reap, job
<1>7. CASE Controls
  BY <1>1, <1>7 DEF Controls, Pause, CloseGate, StopForEdit, OpenGate, JoinTimeout, AcceptEdit,
                    Revoke, job
<1>8. ASSUME NEW sealed, ColdStart(sealed) PROVE host' = host
  BY <1>8 DEF ColdStart
<1> QED BY <1>2, <1>3, <1>4, <1>5, <1>6, <1>7, <1>8 DEF Next

\* A writing body, an unread stop or a dispatch that begins is one that was there, or an admission.
LEMMA NothingStarts ==
  ASSUME Typed, ThreadsOK, SealsOK, [Next]_vars,
         body' \/ stop' # "none" \/ state' = "resolving", ~\E o \in Owners : Admit(o)
  PROVE  body \/ stop # "none" \/ state = "resolving"
BY Kinds DEF Steady, Stopped, Sealed, Granted, StartBody, BodyWrite, Act, job

\* Which steps leave a prepared pair prepared.
LEMMA PreparedStays ==
  ASSUME Typed, SealsOK, ContsOK, FilesOK, ThreadsOK, [Next]_vars, Open, Open', Prepared
  PROVE  Prepared'
<1>1. ~\E o \in Owners : Admit(o) \/ Act(o)
  BY AdmitCloses, ActIsNotPrepared
<1>2. ~\E r \in Roles : BodyWrite(r)
  BY UnsealedIsFresh DEF BodyWrite
<1>3. UNCHANGED <<dir, serial>>
  BY <1>1, <1>2, Kinds DEF Steady, Stopped, Sealed, Granted, StartBody, job, files
<1> QED BY <1>3 DEF Prepared, Kept, Own, Copy

LEMMA OpenMoves ==
  ASSUME Typed, SealsOK, ContsOK, ThreadsOK, [Next]_vars
  PROVE  \/ (Open' <=> Open) /\ UNCHANGED serial
         \/ ~Open /\ Granted
         \/ Open /\ ~Open' /\ \E o \in Owners : Admit(o)
<1>1. CASE Granted
  BY <1>1, GrantOpens DEF Granted
<1>2. CASE \E o \in Owners : Admit(o)
  BY <1>2, AdmitCloses
<1>3. CASE UNCHANGED <<conts, serial>> \/ (Relabelled /\ UNCHANGED serial)
  BY <1>3, StillOpen
<1> QED BY <1>1, <1>2, <1>3, ContsMove

\* A report that a pair is ready is true while the consent it answers is the last one, and is
\* taken by the loop before the next: whatever may lead to a consent waits for the pass.
Reported(o) ==
  /\ Open => Prepared
  /\ ~Open /\ (due # {} \/ stop = "reading" \/ ckpt[serial] # Nothing) => o \in due

LEMMA NewReport ==
  ASSUME Typed, SealsOK, ContsOK, FilesOK, ThreadsOK, [Next]_vars,
         NEW o \in Owners, Check(o), thread[o].n = 9
  PROVE  Reported(o)'
<1>1. Alive(o) /\ Open /\ Checked(9)
  BY DEF Check, ThreadsOK
<1>2. ~\E p \in Owners : Act(p)
  <2>1. ASSUME NEW p \in Owners, Act(p) PROVE FALSE
    <3>1. Alive(p) /\ thread[p].armed /\ ~thread[o].armed
      BY <2>1 DEF Act, Check
    <3> QED BY <1>1, <3>1 DEF ThreadsOK
  <2> QED BY <2>1
<1>3. Open'
  BY <1>1, <1>2, GroundKept
<1>4. Prepared
  <2>1. ckpt[serial] # Nothing /\ serial \in 1..MaxSerial
    BY <1>1 DEF SealsOK, Typed, JobTyped
  <2>2. \A r \in Roles : Origin[r].ino = Own(r)
    <3>1. Origin = SealedAs(serial)
      BY <1>1, <2>1 DEF SealsOK, Origin, Open
    <3> QED BY <3>1 DEF SealedAs, Own
  <2>3. \A r \in Roles : Keep[r] = <<serial, r>>
    BY <1>1, NameShapes DEF Keep, Open, Typed
  <2>4. PairIs(Keep, Origin)
    BY <1>1 DEF Checked
  <2>5. \A r \in Roles : Kept(r)
    BY <2>2, <2>3, <2>4, FactIno DEF PairIs, Kept
  <2>6. dir[<<0, "payload">>] = Copy("payload") /\ dir[<<0, "control">>] = Copy("control")
    BY <1>1 DEF ThreadsOK
  <2> QED BY <2>5, <2>6 DEF Prepared, Roles
<1>5. Prepared'
  BY <1>1, <1>3, <1>4, PreparedStays
<1> QED BY <1>3, <1>5 DEF Reported

LEMMA OldReport ==
  ASSUME Typed, SealsOK, ContsOK, FilesOK, ThreadsOK, MailOK, [Next]_vars,
         NEW o \in Owners, mail[o] = "ready", mail'[o] = "ready"
  PROVE  Reported(o)'
<1>1. Reported(o)
  BY DEF MailOK, Reported
<1>2. ~\E sealed \in BOOLEAN : ColdStart(sealed)
  <2>1. ASSUME NEW sealed, ColdStart(sealed) PROVE FALSE
    BY <2>1 DEF ColdStart
  <2> QED BY <2>1
<1>3. CASE Open /\ Open'
  BY <1>1, <1>3, PreparedStays DEF Reported
<1>4. CASE ~Open /\ Granted
  <2>1. o \in due /\ due = {}
    BY <1>1, <1>4 DEF Reported, Granted
  <2> QED BY <2>1
<1>5. CASE Open /\ ~Open' /\ \E p \in Owners : Admit(p)
  <2>1. PICK p \in Owners : Admit(p)
    BY <1>5
  <2>2. due' = {} /\ stop' # "reading" /\ ckpt' = ckpt /\ serial' = serial + 1
    BY <2>1 DEF Admit, MayDispatch, LoopFree, LaneFree, loop
  <2>3. serial \in Nat /\ serial < MaxSerial /\ MaxSerial \in Nat
    BY <1>5, NameShapes, Bounds DEF Typed, SealsOK
  <2>4. ckpt'[serial'] = Nothing
    <3>1. serial + 1 \in 1..MaxSerial /\ serial + 1 > serial
      BY <2>3
    <3> QED BY <2>2, <3>1 DEF SealsOK
  <2> QED BY <1>5, <2>2, <2>4 DEF Reported
<1>6. CASE ~Open /\ ~Open' /\ UNCHANGED serial
  <2> SUFFICES ASSUME due' # {} \/ stop' = "reading" \/ ckpt'[serial] # Nothing PROVE o \in due'
    BY <1>6 DEF Reported
  <2>1. CASE due' = due /\ ckpt' = ckpt /\ (stop' = "reading" => stop = "reading")
    BY <1>1, <1>6, <2>1 DEF Reported
  <2>2. CASE due' = Owners
    BY <2>2
  <2>3. ASSUME NEW p \in due, due \ {p} \subseteq due',
               mail'[p] # "ready" \/ (p = host /\ stop # "none")
        PROVE  o \in due'
    <3>1. o \in due
      BY <1>1, <1>6, <2>3 DEF Reported
    <3>2. o # p
      BY <2>3 DEF MailOK
    <3> QED BY <2>3, <3>1, <3>2
  <2> QED BY <1>2, <2>1, <2>2, <2>3, DueMoves
<1> QED BY <1>3, <1>4, <1>5, <1>6, OpenMoves

LEMMA MailHold ==
  ASSUME Typed, SealsOK, ContsOK, FilesOK, ThreadsOK, MailOK, [Next]_vars
  PROVE  MailOK'
<1>1. ASSUME NEW o \in Owners, mail'[o] = "ready" PROVE Reported(o)'
  BY <1>1, ReadyIsPosted, NewReport, OldReport
<1>2. ASSUME body' \/ stop' # "none" \/ state' = "resolving" PROVE mail'[host'] # "ready"
  <2>1. ASSUME NEW o \in Owners, Admit(o) PROVE mail'[host'] # "ready"
    <3>1. host' = o /\ mail' = mail /\ thread[o] = None
      BY <2>1 DEF Admit, MayDispatch, Spare, Idle, task
    <3>2. mail[o] = "none"
      BY <3>1 DEF ThreadsOK
    <3> QED BY <3>1, <3>2
  <2>2. ASSUME ~\E o \in Owners : Admit(o) PROVE mail'[host'] # "ready"
    <3>1. body \/ stop # "none" \/ state = "resolving"
      BY <1>2, <2>2, NothingStarts
    <3>2. host' = host /\ host \in Owners /\ mail[host] # "ready"
      BY <2>2, <3>1, HostStays DEF MailOK, Typed, JobTyped
    <3>3. ~Check(host)
      BY <3>1, <3>2, UnsealedIsFresh DEF Check, ThreadsOK
    <3> QED BY <3>2, <3>3, ReadyIsPosted
  <2> QED BY <2>1, <2>2
<1> QED BY <1>1, <1>2 DEF MailOK, Reported

-----------------------------------------------------------------------------
(* Types.                                                                  *)

LEMMA StopBodyTyped ==
  ASSUME JobTyped, NEW keep \in BOOLEAN, NEW captured, StopBody(keep, captured), ckpt' = ckpt,
         held' \in BOOLEAN
  PROVE  JobTyped'
<1>1. rev + 1 \in Nat \ {0} /\ rev \in Nat \ {0}
  BY DEF JobTyped
<1>2. /\ body' = FALSE /\ state' = "paused" /\ rev' = rev + 1 /\ wanted' = keep
      /\ UNCHANGED <<epoch, serial, host>> /\ stop' \in {"waiting", stop}
  BY DEF StopBody
<1> QED BY <1>1, <1>2 DEF JobTyped

LEMMA JobHold ==
  ASSUME Typed, SealsOK, ThreadsOK, [Next]_vars
  PROVE  JobTyped'
<1> USE DEF JobTyped
<1>0. JobTyped /\ rev + 1 \in Nat \ {0} /\ rev + 2 \in Nat \ {0}
  BY DEF Typed
<1>1. CASE UNCHANGED vars
  BY <1>0, <1>1 DEF vars, job, saved
<1>2. ASSUME NEW r \in Roles, BodyWrite(r) PROVE JobTyped'
  BY <1>0, <1>2 DEF BodyWrite, job, saved
<1>3. CASE BodyCompletes \/ StartBody \/ AbortBody
  BY <1>0, <1>3 DEF BodyCompletes, StartBody, AbortBody, saved
<1>4. CASE StartSeal
  BY <1>0, <1>4 DEF StartSeal, job, saved
<1>5. ASSUME NEW read, FinishSeal(read) PROVE JobTyped'
  BY <1>0, <1>5 DEF FinishSeal, Seal, job
<1>6. CASE Resume
  BY <1>0, <1>6 DEF Resume, Consent
<1>7. ASSUME NEW o \in Owners, StartPreparation(o) PROVE JobTyped'
  BY <1>0, <1>7 DEF StartPreparation, job, saved
<1>8. ASSUME NEW o \in Owners, Admit(o) PROVE JobTyped'
  <2>1. serial' = serial + 1 /\ serial < MaxSerial /\ serial \in Nat /\ MaxSerial \in Nat
    <3>1. Open /\ serial' = serial + 1
      BY <1>8, AdmitCloses
    <3>2. serial < MaxSerial
      BY <3>1 DEF SealsOK
    <3>3. serial \in Nat
      BY <1>0, Bounds
    <3> QED BY <3>1, <3>2, <3>3, Bounds
  <2> QED BY <1>0, <1>8, <2>1 DEF Admit
<1>9. ASSUME NEW o \in Owners, Preparing(o) PROVE JobTyped'
  BY <1>0, <1>9 DEF Preparing, Check, Act, Acknowledged, GiveUp, job, saved
<1>10. CASE Looping
  <2>1. ASSUME FailPreparation PROVE /\ rev' \in Nat \ {0} /\ state' \in {state, "paused"}
                                     /\ wanted' \in BOOLEAN
    BY <1>0, <2>1 DEF FailPreparation
  <2> QED BY <1>0, <1>10, <2>1 DEF Looping, BeginPass, Joined, PassOver, PollPhase, Reap, job, saved
<1>11. CASE Controls
  <2>1. ASSUME NEW captured, Pause(captured) PROVE JobTyped'
    BY <1>0, <2>1, StopBodyTyped DEF Pause, Revoke, job, saved
  <2>2. ASSUME NEW captured, CloseGate(captured) PROVE JobTyped'
    BY <1>0, <2>2, StopBodyTyped DEF CloseGate, Revoke, job, saved
  <2>3. ASSUME NEW captured, StopForEdit(captured) PROVE JobTyped'
    BY <1>0, <2>3, StopBodyTyped DEF StopForEdit, saved
  <2>4. ASSUME OpenGate \/ JoinTimeout \/ AcceptEdit PROVE JobTyped'
    BY <1>0, <2>4 DEF OpenGate, JoinTimeout, AcceptEdit, job, saved
  <2> QED BY <1>11, <2>1, <2>2, <2>3, <2>4 DEF Controls
<1>12. CASE ApplyEdit
  BY <1>0, <1>12 DEF ApplyEdit, Consent
<1>13. ASSUME NEW sealed, ColdStart(sealed) PROVE JobTyped'
  <2>1. epoch' \in 1..MaxEpoch
    BY <1>0, <1>13, Bounds DEF ColdStart
  <2> QED BY <1>0, <1>13, <2>1 DEF ColdStart, Seal
<1> QED BY <1>1, <1>2, <1>3, <1>4, <1>5, <1>6, <1>7, <1>8, <1>9, <1>10, <1>11, <1>12, <1>13
        DEF Next, Stopping, Dispatching

LEMMA FilesTypedHold ==
  ASSUME Typed, SealsOK, FilesOK, ThreadsOK, [Next]_vars
  PROVE  FilesTyped'
<1>0. /\ dir \in [Names -> Inodes \cup {Nothing}] /\ bytes \in [Inodes -> 0..MaxWrites]
      /\ MaxWrites \in Nat
  BY Bounds DEF Typed, FilesTyped
<1>1. ASSUME NEW r \in Roles, BodyWrite(r) PROVE FilesTyped'
  <2>1. dir[Visible[r]] = Own(r) /\ Own(r) \in Inodes
    BY <1>1, UnsealedIsFresh, NameShapes DEF BodyWrite, Fresh, Own, Typed
  <2>2. bytes[Own(r)] \in 0..MaxWrites /\ bytes[Own(r)] < MaxWrites
    BY <1>0, <1>1, <2>1 DEF BodyWrite
  <2>3. bytes' = [bytes EXCEPT ![Own(r)] = bytes[Own(r)] + 1] /\ dir' = dir
    BY <1>1, <2>1 DEF BodyWrite
  <2>4. bytes[Own(r)] + 1 \in 0..MaxWrites
    BY <1>0, <2>2
  <2> QED BY <1>0, <2>1, <2>3, <2>4 DEF FilesTyped
<1>2. ASSUME NEW o \in Owners, Act(o) PROVE FilesTyped'
  <2>1. serial < MaxSerial
    BY <1>2, ActMoves
  <2>2. \A r \in Roles : Own(r) \in Inodes /\ Copy(r) \in Inodes
    BY <2>1, NameShapes DEF Own, Copy, Typed
  <2>3. PICK r \in Roles : \/ Linking(thread[o].n, r) \/ Unlinking(thread[o].n, r)
                           \/ Copying(thread[o].n, r)
    BY <1>2, ActMoves
  <2> QED BY <1>0, <2>2, <2>3 DEF FilesTyped, Linking, Unlinking, Copying
<1>3. ASSUME UNCHANGED files PROVE FilesTyped'
  BY <1>0, <1>3 DEF files, FilesTyped
<1> QED BY <1>1, <1>2, <1>3, Kinds DEF Steady, Stopped, Sealed, Granted, StartBody, Admit, files

LEMMA ThreadsTypedHold ==
  ASSUME Typed, [Next]_vars
  PROVE  ThreadsTyped'
<1>0. /\ thread \in [Owners -> [n : 0..Failed, armed : BOOLEAN]]
      /\ cancel \in [Owners -> BOOLEAN] /\ mail \in [Owners -> Mails]
      /\ control \in Owners \cup {0} /\ wedged \subseteq Owners /\ due \subseteq Owners
      /\ host \in Owners
  BY DEF Typed, ThreadsTyped, JobTyped
<1> USE DEF ThreadsTyped
<1>1. ASSUME UNCHANGED <<task, loop>> PROVE ThreadsTyped'
  BY <1>0, <1>1 DEF task, loop
<1>2. CASE UNCHANGED vars \/ BodyCompletes \/ Resume \/ StartBody \/ AbortBody \/ ApplyEdit
  BY <1>1, <1>2 DEF vars, BodyCompletes, Resume, StartBody, AbortBody, ApplyEdit
<1>3. ASSUME NEW r \in Roles, BodyWrite(r) PROVE ThreadsTyped'
  BY <1>1, <1>3 DEF BodyWrite
<1>4. CASE Stopping
  BY <1>0, <1>4 DEF Stopping, StartSeal, FinishSeal, Polled, task
<1>5. CASE Dispatching
  <2>1. ASSUME NEW o \in Owners, StartPreparation(o) PROVE ThreadsTyped'
    <3>1. [n |-> 1, armed |-> FALSE] \in [n : 0..Failed, armed : BOOLEAN] /\ "none" \in Mails
      BY DEF Failed, Mails
    <3> QED BY <1>0, <2>1, <3>1 DEF StartPreparation, loop
  <2>2. ASSUME NEW o \in Owners, Admit(o) PROVE ThreadsTyped'
    BY <1>1, <2>2 DEF Admit
  <2> QED BY <1>5, <2>1, <2>2 DEF Dispatching
<1>6. ASSUME NEW o \in Owners, Check(o) PROVE ThreadsTyped'
  <2>1. thread[o].n \in Phases => PhaseAt[thread[o].n] \in Mails
    BY DEF PhaseAt, Phases, Mails
  <2> QED BY <1>0, <1>6, <2>1 DEF Check, loop
<1>7. ASSUME NEW o \in Owners, Act(o) \/ Acknowledged(o) \/ GiveUp(o) PROVE ThreadsTyped'
  <2>1. /\ NextStep(o) \in [n : 0..Failed, armed : BOOLEAN]
        /\ [n |-> Failed, armed |-> FALSE] \in [n : 0..Failed, armed : BOOLEAN]
        /\ "none" \in Mails
    BY <1>7 DEF Act, Acknowledged, GiveUp, Alive, NextStep, Failed, Mails
  <2>2. /\ \/ thread' = [thread EXCEPT ![o] = NextStep(o)]
           \/ thread' = [thread EXCEPT ![o] = [n |-> Failed, armed |-> FALSE]]
        /\ mail' = mail \/ mail' = [mail EXCEPT ![o] = "none"]
        /\ UNCHANGED <<cancel, control, wedged, due>>
    BY <1>7 DEF Act, Acknowledged, GiveUp, loop
  <2>3. thread' \in [Owners -> [n : 0..Failed, armed : BOOLEAN]]
    BY <1>0, <2>1, <2>2
  <2>4. mail' \in [Owners -> Mails]
    BY <1>0, <2>1, <2>2
  <2> QED BY <1>0, <2>2, <2>3, <2>4
<1>8. CASE Looping
  <2>1. None \in [n : 0..Failed, armed : BOOLEAN] /\ "none" \in Mails /\ "acked" \in Mails
    BY DEF None, Failed, Mails
  <2>2. ASSUME BeginPass PROVE ThreadsTyped'
    BY <1>0, <2>2 DEF BeginPass, task
  <2>3. ASSUME Joined PROVE ThreadsTyped'
    BY <1>0, <2>1, <2>3 DEF Joined, Retire
  <2>4. ASSUME NEW o \in Owners, PassOver(o) PROVE ThreadsTyped'
    BY <1>0, <2>4 DEF PassOver, Polled, task
  <2>5. ASSUME NEW o \in Owners, PollPhase(o) PROVE ThreadsTyped'
    BY <1>0, <2>1, <2>5 DEF PollPhase
  <2>6. ASSUME NEW o \in Owners, Reap(o) PROVE ThreadsTyped'
    BY <1>0, <2>1, <2>6 DEF Reap, Retire, Polled
  <2> QED BY <1>8, <2>2, <2>3, <2>4, <2>5, <2>6 DEF Looping
<1>9. CASE Controls
  <2>1. \A o \in Owners : Revoke(o) => control' \in Owners /\ cancel' \in [Owners -> BOOLEAN]
    BY <1>0 DEF Revoke
  <2>2. ASSUME NEW captured, Pause(captured) PROVE ThreadsTyped'
    BY <1>0, <2>1, <2>2 DEF Pause, Preparers
  <2>3. ASSUME NEW captured, CloseGate(captured) PROVE ThreadsTyped'
    BY <1>0, <2>1, <2>3 DEF CloseGate, Preparers
  <2>4. ASSUME JoinTimeout PROVE ThreadsTyped'
    BY <1>0, <2>4 DEF JoinTimeout
  <2>5. ASSUME NEW captured, StopForEdit(captured) \/ OpenGate \/ AcceptEdit PROVE ThreadsTyped'
    BY <1>1, <2>5 DEF StopForEdit, OpenGate, AcceptEdit
  <2> QED BY <1>9, <2>2, <2>3, <2>4, <2>5 DEF Controls
<1>10. ASSUME NEW sealed, ColdStart(sealed) PROVE ThreadsTyped'
  <2>1. None \in [n : 0..Failed, armed : BOOLEAN] /\ "none" \in Mails
    BY DEF None, Failed, Mails
  <2> QED BY <1>10, <2>1 DEF ColdStart
<1> QED BY <1>2, <1>3, <1>4, <1>5, <1>6, <1>7, <1>8, <1>9, <1>10 DEF Next, Preparing

-----------------------------------------------------------------------------
(* The invariant is inductive.                                             *)

LEMMA InitHolds == Init => SavedInv
<1> SUFFICES ASSUME Init PROVE SavedInv
  OBVIOUS
<1> USE DEF Init
<1>1. 1 \in 1..MaxSerial /\ 1 \in 1..MaxEpoch /\ 1 \in Owners /\ 0 \in 0..MaxWrites
  BY Bounds DEF Owners
<1>2. JobTyped
  <2>1. {wanted, held, body} \subseteq BOOLEAN /\ rev \in Nat \ {0}
    <3>1. wanted = TRUE /\ held = FALSE /\ body = TRUE /\ rev = 1
      OBVIOUS
    <3> HIDE DEF Init
    <3>2. wanted \in BOOLEAN /\ held \in BOOLEAN /\ body \in BOOLEAN
      BY <3>1
    <3>3. rev \in Nat \ {0}
      BY <3>1
    <3>4. {wanted, held, body} \subseteq BOOLEAN
      BY <3>2
    <3> QED BY <3>3, <3>4
  <2>2. DOMAIN ckpt = 1..MaxSerial
    OBVIOUS
  <2> QED BY <1>1, <2>1, <2>2 DEF JobTyped
<1>3. FilesTyped
  <2>1. \A m \in Names : m[1] = 0 => <<1, m[2]>> \in Inodes
    BY <1>1 DEF Names, Inodes
  <2> QED BY <1>1, <2>1 DEF FilesTyped
<1>4. conts = <<>> /\ Len(conts) = 0 /\ conts \in Seq(Conts) /\ DOMAIN conts = {}
  <2>1. <<>> \in Seq(Conts) /\ Len(<<>>) = 0
    BY EmptySeq
  <2> QED BY <2>1
<1>5. Typed
  <2>1. None \in [n : 0..Failed, armed : BOOLEAN] /\ "none" \in Mails
    BY DEF None, Failed, Mails
  <2>2. ThreadsTyped
    BY <2>1 DEF ThreadsTyped
  <2> QED BY <1>2, <1>3, <1>4, <2>2, Bounds DEF Typed, ContsTyped
<1>6. ~Open
  BY <1>4 DEF Open
<1>7. SealsOK
  BY <1>1, <1>6, Bounds DEF SealsOK
<1>8. ContsOK
  BY <1>4 DEF ContsOK
<1>9. FilesOK
  <2>1. \A s \in 0..MaxSerial, r \in Roles :
          <<s, r>> \in Names /\ dir[<<s, r>>] = IF s = 0 THEN <<1, r>> ELSE Nothing
    BY DEF Names
  <2>2. \A s \in 1..MaxSerial : s \in 0..MaxSerial /\ s # 0 /\ ~(s < 1)
    BY Bounds
  <2>3. \A r \in Roles : dir[<<0, r>>] = <<1, r>> /\ dir[<<1, r>>] = Nothing
    <3>1. 0 \in 0..MaxSerial /\ 1 \in 0..MaxSerial
      BY <1>1, Bounds
    <3>2. \A r \in Roles : dir[<<0, r>>] = IF 0 = 0 THEN <<1, r>> ELSE Nothing
      BY <2>1, <3>1
    <3>3. \A r \in Roles : dir[<<1, r>>] = IF 1 = 0 THEN <<1, r>> ELSE Nothing
      BY <2>1, <3>1
    <3>4. ~(1 = 0)
      OBVIOUS
    <3> HIDE DEF Init
    <3> QED BY <3>2, <3>3, <3>4
  <2>4. \A r \in Roles : <<1, r>> # <<1 + 1, r>>
    OBVIOUS
  <2> QED BY <2>1, <2>2, <2>3, <2>4 DEF FilesOK, Own, Copy, Kept, Fresh
<1>10. PairOK
  BY <1>6 DEF PairOK
<1>11. ThreadsOK
  BY DEF ThreadsOK, Alive, None
<1>12. MailOK
  BY <1>1 DEF MailOK
<1> QED BY <1>5, <1>7, <1>8, <1>9, <1>10, <1>11, <1>12 DEF SavedInv

LEMMA SavedInvStep == SavedInv /\ [Next]_vars => SavedInv'
<1> SUFFICES ASSUME SavedInv, [Next]_vars PROVE SavedInv'
  OBVIOUS
<1>1. Typed /\ SealsOK /\ ContsOK /\ FilesOK /\ PairOK /\ ThreadsOK /\ MailOK
  BY DEF SavedInv
<1>2. Typed'
  BY <1>1, JobHold, FilesTypedHold, ContsHold, ThreadsTypedHold DEF Typed
<1>3. SealsOK' /\ FilesOK' /\ ContsOK'
  BY <1>1, SealsHold, FilesHold, ContsHold
<1>4. PairOK' /\ ThreadsOK' /\ MailOK'
  BY <1>1, PairHold, ThreadsHold, MailHold
<1> QED BY <1>2, <1>3, <1>4 DEF SavedInv

\* The relation of checkpoints, continuations, names, threads and reports that every operation
\* of store.py and every file operation of the preparing thread (paths.py) maintains.
THEOREM SavedInvariant == Spec => []SavedInv
BY InitHolds, SavedInvStep, PTL DEF Spec

-----------------------------------------------------------------------------
(* What it means for the sealed bytes.                                     *)

LEMMA TypesFollow == SavedInv => SavedTypeOK
<1> SUFFICES ASSUME SavedInv PROVE SavedTypeOK
  OBVIOUS
<1>1. JobTyped /\ FilesTyped /\ ContsTyped /\ ThreadsTyped /\ SealsOK
  BY DEF SavedInv, Typed
<1>2. ASSUME NEW s \in 1..MaxSerial, ckpt[s] # Nothing PROVE ckpt[s].facts \in [Roles -> Facts]
  <2>1. ckpt[s].facts = SealedAs(s)
    BY <1>1, <1>2 DEF SealsOK
  <2>2. \A r \in Roles : [ino |-> <<s, r>>, bytes |-> bytes[<<s, r>>]] \in Facts
    BY <1>1 DEF FilesTyped, Facts, Inodes
  <2> QED BY <2>1, <2>2 DEF SealedAs
<1>3. \A i \in DOMAIN conts : conts[i].phase \in Phase
  <2>1. DOMAIN conts = 1..Len(conts)
    BY <1>1, LenProperties DEF ContsTyped
  <2>2. \A i \in 1..Len(conts) : conts[i] \in Conts
    BY <1>1, ElementOfSeq DEF ContsTyped
  <2> QED BY <2>1, <2>2 DEF Conts
<1>4. \A o \in Owners : /\ thread[o].n \in 0..Failed
                        /\ mail[o] \in {"none", "acked", "linked", "retired", "ready"}
  BY <1>1 DEF ThreadsTyped, Mails
<1> QED BY <1>1, <1>2, <1>3, <1>4
        DEF SavedTypeOK, JobTyped, FilesTyped, ContsTyped, ThreadsTyped, Phase

LEMMA OriginalsFollow == SavedInv => OriginalsSurvive
<1> SUFFICES ASSUME SavedInv, NEW s \in 1..MaxSerial, ckpt[s] # Nothing, NEW r \in Roles
             PROVE  /\ Links(ckpt[s].facts[r].ino) > 0
                    /\ bytes[ckpt[s].facts[r].ino] = ckpt[s].facts[r].bytes
  BY DEF OriginalsSurvive
<1>1. SealsOK /\ FilesOK /\ JobTyped
  BY DEF SavedInv, Typed
<1>2. ckpt[s].facts[r] = [ino |-> <<s, r>>, bytes |-> bytes[<<s, r>>]]
  BY <1>1 DEF SealsOK, SealedAs
<1>3. s <= serial /\ (s < serial \/ s = serial)
  BY <1>1, Bounds DEF SealsOK, JobTyped
<1>4. \E m \in Names : dir[m] = <<s, r>>
  <2>1. <<0, r>> \in Names /\ <<s, r>> \in Names
    BY Bounds DEF Names
  <2>2. CASE s < serial
    BY <1>1, <2>1, <2>2 DEF FilesOK
  <2>3. CASE s = serial
    BY <1>1, <2>1, <2>3 DEF FilesOK, Kept, Own
  <2> QED BY <1>3, <2>2, <2>3
<1>5. Links(<<s, r>>) > 0
  BY <1>4, SomeName
<1> QED BY <1>2, <1>5

LEMMA PairsFollow == SavedInv => PreparedPairKept
<1> SUFFICES ASSUME SavedInv, NEW i \in DOMAIN conts, conts[i].phase = "ready",
                    i \in Leaves(conts[i].source)
             PROVE  ReadyPair(conts[i])
  BY DEF PreparedPairKept
<1>1. ContsOK /\ PairOK
  BY DEF SavedInv
<1>2. i = Activation
  BY <1>1 DEF ContsOK, Leaves
<1>3. Open /\ Current.phase = "ready"
  BY <1>1, <1>2 DEF Open, Current, ContsOK
<1> QED BY <1>1, <1>2, <1>3 DEF PairOK, Current

LEMMA StartsFollow == SavedInv => StartsFromSealedBytes
<1> SUFFICES ASSUME SavedInv, state = "resolving", serial > 1, NEW r \in Roles
             PROVE  /\ dir[<<0, r>>] # Nothing
                    /\ bytes[dir[<<0, r>>]] = ckpt[serial - 1].facts[r].bytes
                    /\ Links(dir[<<0, r>>]) = 1
  BY DEF StartsFromSealedBytes, Visible
<1>1. Typed /\ SealsOK /\ FilesOK
  BY DEF SavedInv
<1>2. Fresh
  BY <1>1, UnsealedIsFresh
<1>3. serial - 1 \in 1..MaxSerial /\ serial - 1 < serial
  BY <1>1, Bounds DEF Typed, JobTyped
<1>4. ckpt[serial - 1].facts[r].bytes = bytes[<<serial - 1, r>>]
  <2>1. ckpt[serial - 1].facts = SealedAs(serial - 1)
    BY <1>1, <1>3 DEF SealsOK
  <2> QED BY <2>1 DEF SealedAs
<1>5. bytes[Own(r)] = bytes[<<serial - 1, r>>]
  BY <1>1 DEF FilesOK
<1>6. dir[<<0, r>>] = Own(r) /\ Own(r) # Nothing
  BY <1>2 DEF Fresh, Own, Nothing
<1>7. Links(Own(r)) = 1
  <2>1. dir[<<serial, r>>] # Own(r)
    BY <1>2, <1>6 DEF Fresh
  <2>2. \A k \in Names : dir[k] = Own(r) => k = <<0, r>>
    BY <1>1, <2>1, OwnNames
  <2>3. <<0, r>> \in Names
    BY <1>1, NameShapes DEF Typed
  <2> QED BY <1>6, <2>2, <2>3, OneName
<1> QED BY <1>4, <1>5, <1>6, <1>7

\* From the stop of a body to the start of the next, through cancelled, failed, timed-out and
\* crashed preparations, the two sealed files keep a name and their bytes, a prepared pair stays
\* as certified, and the next body starts on unshared copies of exactly the sealed bytes.
THEOREM SealedBytes == Spec => []SealedBytesSurvive
<1>1. SavedInv => SealedBytesSurvive
  BY TypesFollow, OriginalsFollow, PairsFollow, StartsFollow DEF SealedBytesSurvive
<1> QED BY <1>1, SavedInvariant, PTL

-----------------------------------------------------------------------------
(* No late file operation.                                                 *)

\* A live thread works for a job that is still queued.
Quiet == \A o \in Owners : Alive(o) => state = "queued"

LEMMA AtMostOne ==
  ASSUME OnePreparation, NEW o \in Preparers, NEW p \in Preparers
  PROVE  o = p
<1>1. IsFiniteSet(Preparers)
  <2>1. IsFiniteSet(Owners) /\ Preparers \subseteq Owners
    BY Bounds, FS_Interval DEF Owners, Preparers
  <2> QED BY <2>1, FS_Subset
<1>2. Cardinality(Preparers) \in Nat /\ Cardinality(Preparers) <= 1 /\ Cardinality(Preparers) # 0
  BY <1>1, FS_CardinalityType, FS_EmptySet DEF OnePreparation
<1>3. Cardinality(Preparers) = 1
  BY <1>2
<1>4. PICK x : Preparers = {x}
  BY <1>1, <1>3, FS_Singleton
<1> QED BY <1>4

\* A queued job is moved on by an admission, by a control that found no thread, by the end of
\* its preparation, by a cold start, or by a body.
LEMMA QueuedMoves ==
  ASSUME Typed, [Next]_vars, state = "queued", state' # "queued"
  PROVE  \/ Preparers = {} \/ body
         \/ \E o \in Owners : Admit(o) \/ Ended(o)
         \/ \E sealed \in BOOLEAN : ColdStart(sealed)
<1>1. ASSUME NEW keep, NEW captured, StopBody(keep, captured) PROVE body
  BY <1>1 DEF StopBody
<1>2. ~UNCHANGED vars /\ ~(\E r \in Roles : BodyWrite(r)) /\ ~Stopping
  BY DEF vars, BodyWrite, Stopping, StartSeal, FinishSeal, job
<1>3. BodyCompletes => body
  BY DEF BodyCompletes
<1>4. ~Resume /\ ~StartBody /\ ~AbortBody
  BY DEF Resume, StartBody, AbortBody
<1>5. Dispatching => \E o \in Owners : Admit(o)
  BY DEF Dispatching, StartPreparation, job
<1>6. ASSUME NEW o \in Owners PROVE ~Preparing(o)
  BY DEF Preparing, Check, Act, Acknowledged, GiveUp, job
<1>7. Looping => \E o \in Owners : Ended(o)
  <2>1. Joined => control \in Owners /\ Ended(control)
    BY DEF Joined, Typed, ThreadsTyped
  <2>2. ASSUME NEW o \in Owners, Reap(o) PROVE Ended(o)
    BY <2>2 DEF Reap
  <2>3. ~BeginPass /\ \A o \in Owners : ~PassOver(o) /\ ~PollPhase(o)
    BY DEF BeginPass, PassOver, PollPhase, job
  <2> QED BY <2>1, <2>2, <2>3 DEF Looping
<1>8. Controls => Preparers = {} \/ body
  <2>1. ASSUME NEW captured, Pause(captured) PROVE Preparers = {} \/ body
    BY <2>1 DEF Pause, Revoke, job
  <2>2. ASSUME NEW captured, CloseGate(captured) PROVE Preparers = {} \/ body
    BY <2>2 DEF CloseGate, Revoke, job
  <2>3. ASSUME NEW captured, StopForEdit(captured) PROVE body
    BY <1>1, <2>3 DEF StopForEdit
  <2>4. ~OpenGate /\ ~JoinTimeout /\ ~AcceptEdit
    BY DEF OpenGate, JoinTimeout, AcceptEdit, job
  <2> QED BY <2>1, <2>2, <2>3, <2>4 DEF Controls
<1>9. ApplyEdit => Preparers = {}
  BY DEF ApplyEdit, EditMayApply
<1> QED BY <1>2, <1>3, <1>4, <1>5, <1>6, <1>7, <1>8, <1>9 DEF Next

LEMMA AliveMoves ==
  ASSUME Typed, [Next]_vars, NEW p \in Owners, Alive(p)'
  PROVE  Alive(p) \/ (state = "queued" /\ state' = "queued")
<1>0. thread \in [Owners -> [n : 0..Failed, armed : BOOLEAN]]
  BY DEF Typed, ThreadsTyped
<1>1. CASE ThreadsKept
  BY <1>1 DEF ThreadsKept, Alive
<1>2. ASSUME NEW o \in Owners, StartPreparation(o) PROVE state = "queued" /\ state' = "queued"
  BY <1>2 DEF StartPreparation, MayDispatch, Consented, job
<1>3. ASSUME NEW o \in Owners, Check(o) \/ Act(o) \/ Acknowledged(o) \/ GiveUp(o)
      PROVE  Alive(p)
  <2>1. Alive(o) /\ (p # o => thread'[p] = thread[p])
    BY <1>0, <1>3 DEF Check, Act, Acknowledged, GiveUp
  <2> QED BY <2>1 DEF Alive
<1>4. ASSUME NEW o \in Owners, ThreadEnds(o) PROVE Alive(p)
  <2>1. thread'[o] = None /\ (p # o => thread'[p] = thread[p])
    BY <1>0, <1>4 DEF ThreadEnds, Retire
  <2> QED BY <2>1 DEF Alive, None
<1>5. ASSUME NEW sealed, ColdStart(sealed) PROVE FALSE
  <2>1. thread'[p] = None
    BY <1>5 DEF ColdStart
  <2> QED BY <2>1 DEF Alive, None
<1> QED BY <1>1, <1>2, <1>3, <1>4, <1>5, ThreadMoves DEF ThreadWorks

LEMMA QuietStep == SavedInv /\ OnePreparation /\ Quiet /\ [Next]_vars => Quiet'
<1> SUFFICES ASSUME SavedInv, OnePreparation, Quiet, [Next]_vars, NEW p \in Owners, Alive(p)'
             PROVE  state' = "queued"
  BY DEF Quiet
<1>0. Typed /\ SealsOK /\ ThreadsOK
  BY DEF SavedInv
<1>1. CASE Alive(p)
  <2>1. state = "queued" /\ p \in Preparers
    BY <1>1 DEF Quiet, Preparers, Alive, None
  <2>2. ~body
    BY <1>0, <1>1 DEF ThreadsOK, SealsOK
  <2>3. ASSUME NEW o \in Owners, Admit(o) PROVE FALSE
    BY <1>1, <2>3 DEF Admit, MayDispatch, LaneFree
  <2>4. ASSUME NEW o \in Owners, Ended(o) PROVE FALSE
    <3>1. o \in Preparers
      BY <2>4 DEF Ended, Preparers, None, Done, Failed
    <3>2. o = p
      BY <2>1, <3>1, AtMostOne
    <3> QED BY <1>1, <2>4, <3>2 DEF Alive, Ended, Done, Failed
  <2>5. ASSUME NEW sealed, ColdStart(sealed) PROVE FALSE
    <3>1. thread'[p] = None
      BY <2>5 DEF ColdStart
    <3> QED BY <3>1 DEF Alive, None
  <2> QED BY <1>0, <2>1, <2>2, <2>3, <2>4, <2>5, QueuedMoves
<1>2. CASE ~Alive(p)
  BY <1>0, <1>2, AliveMoves
<1> QED BY <1>1, <1>2

LEMMA OnlyQueuedActs == SavedInv /\ Quiet /\ [Next]_vars => [dir' # dir => state = "queued"]_vars
<1> SUFFICES ASSUME SavedInv, Quiet, [Next]_vars, dir' # dir PROVE state = "queued"
  OBVIOUS
<1>1. Typed /\ SealsOK /\ ThreadsOK
  BY DEF SavedInv
<1>2. \E o \in Owners : Act(o)
  BY <1>1, Kinds DEF Steady, Stopped, Sealed, Granted, StartBody, BodyWrite, Admit, files
<1> QED BY <1>2 DEF Act, Quiet

LEMMA InitQuiet == Init => Quiet
BY DEF Init, Quiet, Alive, None

\* Once a pause, an edit or a restart has moved the job, its preparing thread performs no late
\* link, unlink or copy, as long as no two owners prepare the same pair (store.py selects and
\* commits one exact operation): that is the one way a thread outlives the consent it works for.
THEOREM NoLateOperation == Spec /\ []OnePreparation => QuietAfterControl
<1>1. Spec => []SavedInv
  BY SavedInvariant
<1> QED BY <1>1, InitQuiet, QuietStep, OnlyQueuedActs, PTL DEF Spec, QuietAfterControl

\* With a configured concurrency of one there is no second owner, and no thread acts on the
\* directory of a job that a control has moved on.
THEOREM OneOwnerIsQuiet == ASSUME Slots = 1 PROVE Spec => QuietAfterControl
<1>1. OnePreparation
  <2>1. Preparers = {} \/ Preparers = {1}
    BY DEF Preparers, Owners
  <2>2. Cardinality({}) = 0 /\ Cardinality({1}) = 1
    BY FS_EmptySet, FS_Singleton
  <2> QED BY <2>1, <2>2 DEF OnePreparation
<1> QED BY <1>1, NoLateOperation, PTL
=============================================================================
