------------------------ MODULE CommandReceiptsProofs ------------------------
(***************************************************************************)
(* Proofs about CommandReceipts, for any commands, identifiers, jobs and   *)
(* destinations and any derivation of a batch's entries.                   *)
(*                                                                         *)
(* The argument is in CommandInv: what a command did and what its sender   *)
(* was told is written in the one registry entry of its identifier, and an *)
(* entry, once there, is never given to another command.                   *)
(***************************************************************************)
EXTENDS CommandReceipts, TLAPS

-----------------------------------------------------------------------------
(* The inductive invariant.                                                *)

EditFence == [settled: BOOLEAN, epoch: 0..MaxEpoch, gen: 0..MaxEpoch, rev: 0..MaxRev]
DispatchResult ==
  [status: {"stale", "blocked", "pending", "started"}, rev: 0..MaxRev,
   state: {"none", "queued", "resolving", "downloading", "paused", "removed"}]
DispatchEntry == [cmd: Send("dispatch"), result: DispatchResult]

\* The jobs, the gate and the settings; no job was left by more workers than there were.
WorldOK ==
  /\ job \in [Jobs -> JobRow]
  /\ gate \in [value: {"paused", "running"}, rev: 0..MaxRev]
  /\ config \in 0..MaxRev /\ epoch \in 0..MaxEpoch
  /\ \A j \in Jobs : job[j].gen <= epoch

\* The registries are tables by identifier, the histories tables by command.
TablesOK ==
  /\ receipt = [i \in Ids |-> receipt[i]] /\ dispatch = [i \in Ids |-> dispatch[i]]
  /\ done \in [Commands -> {0, 1}] /\ told = [c \in Commands |-> told[c]]

\* A receipt is of a command with that identifier, or of an entry of a batch.
ReceiptOK(i) ==
  \/ receipt[i] = Nothing
  \/ receipt[i].cmd = ChildMark
  \/ /\ receipt[i].cmd \in Commands /\ receipt[i].cmd.id = i
     /\ receipt[i].cmd.surface # "dispatch"
     /\ receipt[i].cmd.surface = "edit" =>
          receipt[i] = Entry(receipt[i].cmd, receipt[i].result) /\ receipt[i].result \in EditFence

\* A dispatch is of a command with that identifier, which only an edit may share.
DispatchOK(i) ==
  \/ dispatch[i] = Nothing
  \/ /\ dispatch[i] \in DispatchEntry /\ dispatch[i].cmd.id = i
     /\ receipt[i] # Nothing => receipt[i].cmd.surface = "edit"
     /\ i = running => dispatch[i].result.status = "pending"

\* The owner loop executes a dispatch that is prepared and can still be settled.
RunningOK ==
  /\ running \in Ids \cup {None}
  /\ running # None =>
       dispatch[running] # Nothing /\ job[dispatch[running].cmd.job].rev < MaxRev

RegistryOK == /\ \A i \in Ids : ReceiptOK(i) /\ DispatchOK(i)
              /\ RunningOK

\* What a command did, and what its sender was told, is in its registry entry.
CommandOK(c) ==
  /\ c.surface \notin {"dispatch", "edit"} =>
       /\ done[c] = 1 => receipt[c.id].cmd = c
       /\ told[c] # None => receipt[c.id].cmd = c /\ told[c] = receipt[c.id].result
  /\ c.surface = "edit" =>
       /\ done[c] = 1 => receipt[c.id].cmd = c /\ receipt[c.id].result.settled
       /\ told[c] # None => told[c] = Pending
  /\ c.surface = "dispatch" =>
       /\ done[c] = 1 => dispatch[c.id].cmd = c /\ dispatch[c.id].result.status = "started"
       /\ told[c] # None =>
            /\ dispatch[c.id].cmd = c /\ dispatch[c.id].result.status # "pending"
            /\ told[c] = dispatch[c.id].result

\* No two jobs were added with the same destination.
AddedApart ==
  \A j, k \in Jobs : j # k /\ job[j].dest # None => job[j].dest # job[k].dest

CommandInv ==
  /\ WorldOK /\ TablesOK /\ RegistryOK /\ (\A c \in Commands : CommandOK(c))
  /\ AddedApart /\ torn = FALSE

-----------------------------------------------------------------------------
(* The registries.                                                         *)

\* The two histories of a step: c may take effect once, and is answered with r or not at all.
Effects(c) == done' = done \/ Effect(c)

LEMMA SurfaceOf ==
  ASSUME NEW c \in Commands
  PROVE  /\ c.surface \in {"add", "batch", "gate", "control", "dispatch", "configure", "edit"}
         /\ c.id \in Ids /\ c # ChildMark
         /\ c.surface \in {"add", "control", "dispatch", "edit"} => c.job \in Jobs
BY CommandsAssumption DEF ChildMark

LEMMA Bounds == MaxRev \in Nat /\ MaxEpoch \in Nat
BY CommandsAssumption

LEMMA NothingIsNobodys ==
  ASSUME NEW c \in Commands, NEW e, e.cmd = c
  PROVE  e # Nothing
BY SurfaceOf DEF Nothing, Entry

LEMMA EntryFields ==
  ASSUME NEW c, NEW r
  PROVE  Entry(c, r).cmd = c /\ Entry(c, r).result = r
BY DEF Entry

\* What an answer leaves in the histories.
LEMMA AnswerTells ==
  ASSUME TablesOK, torn = FALSE, NEW c \in Commands, NEW r, Answer(c, r),
         told[c] # None => told[c] = r
  PROVE  /\ torn' = FALSE /\ told' = [d \in Commands |-> told'[d]]
         /\ told'[c] # None => told'[c] = r
         /\ \A d \in Commands : d # c => told'[d] = told[d]
<1>1. told' = [told EXCEPT ![c] = IF @ = None THEN r ELSE @]
  BY DEF Answer
<1>2. DOMAIN told = Commands
  BY DEF TablesOK
<1>3. told'[c] = IF told[c] = None THEN r ELSE told[c]
  BY <1>1, <1>2
<1>4. \A d \in Commands : d # c => told'[d] = told[d]
  BY <1>1, <1>2
<1>5. told' = [d \in Commands |-> told'[d]]
  BY <1>1, <1>2
<1>6. ~(told[c] # None /\ told[c] # r)
  OBVIOUS
<1>7. torn' = FALSE
  BY <1>6 DEF Answer
<1> QED BY <1>3, <1>4, <1>5, <1>7

\* What an effect leaves in them.
LEMMA EffectCounts ==
  ASSUME TablesOK, NEW c \in Commands, Effects(c), done[c] = 0 \/ done' = done
  PROVE  /\ done' \in [Commands -> {0, 1}]
         /\ \A d \in Commands : d # c => done'[d] = done[d]
<1>1. done \in [Commands -> {0, 1}]
  BY DEF TablesOK
<1>2. CASE done' = done
  BY <1>1, <1>2
<1>3. CASE Effect(c) /\ done[c] = 0
  BY <1>1, <1>3 DEF Effect
<1> QED BY <1>2, <1>3 DEF Effects

\* A command whose identifier is in no registry did nothing yet, nor was it answered.
LEMMA UnusedIsFresh ==
  ASSUME CommandInv, NEW c \in Commands, c.surface # "edit", Unused(c.id)
  PROVE  done[c] = 0 /\ told[c] = None
<1>1. CommandOK(c) /\ done[c] \in {0, 1}
  BY DEF CommandInv, TablesOK
<1>2. receipt[c.id].cmd # c /\ dispatch[c.id].cmd # c
  BY NothingIsNobodys DEF Unused
<1> QED BY <1>1, <1>2 DEF CommandOK

(***************************************************************************)
(* A command other than a dispatch is recorded under an unused identifier, *)
(* and with it perhaps entries of a batch under theirs.                    *)
(***************************************************************************)
Recorded(c, r) ==
  /\ receipt' = [i \in Ids |-> receipt'[i]] /\ receipt'[c.id] = Entry(c, r)
  /\ \A i \in Ids : i # c.id =>
       receipt'[i] = receipt[i] \/ (Unused(i) /\ receipt'[i].cmd = ChildMark)

RegistriesOK == /\ \A i \in Ids : ReceiptOK(i) /\ DispatchOK(i)
                /\ \A c \in Commands : CommandOK(c)

LEMMA RecordKeeps ==
  ASSUME CommandInv, NEW c \in Commands, c.surface \notin {"edit", "dispatch"}, NEW r,
         Unused(c.id), Recorded(c, r), Answer(c, r), Effects(c),
         dispatch' = dispatch, running' = running
  PROVE  TablesOK' /\ RegistriesOK' /\ torn' = FALSE
<1>0. TablesOK /\ torn = FALSE /\ c.id \in Ids
  BY SurfaceOf DEF CommandInv
<1>1. done[c] = 0 /\ told[c] = None
  BY UnusedIsFresh
<1>2. /\ torn' = FALSE /\ told' = [d \in Commands |-> told'[d]]
      /\ told'[c] # None => told'[c] = r
      /\ \A d \in Commands : d # c => told'[d] = told[d]
  BY <1>0, <1>1, AnswerTells
<1>3. done' \in [Commands -> {0, 1}] /\ \A d \in Commands : d # c => done'[d] = done[d]
  BY <1>0, <1>1, EffectCounts
<1>4. TablesOK'
  BY <1>0, <1>2, <1>3 DEF TablesOK, Recorded
<1>5. receipt'[c.id].cmd = c /\ receipt'[c.id].result = r
  BY EntryFields DEF Recorded
<1>6. ASSUME NEW i \in Ids
      PROVE  ReceiptOK(i)' /\ DispatchOK(i)'
  <2>1. ReceiptOK(i) /\ DispatchOK(i)
    BY DEF CommandInv, RegistryOK
  <2>2. CASE i = c.id
    <3>1. ReceiptOK(i)'
      BY <1>5, <2>2 DEF ReceiptOK
    <3>2. DispatchOK(i)'
      BY <2>2 DEF DispatchOK, Unused
    <3> QED BY <3>1, <3>2
  <2>3. CASE i # c.id /\ receipt'[i] = receipt[i]
    BY <2>1, <2>3 DEF ReceiptOK, DispatchOK
  <2>4. CASE i # c.id /\ Unused(i) /\ receipt'[i].cmd = ChildMark
    BY <2>4 DEF ReceiptOK, DispatchOK, Unused
  <2> QED BY <2>2, <2>3, <2>4 DEF Recorded
<1>7. ASSUME NEW d \in Commands
      PROVE  CommandOK(d)'
  <2>1. CommandOK(d) /\ d.id \in Ids
    BY SurfaceOf DEF CommandInv
  <2>2. CASE d = c
    BY <1>2, <1>5, <2>2 DEF CommandOK
  <2>3. CASE d # c
    <3>1. done'[d] = done[d] /\ told'[d] = told[d]
      BY <1>2, <1>3, <2>3
    <3>2. receipt[d.id].cmd = d => receipt'[d.id] = receipt[d.id]
      <4> SUFFICES ASSUME receipt[d.id].cmd = d
                   PROVE  receipt'[d.id] = receipt[d.id]
        OBVIOUS
      <4>1. receipt[d.id] # Nothing
        BY NothingIsNobodys
      <4> QED BY <2>1, <4>1 DEF Recorded, Unused
    <3> QED BY <2>1, <3>1, <3>2 DEF CommandOK
  <2> QED BY <2>2, <2>3
<1> QED BY <1>2, <1>4, <1>6, <1>7 DEF RegistriesOK

\* A command is answered once more as its receipt says.
LEMMA ReplayKeeps ==
  ASSUME CommandInv, NEW c \in Commands, NEW r, Answer(c, r),
         \/ /\ c.surface \notin {"edit", "dispatch"}
            /\ receipt[c.id].cmd = c /\ r = receipt[c.id].result
         \/ c.surface = "edit" /\ r = Pending,
         UNCHANGED <<receipt, dispatch, running, done>>
  PROVE  TablesOK' /\ RegistriesOK' /\ torn' = FALSE
<1>0. TablesOK /\ torn = FALSE /\ CommandOK(c)
  BY DEF CommandInv
<1>1. told[c] # None => told[c] = r
  BY <1>0 DEF CommandOK
<1>2. /\ torn' = FALSE /\ told' = [d \in Commands |-> told'[d]]
      /\ told'[c] # None => told'[c] = r
      /\ \A d \in Commands : d # c => told'[d] = told[d]
  BY <1>0, <1>1, AnswerTells
<1>3. TablesOK'
  BY <1>0, <1>2 DEF TablesOK
<1>4. ASSUME NEW i \in Ids PROVE ReceiptOK(i)' /\ DispatchOK(i)'
  BY DEF CommandInv, RegistryOK, ReceiptOK, DispatchOK
<1>5. ASSUME NEW d \in Commands PROVE CommandOK(d)'
  <2>1. CommandOK(d)
    BY DEF CommandInv
  <2>2. CASE d = c
    BY <1>0, <1>2, <2>1, <2>2 DEF CommandOK
  <2>3. CASE d # c
    BY <1>2, <2>1, <2>3 DEF CommandOK
  <2> QED BY <2>2, <2>3
<1> QED BY <1>2, <1>3, <1>4, <1>5 DEF RegistriesOK

\* The registries and the histories are left alone.
LEMMA QuietKeeps ==
  ASSUME CommandInv, UNCHANGED <<receipt, dispatch, done, told, torn>>,
         running' = running \/ running' = None
  PROVE  TablesOK' /\ RegistriesOK' /\ torn' = FALSE
<1>1. TablesOK' /\ torn' = FALSE
  BY DEF CommandInv, TablesOK
<1>2. ASSUME NEW i \in Ids PROVE ReceiptOK(i)' /\ DispatchOK(i)'
  <2>1. i # None
    BY CommandsAssumption
  <2> QED BY <2>1 DEF CommandInv, RegistryOK, ReceiptOK, DispatchOK
<1>3. ASSUME NEW d \in Commands PROVE CommandOK(d)'
  BY DEF CommandInv, CommandOK
<1> QED BY <1>1, <1>2, <1>3 DEF RegistriesOK

(***************************************************************************)
(* A dispatch is prepared, which is no answer yet; or it is settled, which *)
(* is its answer from then on.                                             *)
(***************************************************************************)
Prepares(c, r) ==
  /\ r.status = "pending" /\ Unused(c.id) /\ running' = c.id
  /\ UNCHANGED <<done, told, torn>>
Settles(c, r) ==
  /\ r.status # "pending" /\ Answer(c, r) /\ running' = None
  /\ \/ Unused(c.id) /\ done' = done
     \/ /\ dispatch[c.id].cmd = c /\ dispatch[c.id].result.status = "pending"
        /\ done' = done \/ (Effect(c) /\ r.status = "started")
     \/ dispatch[c.id].cmd = c /\ dispatch[c.id].result = r /\ done' = done

LEMMA DispatchKeeps ==
  ASSUME CommandInv, NEW c \in Commands, c.surface = "dispatch", NEW r \in DispatchResult,
         dispatch' = [dispatch EXCEPT ![c.id] = Entry(c, r)], receipt' = receipt,
         Prepares(c, r) \/ Settles(c, r)
  PROVE  TablesOK' /\ RegistriesOK' /\ torn' = FALSE
<1>0. /\ TablesOK /\ torn = FALSE /\ CommandOK(c) /\ c.id \in Ids
      /\ ReceiptOK(c.id) /\ DispatchOK(c.id)
  BY SurfaceOf DEF CommandInv, RegistryOK
<1>1. /\ dispatch' = [i \in Ids |-> dispatch'[i]] /\ dispatch'[c.id] = Entry(c, r)
      /\ \A i \in Ids : i # c.id => dispatch'[i] = dispatch[i]
  <2>1. DOMAIN dispatch = Ids
    BY <1>0 DEF TablesOK
  <2> QED BY <1>0, <2>1
<1>2. dispatch'[c.id].cmd = c /\ dispatch'[c.id].result = r
  BY <1>1, EntryFields
<1>3. dispatch'[c.id] \in DispatchEntry
  BY <1>1 DEF DispatchEntry, Entry, Send
<1>4. Unused(c.id) \/ dispatch[c.id] # Nothing
  BY NothingIsNobodys DEF Prepares, Settles
<1>5. receipt[c.id] # Nothing => receipt[c.id].cmd.surface = "edit"
  BY <1>0, <1>4 DEF Unused, DispatchOK
<1>6. c.id = running' => r.status = "pending"
  BY <1>0, CommandsAssumption DEF Prepares, Settles
<1>7. /\ torn' = FALSE /\ told' = [d \in Commands |-> told'[d]]
      /\ done' \in [Commands -> {0, 1}]
      /\ \A d \in Commands : d # c => told'[d] = told[d] /\ done'[d] = done[d]
      /\ CommandOK(c)'
  <2>1. CASE Prepares(c, r)
    <3>1. done[c] = 0 /\ told[c] = None
      BY <2>1, UnusedIsFresh DEF Prepares
    <3> QED BY <1>0, <2>1, <3>1 DEF Prepares, TablesOK, CommandOK
  <2>2. CASE Settles(c, r)
    <3>1. told[c] # None => told[c] = r
      BY <1>0, <2>2, UnusedIsFresh DEF Settles, CommandOK
    <3>2. /\ torn' = FALSE /\ told' = [d \in Commands |-> told'[d]]
          /\ told'[c] # None => told'[c] = r
          /\ \A d \in Commands : d # c => told'[d] = told[d]
      BY <1>0, <2>2, <3>1, AnswerTells DEF Settles
    <3>3. done[c] \in {0, 1} /\ Effects(c)
      BY <1>0, <2>2 DEF TablesOK, Settles, Effects
    <3>4. done[c] = 0 \/ done' = done
      BY <1>0, <2>2, <3>3 DEF Settles, CommandOK
    <3>5. done' \in [Commands -> {0, 1}] /\ \A d \in Commands : d # c => done'[d] = done[d]
      BY <1>0, <3>3, <3>4, EffectCounts
    <3>6. done'[c] = 1 => r.status = "started"
      <4>1. CASE Unused(c.id) /\ done' = done
        BY <4>1, UnusedIsFresh
      <4>2. CASE /\ dispatch[c.id].cmd = c /\ dispatch[c.id].result.status = "pending"
                 /\ done' = done \/ (Effect(c) /\ r.status = "started")
        BY <1>0, <4>2 DEF CommandOK
      <4>3. CASE dispatch[c.id].cmd = c /\ dispatch[c.id].result = r /\ done' = done
        BY <1>0, <4>3 DEF CommandOK
      <4> QED BY <2>2, <4>1, <4>2, <4>3 DEF Settles
    <3>7. CommandOK(c)'
      BY <1>2, <2>2, <3>2, <3>6 DEF CommandOK, Settles
    <3> QED BY <3>2, <3>5, <3>7
  <2> QED BY <2>1, <2>2
<1>8. TablesOK'
  BY <1>0, <1>1, <1>7 DEF TablesOK
<1>9. ASSUME NEW i \in Ids PROVE ReceiptOK(i)' /\ DispatchOK(i)'
  <2>1. ReceiptOK(i) /\ DispatchOK(i)
    BY DEF CommandInv, RegistryOK
  <2>2. CASE i = c.id
    BY <1>2, <1>3, <1>5, <1>6, <2>1, <2>2 DEF ReceiptOK, DispatchOK
  <2>3. CASE i # c.id
    <3>1. i # running'
      BY <2>3, CommandsAssumption DEF Prepares, Settles
    <3> QED BY <1>1, <2>1, <2>3, <3>1 DEF ReceiptOK, DispatchOK
  <2> QED BY <2>2, <2>3
<1>10. ASSUME NEW d \in Commands PROVE CommandOK(d)'
  <2>1. CommandOK(d) /\ d.id \in Ids
    BY SurfaceOf DEF CommandInv
  <2>2. CASE d = c
    BY <1>7, <2>2
  <2>3. CASE d # c /\ d.surface # "dispatch"
    BY <1>7, <2>1, <2>3 DEF CommandOK
  <2>4. CASE d # c /\ d.surface = "dispatch"
    <3>1. dispatch[d.id].cmd = d => dispatch'[d.id] = dispatch[d.id]
      <4> SUFFICES ASSUME dispatch[d.id].cmd = d
                   PROVE  d.id # c.id
        BY <1>1, <2>1
      <4>1. dispatch[d.id] # Nothing
        BY NothingIsNobodys
      <4> QED BY <2>4, <4>1 DEF Prepares, Settles, Unused
    <3> QED BY <1>7, <2>1, <2>4, <3>1 DEF CommandOK
  <2> QED BY <2>2, <2>3, <2>4
<1> QED BY <1>7, <1>8, <1>9, <1>10 DEF RegistriesOK

\* An edit is accepted under an identifier no receipt has.
LEMMA AcceptKeeps ==
  ASSUME CommandInv, NEW c \in Commands, c.surface = "edit", NEW r \in EditFence,
         receipt[c.id] = Nothing, Accept(c, r),
         UNCHANGED <<dispatch, running, done>>
  PROVE  TablesOK' /\ RegistriesOK' /\ torn' = FALSE
<1>0. TablesOK /\ torn = FALSE /\ CommandOK(c) /\ c.id \in Ids
  BY SurfaceOf DEF CommandInv
<1>1. /\ receipt' = [i \in Ids |-> receipt'[i]] /\ receipt'[c.id] = Entry(c, r)
      /\ \A i \in Ids : i # c.id => receipt'[i] = receipt[i]
  <2>1. DOMAIN receipt = Ids /\ receipt' = [receipt EXCEPT ![c.id] = Entry(c, r)]
    BY <1>0 DEF TablesOK, Accept
  <2> QED BY <1>0, <2>1
<1>2. /\ torn' = FALSE /\ told' = [d \in Commands |-> told'[d]]
      /\ told'[c] # None => told'[c] = Pending
      /\ \A d \in Commands : d # c => told'[d] = told[d]
  BY <1>0, AnswerTells DEF CommandOK, Accept
<1>3. TablesOK'
  BY <1>0, <1>1, <1>2 DEF TablesOK
<1>4. receipt'[c.id].cmd = c /\ receipt'[c.id].result = r
  BY <1>1, EntryFields
<1>5. ASSUME NEW i \in Ids PROVE ReceiptOK(i)' /\ DispatchOK(i)'
  <2>1. ReceiptOK(i) /\ DispatchOK(i)
    BY DEF CommandInv, RegistryOK
  <2>2. CASE i = c.id
    BY <1>1, <1>4, <2>1, <2>2 DEF ReceiptOK, DispatchOK
  <2>3. CASE i # c.id
    BY <1>1, <2>1, <2>3 DEF ReceiptOK, DispatchOK
  <2> QED BY <2>2, <2>3
<1>6. ASSUME NEW d \in Commands PROVE CommandOK(d)'
  <2>1. CommandOK(d) /\ d.id \in Ids
    BY SurfaceOf DEF CommandInv
  <2>2. CASE d = c
    <3>1. receipt[c.id].cmd # c
      BY NothingIsNobodys
    <3> QED BY <1>0, <1>2, <2>1, <2>2, <3>1 DEF CommandOK
  <2>3. CASE d # c
    <3>1. receipt[d.id].cmd = d => receipt'[d.id] = receipt[d.id]
      BY <1>1, <2>1, NothingIsNobodys
    <3> QED BY <1>2, <2>1, <2>3, <3>1 DEF CommandOK
  <2> QED BY <2>2, <2>3
<1> QED BY <1>2, <1>3, <1>5, <1>6 DEF RegistriesOK

\* What an unsettled receipt is: an edit with that identifier, which did nothing yet.
LEMMA UnsettledIs ==
  ASSUME CommandInv, NEW i \in Ids, Unsettled(i)
  PROVE  /\ receipt[i].cmd \in Commands /\ receipt[i].cmd.id = i
         /\ receipt[i].cmd.surface = "edit"
         /\ receipt[i] = Entry(receipt[i].cmd, receipt[i].result)
         /\ receipt[i].result \in EditFence
         /\ done[receipt[i].cmd] = 0
<1>1. ReceiptOK(i)
  BY DEF CommandInv, RegistryOK
<1>2. receipt[i] # Nothing /\ receipt[i].cmd # ChildMark
  BY DEF Unsettled, Nothing, Entry, ChildMark
<1>3. /\ receipt[i].cmd \in Commands /\ receipt[i].cmd.id = i
      /\ receipt[i].cmd.surface = "edit"
      /\ receipt[i] = Entry(receipt[i].cmd, receipt[i].result)
      /\ receipt[i].result \in EditFence
  BY <1>1, <1>2 DEF ReceiptOK, Unsettled
<1>4. CommandOK(receipt[i].cmd) /\ done[receipt[i].cmd] \in {0, 1}
  BY <1>3 DEF CommandInv, TablesOK
<1> QED BY <1>3, <1>4 DEF CommandOK, Unsettled

\* An accepted edit is settled, and took effect or not.
LEMMA ApplyKeeps ==
  ASSUME CommandInv, NEW i \in Ids, Unsettled(i),
         receipt' = [receipt EXCEPT ![i].result.settled = TRUE],
         Effects(receipt[i].cmd),
         UNCHANGED <<dispatch, running, told, torn>>
  PROVE  TablesOK' /\ RegistriesOK' /\ torn' = FALSE
<1>00. PICK c, r : c = receipt[i].cmd /\ r = receipt[i].result
  OBVIOUS
<1>0. /\ TablesOK /\ torn = FALSE /\ c \in Commands /\ c.id = i /\ c.surface = "edit"
      /\ receipt[i] = Entry(c, r) /\ r \in EditFence /\ done[c] = 0 /\ CommandOK(c)
      /\ Effects(c)
  BY <1>00, UnsettledIs DEF CommandInv
<1>1. DOMAIN receipt = Ids
  BY <1>0 DEF TablesOK
<1> DEFINE s == [r EXCEPT !.settled = TRUE]
<1>2. s \in EditFence /\ s.settled
  BY <1>0 DEF EditFence
<1>3. receipt'[i] = [receipt[i] EXCEPT !.result = s]
  BY <1>00, <1>1
<1> HIDE DEF s
<1>4. receipt'[i] = Entry(c, s) /\ receipt'[i].cmd = c /\ receipt'[i].result = s
  BY <1>0, <1>3 DEF Entry
<1>5. /\ receipt' = [k \in Ids |-> receipt'[k]]
      /\ \A k \in Ids : k # i => receipt'[k] = receipt[k]
  BY <1>1
<1>6. done' \in [Commands -> {0, 1}] /\ \A d \in Commands : d # c => done'[d] = done[d]
  BY <1>0, EffectCounts
<1>7. TablesOK' /\ torn' = FALSE
  BY <1>0, <1>5, <1>6 DEF TablesOK
<1>8. ASSUME NEW k \in Ids PROVE ReceiptOK(k)' /\ DispatchOK(k)'
  <2>1. ReceiptOK(k) /\ DispatchOK(k)
    BY DEF CommandInv, RegistryOK
  <2>2. CASE k = i
    BY <1>0, <1>2, <1>4, <2>1, <2>2 DEF ReceiptOK, DispatchOK
  <2>3. CASE k # i
    BY <1>5, <2>1, <2>3 DEF ReceiptOK, DispatchOK
  <2> QED BY <2>2, <2>3
<1>9. ASSUME NEW d \in Commands PROVE CommandOK(d)'
  <2>1. CommandOK(d) /\ d.id \in Ids
    BY SurfaceOf DEF CommandInv
  <2>2. CASE d = c
    BY <1>0, <1>2, <1>4, <2>1, <2>2 DEF CommandOK
  <2>3. CASE d # c
    <3>1. receipt[d.id].cmd = d => receipt'[d.id] = receipt[d.id]
      BY <1>00, <1>5, <2>1, <2>3
    <3> QED BY <1>6, <2>1, <2>3, <3>1 DEF CommandOK
  <2> QED BY <2>2, <2>3
<1> QED BY <1>7, <1>8, <1>9 DEF RegistriesOK

-----------------------------------------------------------------------------
(* The jobs.                                                               *)

\* The jobs are rows, none of a later worker, and no two share a destination.
JobsOK(jobs) ==
  /\ jobs \in [Jobs -> JobRow]
  /\ \A j \in Jobs : jobs[j].gen <= epoch
  /\ \A j, k \in Jobs : j # k /\ jobs[j].dest # None => jobs[j].dest # jobs[k].dest

SettingsOK ==
  /\ gate \in [value: {"paused", "running"}, rev: 0..MaxRev]
  /\ config \in 0..MaxRev /\ epoch \in 0..MaxEpoch

LEMMA JobsAreOK ==
  ASSUME CommandInv
  PROVE  JobsOK(job) /\ SettingsOK
BY DEF CommandInv, WorldOK, AddedApart, JobsOK, SettingsOK

LEMMA JobsStayOK ==
  ASSUME NEW jobs, JobsOK(jobs), job' = jobs, epoch' = epoch
  PROVE  JobsOK(job)'
BY DEF JobsOK

\* The parts of the invariant.
LEMMA AssemblesRunning ==
  ASSUME JobsOK(job)', SettingsOK', TablesOK', RegistriesOK', torn' = FALSE, RunningOK'
  PROVE  CommandInv'
<1>1. WorldOK'
  <2>1. job' \in [Jobs -> JobRow] /\ \A j \in Jobs : job'[j].gen <= epoch'
    BY DEF JobsOK
  <2> QED BY <2>1 DEF SettingsOK, WorldOK
<1>2. AddedApart'
  BY DEF JobsOK, AddedApart
<1>3. RegistryOK'
  BY DEF RegistriesOK, RegistryOK
<1> QED BY <1>1, <1>2, <1>3 DEF CommandInv, RegistriesOK

\* The same, for a step after which the owner loop executes no dispatch.
LEMMA Assembles ==
  ASSUME JobsOK(job)', SettingsOK', TablesOK', RegistriesOK', torn' = FALSE,
         running' = None
  PROVE  CommandInv'
<1>1. RunningOK'
  BY DEF RunningOK
<1> QED BY <1>1, AssemblesRunning

\* A job that did not exist gets a destination nobody has.
LEMMA CreatedApart ==
  ASSUME NEW jobs, JobsOK(jobs), epoch \in 0..MaxEpoch, NEW j \in Jobs, NEW d \in Dests,
         \A k \in Jobs : jobs[k].dest # d
  PROVE  JobsOK([jobs EXCEPT ![j] = Created(d)])
<1> DEFINE r == Created(d)
<1>1. r \in JobRow /\ r.gen = 0 /\ r.dest = d
  <2>1. 0 \in 0..MaxEpoch /\ 0 \in 0..MaxRev
    BY CommandsAssumption
  <2>2. NoJob \in JobRow /\ NoJob.gen = 0
    BY <2>1 DEF NoJob, JobRow
  <2>3. r = [[NoJob EXCEPT !.dest = d] EXCEPT !.state = "queued"]
    BY DEF Created
  <2> QED BY <2>2, <2>3 DEF JobRow
<1> HIDE DEF r
<1> DEFINE new == [jobs EXCEPT ![j] = r]
<1>2. new \in [Jobs -> JobRow] /\ new[j] = r /\ \A k \in Jobs : k # j => new[k] = jobs[k]
  BY <1>1 DEF JobsOK
<1>3. 0 <= epoch
  BY CommandsAssumption
<1> HIDE DEF new
<1>4. JobsOK(new)
  BY <1>1, <1>2, <1>3 DEF JobsOK
<1> QED BY <1>4 DEF new, r

\* A job that changes keeps its destination and its generation.
LEMMA ChangedApart ==
  ASSUME JobsOK(job), NEW j \in Jobs, NEW r \in JobRow,
         r.dest = job[j].dest, r.gen = job[j].gen
  PROVE  JobsOK([job EXCEPT ![j] = r])
<1> DEFINE new == [job EXCEPT ![j] = r]
<1>1. new \in [Jobs -> JobRow] /\ new[j] = r /\ \A k \in Jobs : k # j => new[k] = job[k]
  BY DEF JobsOK
<1> HIDE DEF new
<1>2. JobsOK(new)
  BY <1>1 DEF JobsOK
<1> QED BY <1>2 DEF new

\* One revision more is still within the bound.
MovedTo(r, state) == [r EXCEPT !.state = state, !.rev = @ + 1]

LEMMA MovedRow ==
  ASSUME NEW r \in JobRow, r.rev < MaxRev,
         NEW state \in {"queued", "resolving", "downloading", "paused", "removed"}
  PROVE  /\ MovedTo(r, state) \in JobRow
         /\ MovedTo(r, state).dest = r.dest /\ MovedTo(r, state).gen = r.gen
         /\ MovedTo(r, state).rev = r.rev + 1
<1>1. r.rev + 1 \in 0..MaxRev
  BY CommandsAssumption DEF JobRow
<1> QED BY <1>1 DEF JobRow, MovedTo

LEMMA RecordIs ==
  ASSUME CommandInv, NEW c \in Commands, NEW r, Record(c, r)
  PROVE  Recorded(c, r) /\ Answer(c, r)
<1>1. DOMAIN receipt = Ids /\ c.id \in Ids
  BY SurfaceOf DEF CommandInv, TablesOK
<1>2. receipt' = [receipt EXCEPT ![c.id] = Entry(c, r)] /\ Answer(c, r)
  BY DEF Record
<1> QED BY <1>1, <1>2 DEF Recorded

-----------------------------------------------------------------------------
(* One lemma per action.                                                   *)

LEMMA AddKeeps ==
  ASSUME CommandInv, NEW c \in Send("add"), Add(c)
  PROVE  CommandInv'
<1>0. c \in Commands /\ c.surface = "add" /\ c.job \in Jobs /\ c.dest \in Dests
  BY CommandsAssumption DEF Send
<1> DEFINE r == [status |-> "applied", rev |-> 0]
<1>1. /\ Up /\ Unused(c.id) /\ DestinationFree(c.dest) /\ Record(c, r) /\ Effect(c)
      /\ job' = [job EXCEPT ![c.job] = Created(c.dest)]
      /\ UNCHANGED <<dispatch, gate, config, epoch, running>>
  BY DEF Add
<1> HIDE DEF r
<1>2. TablesOK' /\ RegistriesOK' /\ torn' = FALSE
  BY <1>0, <1>1, RecordIs, RecordKeeps DEF Effects
<1>3. JobsOK(job)'
  BY <1>0, <1>1, JobsAreOK, CreatedApart, JobsStayOK DEF DestinationFree, SettingsOK
<1>4. SettingsOK' /\ running' = None
  BY <1>1, JobsAreOK DEF SettingsOK, Up
<1> QED BY <1>1, <1>2, <1>3, <1>4, Assembles

\* The jobs after the entry n of the batch c.
After(c, jobs, n) ==
  IF EntryOutcome(c, n, jobs) = "applied"
  THEN [jobs EXCEPT ![c.entries[n].job] = Created(c.entries[n].dest)] ELSE jobs

\* An entry that is applied has an unused identifier and a destination of its own.
LEMMA AppliedEntry ==
  ASSUME NEW c, NEW n, NEW jobs, EntryOutcome(c, n, jobs) = "applied"
  PROVE  /\ Unused(Child[c.id][n])
         /\ \A k \in Jobs : jobs[k].dest # c.entries[n].dest
<1> DEFINE taken == \E j \in Jobs : jobs[j].dest = c.entries[n].dest
<1>1. EntryOutcome(c, n, jobs) =
        IF ~Unused(Child[c.id][n]) THEN "request_conflict"
        ELSE IF jobs[c.entries[n].job] # NoJob THEN "job_conflict"
        ELSE IF taken THEN "destination_conflict" ELSE "applied"
  BY DEF EntryOutcome
<1> HIDE DEF taken
<1>2. Unused(Child[c.id][n]) /\ ~taken
  BY <1>1
<1> QED BY <1>2 DEF taken

LEMMA EntryApart ==
  ASSUME NEW c \in Send("batch"), NEW n \in 1..2, NEW jobs, JobsOK(jobs), epoch \in 0..MaxEpoch
  PROVE  JobsOK(After(c, jobs, n))
<1>0. c.entries[n].job \in Jobs /\ c.entries[n].dest \in Dests
  BY CommandsAssumption DEF Send
<1>1. CASE EntryOutcome(c, n, jobs) = "applied"
  <2>1. \A k \in Jobs : jobs[k].dest # c.entries[n].dest
    BY <1>1, AppliedEntry
  <2> QED BY <1>0, <1>1, <2>1, CreatedApart DEF After
<1>2. CASE EntryOutcome(c, n, jobs) # "applied"
  BY <1>2 DEF After
<1> QED BY <1>1, <1>2

LEMMA AddBatchKeeps ==
  ASSUME CommandInv, NEW c \in Send("batch"), AddBatch(c)
  PROVE  CommandInv'
<1>0. c \in Commands /\ c.surface = "batch" /\ c.id \in Ids
  BY SurfaceOf DEF Send
<1> DEFINE first == EntryOutcome(c, 1, job)
           mid == After(c, job, 1)
           second == EntryOutcome(c, 2, mid)
           result == [status |-> "applied", entries |-> <<first, second>>]
           child(i) == \E n \in 1..2 : i = Child[c.id][n] /\ <<first, second>>[n] = "applied"
<1>1. /\ Up /\ Unused(c.id) /\ job' = After(c, mid, 2)
      /\ receipt' = [i \in Ids |->
           CASE i = c.id -> Entry(c, result)
             [] i # c.id /\ child(i) -> Entry(ChildMark, c.id)
             [] OTHER -> receipt[i]]
      /\ Answer(c, result) /\ Effect(c)
      /\ UNCHANGED <<dispatch, gate, config, epoch, running>>
  BY DEF AddBatch, After
<1>2. /\ first = "applied" => Unused(Child[c.id][1])
      /\ second = "applied" => Unused(Child[c.id][2])
  BY AppliedEntry
<1>3. \A i \in Ids : child(i) => Unused(i)
  BY <1>2
<1> HIDE DEF first, second, result, mid, child
<1>4. Recorded(c, result)
  <2>1. receipt'[c.id] = Entry(c, result)
    BY <1>0, <1>1
  <2>2. ASSUME NEW i \in Ids, i # c.id
        PROVE  receipt'[i] = receipt[i] \/ (Unused(i) /\ receipt'[i].cmd = ChildMark)
    <3>1. CASE child(i)
      BY <1>1, <1>3, <2>2, <3>1, EntryFields
    <3>2. CASE ~child(i)
      BY <1>1, <2>2, <3>2
    <3> QED BY <3>1, <3>2
  <2>3. receipt' = [i \in Ids |-> receipt'[i]]
    BY <1>1
  <2> QED BY <2>1, <2>2, <2>3 DEF Recorded
<1>5. TablesOK' /\ RegistriesOK' /\ torn' = FALSE
  BY <1>0, <1>1, <1>4, RecordKeeps DEF Effects
<1>6. JobsOK(job)'
  <2>1. JobsOK(mid)
    BY JobsAreOK, EntryApart DEF SettingsOK, mid
  <2> QED BY <1>1, <2>1, JobsAreOK, EntryApart, JobsStayOK DEF SettingsOK
<1>7. SettingsOK' /\ running' = None
  BY <1>1, JobsAreOK DEF SettingsOK, Up
<1> QED BY <1>1, <1>5, <1>6, <1>7, Assembles

LEMMA QueueGateKeeps ==
  ASSUME CommandInv, NEW c \in Send("gate"), QueueGate(c)
  PROVE  CommandInv'
<1>0. c \in Commands /\ c.surface = "gate" /\ c.gate \in {"paused", "running"}
  BY CommandsAssumption DEF Send
<1>1. /\ Up /\ Unused(c.id) /\ Record(c, gate') /\ Effect(c) /\ gate.rev < MaxRev
      /\ gate' = [value |-> c.gate, rev |-> gate.rev + 1]
      /\ UNCHANGED <<dispatch, job, config, epoch, running>>
  BY DEF QueueGate, Room
<1>2. TablesOK' /\ RegistriesOK' /\ torn' = FALSE
  BY <1>0, <1>1, RecordIs, RecordKeeps DEF Effects
<1>3. SettingsOK' /\ running' = None
  BY <1>0, <1>1, JobsAreOK, CommandsAssumption DEF SettingsOK, Up
<1> QED BY <1>1, <1>2, <1>3, JobsAreOK, JobsStayOK, Assembles

LEMMA JobControlKeeps ==
  ASSUME CommandInv, NEW c \in Send("control"), JobControl(c)
  PROVE  CommandInv'
<1>0. c \in Commands /\ c.surface = "control" /\ c.job \in Jobs
  BY CommandsAssumption DEF Send
<1>1. PICK status, next, r :
        /\ Up /\ Unused(c.id) /\ Record(c, r) /\ Effects(c) /\ job[c.job].rev < MaxRev
        /\ next = IF status = "applied" /\ Controlled(c) # job[c.job]
                  THEN [Controlled(c) EXCEPT !.rev = @ + 1] ELSE job[c.job]
        /\ job' = [job EXCEPT ![c.job] = next]
        /\ UNCHANGED <<dispatch, gate, config, epoch, running>>
  BY <1>0 DEF JobControl, Room, Effects
<1>2. TablesOK' /\ RegistriesOK' /\ torn' = FALSE
  BY <1>0, <1>1, RecordIs, RecordKeeps
<1>3. job[c.job] \in JobRow
  BY <1>0, JobsAreOK DEF JobsOK
<1>4. /\ Controlled(c) \in JobRow /\ Controlled(c).dest = job[c.job].dest
      /\ Controlled(c).gen = job[c.job].gen /\ Controlled(c).rev = job[c.job].rev
  BY <1>3 DEF Controlled, JobRow
<1>5. next \in JobRow /\ next.dest = job[c.job].dest /\ next.gen = job[c.job].gen
  BY <1>1, <1>3, <1>4, CommandsAssumption DEF JobRow
<1>6. JobsOK(job)'
  BY <1>0, <1>1, <1>5, JobsAreOK, ChangedApart, JobsStayOK
<1>7. SettingsOK' /\ running' = None
  BY <1>1, JobsAreOK DEF SettingsOK, Up
<1> QED BY <1>1, <1>2, <1>6, <1>7, Assembles

LEMMA ConfigureKeeps ==
  ASSUME CommandInv, NEW c \in Send("configure"), Configure(c)
  PROVE  CommandInv'
<1>0. c \in Commands /\ c.surface = "configure"
  BY DEF Send
<1>1. PICK r :
        /\ Up /\ Unused(c.id) /\ Record(c, r) /\ Effect(c)
        /\ config < MaxRev /\ config' = config + 1
        /\ UNCHANGED <<dispatch, job, gate, epoch, running>>
  BY DEF Configure, Room
<1>2. TablesOK' /\ RegistriesOK' /\ torn' = FALSE
  BY <1>0, <1>1, RecordIs, RecordKeeps DEF Effects
<1>3. SettingsOK' /\ running' = None
  BY <1>1, JobsAreOK, CommandsAssumption DEF SettingsOK, Up
<1> QED BY <1>1, <1>2, <1>3, JobsAreOK, JobsStayOK, Assembles

LEMMA ReplayedKeeps ==
  ASSUME CommandInv, NEW c \in Commands, c.surface # "edit", Replay(c)
  PROVE  CommandInv'
<1>1. /\ Up /\ receipt[c.id].cmd = c /\ Answer(c, receipt[c.id].result)
      /\ UNCHANGED <<receipt, dispatch, job, gate, config, epoch, running, done>>
  BY DEF Replay
<1>2. c.surface # "dispatch"
  <2>1. ReceiptOK(c.id) /\ receipt[c.id] # Nothing /\ receipt[c.id].cmd # ChildMark
    BY <1>1, SurfaceOf, NothingIsNobodys DEF CommandInv, RegistryOK
  <2> QED BY <1>1, <2>1 DEF ReceiptOK
<1>3. TablesOK' /\ RegistriesOK' /\ torn' = FALSE
  BY <1>1, <1>2, ReplayKeeps
<1>4. SettingsOK' /\ running' = None
  BY <1>1, JobsAreOK DEF SettingsOK, Up
<1> QED BY <1>1, <1>3, <1>4, JobsAreOK, JobsStayOK, Assembles

LEMMA DispatchedKeeps ==
  ASSUME CommandInv, NEW c \in Send("dispatch"), Dispatch(c)
  PROVE  CommandInv'
<1>0. c \in Commands /\ c.surface = "dispatch" /\ c.job \in Jobs /\ c.id \in Ids
  BY CommandsAssumption DEF Send
<1>1. PICK status \in {"stale", "blocked", "pending"} :
        /\ Up /\ Unused(c.id)
        /\ status = "pending" => job[c.job].rev + 1 < MaxRev
        /\ job' = IF status = "pending" THEN Moved(c.job, "resolving") ELSE job
        /\ dispatch' = [dispatch EXCEPT ![c.id] = Entry(c, Result(status, job'[c.job]))]
        /\ IF status = "pending" THEN running' = c.id /\ UNCHANGED <<told, torn>>
             ELSE Answer(c, dispatch'[c.id].result) /\ UNCHANGED running
        /\ UNCHANGED <<receipt, gate, config, epoch, done>>
  BY DEF Dispatch
<1>2. job[c.job] \in JobRow /\ job \in [Jobs -> JobRow]
  BY <1>0, JobsAreOK DEF JobsOK
<1>3. /\ JobsOK(job)' /\ job'[c.job] \in JobRow
      /\ status = "pending" => job'[c.job].rev < MaxRev
  <2>1. CASE status = "pending"
    <3> DEFINE m == MovedTo(job[c.job], "resolving")
    <3>1. job[c.job].rev < MaxRev /\ job[c.job].rev + 1 < MaxRev
      BY <1>1, <1>2, <2>1, CommandsAssumption DEF JobRow
    <3>2. /\ m \in JobRow /\ m.dest = job[c.job].dest /\ m.gen = job[c.job].gen
          /\ m.rev = job[c.job].rev + 1
      BY <1>2, <3>1, MovedRow
    <3>3. job' = [job EXCEPT ![c.job] = m]
      BY <1>1, <1>2, <2>1 DEF Moved, MovedTo
    <3> HIDE DEF m
    <3>4. job'[c.job] = m
      BY <1>0, <1>2, <3>3
    <3>5. JobsOK(job)'
      BY <1>0, <1>1, <3>2, <3>3, JobsAreOK, ChangedApart, JobsStayOK
    <3> QED BY <3>1, <3>2, <3>4, <3>5
  <2>2. CASE status # "pending"
    BY <1>1, <1>2, <2>2, JobsAreOK, JobsStayOK
  <2> QED BY <2>1, <2>2
<1>4. PICK r : r = Result(status, job'[c.job])
  OBVIOUS
<1>5. r \in DispatchResult /\ r.status = status
  BY <1>3, <1>4 DEF Result, DispatchResult, JobRow
<1>6. dispatch' = [dispatch EXCEPT ![c.id] = Entry(c, r)]
  BY <1>1, <1>4
<1>7. dispatch'[c.id] = Entry(c, r) /\ dispatch'[c.id].cmd = c /\ dispatch'[c.id].result = r
  <2>1. DOMAIN dispatch = Ids
    BY DEF CommandInv, TablesOK
  <2> QED BY <1>0, <1>6, <2>1, EntryFields
<1>8. Prepares(c, r) \/ Settles(c, r)
  <2>1. CASE status = "pending"
    BY <1>1, <1>5, <2>1 DEF Prepares
  <2>2. CASE status # "pending"
    BY <1>1, <1>5, <1>7, <2>2 DEF Settles, Up
  <2> QED BY <2>1, <2>2
<1>9. TablesOK' /\ RegistriesOK' /\ torn' = FALSE
  BY <1>0, <1>1, <1>5, <1>6, <1>8, DispatchKeeps
<1>10. SettingsOK'
  BY <1>1, JobsAreOK DEF SettingsOK
<1>11. RunningOK'
  <2>1. CASE status = "pending"
    <3>1. running' = c.id /\ dispatch'[running'] # Nothing
      BY <1>0, <1>1, <1>7, <2>1, NothingIsNobodys
    <3> QED BY <1>0, <1>3, <1>7, <2>1, <3>1 DEF RunningOK
  <2>2. CASE status # "pending"
    BY <1>1, <2>2 DEF RunningOK, Up
  <2> QED BY <2>1, <2>2
<1> QED BY <1>3, <1>9, <1>10, <1>11, AssemblesRunning

\* A dispatch that is written again keeps its command.
LEMMA DispatchWritten ==
  ASSUME CommandInv, NEW i \in Ids, dispatch[i] # Nothing, NEW c, dispatch[i].cmd = c, NEW r,
         dispatch' = [dispatch EXCEPT ![i].result = r]
  PROVE  /\ c \in Send("dispatch") /\ c.id = i
         /\ dispatch[i].result \in DispatchResult
         /\ dispatch' = [dispatch EXCEPT ![c.id] = Entry(c, r)]
         /\ dispatch'[i].result = r
<1>1. /\ dispatch[i] \in DispatchEntry /\ c.id = i /\ DOMAIN dispatch = Ids
  BY DEF CommandInv, RegistryOK, DispatchOK, TablesOK
<1>2. [dispatch[i] EXCEPT !.result = r] = Entry(c, r)
  BY <1>1 DEF DispatchEntry, Entry
<1>3. dispatch' = [dispatch EXCEPT ![c.id] = Entry(c, r)]
  BY <1>1, <1>2
<1>4. dispatch'[i].result = r
  BY <1>1, <1>3, EntryFields
<1> QED BY <1>1, <1>3, <1>4 DEF DispatchEntry

LEMMA SettledKeeps ==
  ASSUME CommandInv, NEW status \in {"started", "blocked"},
         NEW state \in {"downloading", "paused"}, Settle(status, state)
  PROVE  CommandInv'
<1>0. PICK i, c : i = running /\ c = dispatch[running].cmd
  OBVIOUS
<1>1. /\ i # None /\ job' = Moved(c.job, state)
      /\ dispatch' = [dispatch EXCEPT ![i].result = Result(status, job'[c.job])]
      /\ Answer(c, dispatch'[i].result)
      /\ IF status = "started" THEN Effect(c) ELSE UNCHANGED done
      /\ running' = None
      /\ UNCHANGED <<receipt, gate, config, epoch>>
  BY <1>0 DEF Settle
<1>2. i \in Ids /\ dispatch[i] # Nothing /\ job[c.job].rev < MaxRev
  BY <1>0, <1>1 DEF CommandInv, RegistryOK, RunningOK
<1>3. PICK r : r = Result(status, job'[c.job])
  OBVIOUS
<1>4. /\ c \in Send("dispatch") /\ c.id = i
      /\ dispatch' = [dispatch EXCEPT ![c.id] = Entry(c, r)]
      /\ dispatch'[i].result = r
  <2>1. dispatch' = [dispatch EXCEPT ![i].result = r] /\ dispatch[i].cmd = c
    BY <1>0, <1>1, <1>3
  <2> QED BY <1>2, <2>1, DispatchWritten
<1>5. c \in Commands /\ c.surface = "dispatch" /\ c.job \in Jobs
  BY <1>4, SurfaceOf DEF Send
<1>6. job[c.job] \in JobRow /\ job \in [Jobs -> JobRow]
  BY <1>5, JobsAreOK DEF JobsOK
<1>7. JobsOK(job)' /\ job'[c.job] \in JobRow
  <2> DEFINE m == MovedTo(job[c.job], state)
  <2>1. m \in JobRow /\ m.dest = job[c.job].dest /\ m.gen = job[c.job].gen
    BY <1>2, <1>6, MovedRow
  <2>2. job' = [job EXCEPT ![c.job] = m]
    BY <1>1, <1>6 DEF Moved, MovedTo
  <2> HIDE DEF m
  <2>3. JobsOK(job)'
    BY <1>1, <1>5, <2>1, <2>2, JobsAreOK, ChangedApart, JobsStayOK
  <2> QED BY <1>5, <1>6, <2>1, <2>2, <2>3
<1>8. r \in DispatchResult /\ r.status = status
  BY <1>3, <1>7 DEF Result, DispatchResult, JobRow
<1>9. dispatch[i].result.status = "pending"
  BY <1>0, <1>2 DEF CommandInv, RegistryOK, DispatchOK
<1>10. Settles(c, r)
  BY <1>0, <1>1, <1>4, <1>8, <1>9 DEF Settles
<1>11. TablesOK' /\ RegistriesOK' /\ torn' = FALSE
  BY <1>1, <1>4, <1>5, <1>8, <1>10, DispatchKeeps
<1>12. SettingsOK'
  BY <1>1, JobsAreOK DEF SettingsOK
<1> QED BY <1>1, <1>7, <1>11, <1>12, Assembles

LEMMA ReplayDispatchKeeps ==
  ASSUME CommandInv, NEW c \in Send("dispatch"), ReplayDispatch(c)
  PROVE  CommandInv'
<1>0. c \in Commands /\ c.surface = "dispatch" /\ c.job \in Jobs /\ c.id \in Ids
  BY CommandsAssumption DEF Send
<1>1. PICK r :
        /\ r = Replayed(c) /\ Up /\ dispatch[c.id].cmd = c
        /\ dispatch' = [dispatch EXCEPT ![c.id].result = r] /\ Answer(c, r)
        /\ UNCHANGED <<receipt, job, gate, config, epoch, running, done>>
  BY DEF ReplayDispatch
<1>2. dispatch[c.id] # Nothing
  BY <1>0, <1>1, NothingIsNobodys
<1>3. /\ dispatch[c.id].result \in DispatchResult
      /\ dispatch' = [dispatch EXCEPT ![c.id] = Entry(c, r)]
  <2>1. dispatch' = [dispatch EXCEPT ![c.id].result = r] /\ dispatch[c.id].cmd = c
    BY <1>1
  <2> QED BY <1>0, <1>2, <2>1, DispatchWritten
<1>4. job[c.job] \in JobRow
  BY <1>0, JobsAreOK DEF JobsOK
<1>5. /\ r \in DispatchResult /\ r.status # "pending"
      /\ dispatch[c.id].result.status = "pending" \/ r = dispatch[c.id].result
  BY <1>1, <1>3, <1>4 DEF Replayed, Result, DispatchResult, JobRow
<1>6. Settles(c, r)
  BY <1>1, <1>5 DEF Settles, Up
<1>7. TablesOK' /\ RegistriesOK' /\ torn' = FALSE
  BY <1>0, <1>1, <1>3, <1>5, <1>6, DispatchKeeps
<1>8. SettingsOK' /\ running' = None
  BY <1>1, JobsAreOK DEF SettingsOK, Up
<1> QED BY <1>1, <1>7, <1>8, JobsAreOK, JobsStayOK, Assembles

LEMMA AcceptEditKeeps ==
  ASSUME CommandInv, NEW c \in Send("edit"), AcceptEdit(c)
  PROVE  CommandInv'
<1>0. c \in Commands /\ c.surface = "edit" /\ c.job \in Jobs
  BY CommandsAssumption DEF Send
<1>1. PICK r :
        /\ r = [settled |-> FALSE, epoch |-> epoch, gen |-> job[c.job].gen, rev |-> job[c.job].rev]
        /\ Up /\ receipt[c.id] = Nothing /\ Accept(c, r)
        /\ UNCHANGED <<dispatch, job, gate, config, epoch, running, done>>
  BY DEF AcceptEdit
<1>2. job[c.job] \in JobRow /\ epoch \in 0..MaxEpoch
  BY <1>0, JobsAreOK DEF JobsOK, SettingsOK
<1>3. r \in EditFence
  BY <1>1, <1>2 DEF EditFence, JobRow
<1>4. TablesOK' /\ RegistriesOK' /\ torn' = FALSE
  BY <1>0, <1>1, <1>3, AcceptKeeps
<1>5. SettingsOK' /\ running' = None
  BY <1>1, JobsAreOK DEF SettingsOK, Up
<1> QED BY <1>1, <1>4, <1>5, JobsAreOK, JobsStayOK, Assembles

LEMMA ReplayEditKeeps ==
  ASSUME CommandInv, NEW c \in Send("edit"), ReplayEdit(c)
  PROVE  CommandInv'
<1>0. c \in Commands /\ c.surface = "edit"
  BY DEF Send
<1>1. /\ Up /\ Answer(c, Pending)
      /\ UNCHANGED <<receipt, dispatch, job, gate, config, epoch, running, done>>
  BY DEF ReplayEdit
<1>2. TablesOK' /\ RegistriesOK' /\ torn' = FALSE
  BY <1>0, <1>1, ReplayKeeps
<1>3. SettingsOK' /\ running' = None
  BY <1>1, JobsAreOK DEF SettingsOK, Up
<1> QED BY <1>1, <1>2, <1>3, JobsAreOK, JobsStayOK, Assembles

LEMMA EditedRow ==
  ASSUME NEW c, job[c.job] \in JobRow, job[c.job].rev < MaxRev, c.to \in Dests \cup {None}
  PROVE  /\ Edited(c) \in JobRow
         /\ Edited(c).dest = job[c.job].dest /\ Edited(c).gen = job[c.job].gen
         /\ Edited(c).moved = IF c.to # None THEN c.to ELSE job[c.job].moved
<1> DEFINE to == IF c.to # None THEN c.to ELSE job[c.job].moved
<1>1. job[c.job].rev + 1 \in 0..MaxRev /\ to \in Dests \cup {None}
  BY CommandsAssumption DEF JobRow
<1>2. Edited(c) = [[job[c.job] EXCEPT !.rev = @ + 1] EXCEPT !.moved = to]
  BY DEF Edited, JobRow
<1> HIDE DEF to
<1>3. /\ Edited(c) \in JobRow /\ Edited(c).moved = to
      /\ Edited(c).dest = job[c.job].dest /\ Edited(c).gen = job[c.job].gen
  BY <1>1, <1>2 DEF JobRow
<1> QED BY <1>3 DEF to

LEMMA ApplyEditKeeps ==
  ASSUME CommandInv, NEW i \in Ids, ApplyEdit(i)
  PROVE  CommandInv'
<1>0. PICK c : c = receipt[i].cmd
  OBVIOUS
<1>1. /\ Up /\ Room /\ Unsettled(i)
      /\ receipt' = [receipt EXCEPT ![i].result.settled = TRUE]
      /\ \/ job' = [job EXCEPT ![c.job] = Edited(c)] /\ Effect(c)
         \/ UNCHANGED <<job, done>>
      /\ UNCHANGED <<dispatch, gate, config, epoch, running, told, torn>>
  BY <1>0 DEF ApplyEdit
<1>2. /\ c \in Commands /\ c.surface = "edit" /\ c.job \in Jobs
      /\ c.to \in Dests \cup {None}
  BY <1>0, <1>1, UnsettledIs, SurfaceOf, CommandsAssumption
<1>3. TablesOK' /\ RegistriesOK' /\ torn' = FALSE
  BY <1>0, <1>1, ApplyKeeps DEF Effects
<1>4. job[c.job] \in JobRow /\ job \in [Jobs -> JobRow] /\ job[c.job].rev < MaxRev
  BY <1>1, <1>2, JobsAreOK DEF JobsOK, Room
<1>5. JobsOK(job)'
  <2>1. CASE job' = [job EXCEPT ![c.job] = Edited(c)]
    <3> DEFINE m == Edited(c)
    <3>1. m \in JobRow /\ m.dest = job[c.job].dest /\ m.gen = job[c.job].gen
      BY <1>2, <1>4, EditedRow
    <3>2. job' = [job EXCEPT ![c.job] = m]
      BY <2>1
    <3> HIDE DEF m
    <3> QED BY <1>1, <1>2, <3>1, <3>2, JobsAreOK, ChangedApart, JobsStayOK
  <2>2. CASE job' = job
    BY <1>1, <2>2, JobsAreOK, JobsStayOK
  <2> QED BY <1>1, <2>1, <2>2
<1>6. SettingsOK' /\ running' = None
  BY <1>1, JobsAreOK DEF SettingsOK, Up
<1> QED BY <1>3, <1>5, <1>6, Assembles

LEMMA RestartKeeps ==
  ASSUME CommandInv, Restart
  PROVE  CommandInv'
<1>0. epoch < MaxEpoch /\ Room /\ epoch' = epoch + 1
  BY DEF Restart
<1>1. /\ epoch < MaxEpoch /\ Room /\ epoch' = epoch + 1 /\ running' = None
      /\ gate' = [value |-> "paused", rev |-> gate.rev + 1]
      /\ job' = [j \in Jobs |->
           IF job[j].state \notin {"none", "removed"}
             THEN [job[j] EXCEPT !.state = "paused", !.gen = @ + 1, !.rev = @ + 1] ELSE job[j]]
      /\ UNCHANGED <<receipt, dispatch, config, done, told, torn>>
  BY DEF Restart
<1>2. TablesOK' /\ RegistriesOK' /\ torn' = FALSE
  BY <1>1, QuietKeeps
<1>3. SettingsOK'
  <2>1. gate.rev < MaxRev /\ gate.rev \in 0..MaxRev /\ epoch \in 0..MaxEpoch
    BY <1>1, JobsAreOK DEF SettingsOK, Room
  <2>2. gate.rev + 1 \in 0..MaxRev /\ epoch + 1 \in 0..MaxEpoch
    BY <1>0, <2>1, Bounds
  <2> QED BY <1>1, <2>2, JobsAreOK DEF SettingsOK
<1>4. ASSUME NEW j \in Jobs
      PROVE  job'[j] \in JobRow /\ job'[j].gen <= epoch' /\ job'[j].dest = job[j].dest
  <2>0. job[j] \in JobRow /\ job[j].gen <= epoch /\ epoch \in 0..MaxEpoch
    BY JobsAreOK DEF JobsOK, SettingsOK
  <2>1. /\ job[j] \in JobRow /\ job[j].gen <= epoch /\ job[j].rev < MaxRev
        /\ epoch \in 0..MaxEpoch /\ job[j].gen \in 0..MaxEpoch /\ job[j].rev \in 0..MaxRev
    BY <1>0, <2>0 DEF Room, JobRow
  <2>5. /\ job[j].gen <= epoch + 1 /\ job[j].gen + 1 <= epoch + 1
        /\ job[j].gen + 1 \in 0..MaxEpoch /\ job[j].rev + 1 \in 0..MaxRev
    BY <1>0, <2>1, Bounds
  <2>2. CASE job[j].state \in {"none", "removed"}
    <3>1. job'[j] = job[j]
      BY <1>1, <2>2
    <3> QED BY <1>0, <2>1, <2>5, <3>1
  <2>3. CASE job[j].state \notin {"none", "removed"}
    <3>1. job'[j] = [[[job[j] EXCEPT !.state = "paused"] EXCEPT !.gen = @ + 1] EXCEPT !.rev = @ + 1]
      BY <1>1, <2>3
    <3>2. /\ job'[j] \in JobRow /\ job'[j].gen = job[j].gen + 1
          /\ job'[j].dest = job[j].dest
      BY <2>1, <2>5, <3>1 DEF JobRow
    <3> QED BY <1>0, <2>5, <3>2
  <2> QED BY <2>2, <2>3
<1>5. JobsOK(job)'
  <2>1. job' \in [Jobs -> JobRow]
    BY <1>1, <1>4
  <2> QED BY <1>4, <2>1, JobsAreOK DEF JobsOK
<1> QED BY <1>1, <1>2, <1>3, <1>5, Assembles

LEMMA ContainKeeps ==
  ASSUME CommandInv, NEW j \in Jobs, Contain(j)
  PROVE  CommandInv'
<1>1. /\ Up /\ Room /\ job' = Moved(j, "paused")
      /\ UNCHANGED <<receipt, dispatch, gate, config, epoch, running, done, told, torn>>
  BY DEF Contain
<1>2. job[j] \in JobRow /\ job \in [Jobs -> JobRow] /\ job[j].rev < MaxRev
  BY <1>1, JobsAreOK DEF JobsOK, Room
<1>3. JobsOK(job)'
  <2> DEFINE m == MovedTo(job[j], "paused")
  <2>1. m \in JobRow /\ m.dest = job[j].dest /\ m.gen = job[j].gen
    BY <1>2, MovedRow
  <2>2. job' = [job EXCEPT ![j] = m]
    BY <1>1, <1>2 DEF Moved, MovedTo
  <2> HIDE DEF m
  <2> QED BY <1>1, <2>1, <2>2, JobsAreOK, ChangedApart, JobsStayOK
<1>4. TablesOK' /\ RegistriesOK' /\ torn' = FALSE
  BY <1>1, QuietKeeps
<1>5. SettingsOK' /\ running' = None
  BY <1>1, JobsAreOK DEF SettingsOK, Up
<1> QED BY <1>3, <1>4, <1>5, Assembles

-----------------------------------------------------------------------------
(* The theorems.                                                           *)

LEMMA InitHolds == Init => CommandInv
<1> SUFFICES ASSUME Init
             PROVE  CommandInv
  OBVIOUS
<1> USE DEF Init
<1>1. 0 \in 0..MaxRev /\ 0 \in 0..MaxEpoch
  BY Bounds
<1>2. NoJob \in JobRow /\ NoJob.gen = 0 /\ NoJob.dest = None
  BY <1>1 DEF NoJob, JobRow
<1>3. JobsOK(job) /\ SettingsOK
  BY <1>1, <1>2 DEF JobsOK, SettingsOK
<1>4. WorldOK /\ AddedApart
  BY <1>3 DEF JobsOK, SettingsOK, WorldOK, AddedApart
<1>5. TablesOK
  BY DEF TablesOK
<1>6. RegistryOK
  BY DEF RegistryOK, RunningOK, ReceiptOK, DispatchOK
<1>7. ASSUME NEW c \in Commands
      PROVE  CommandOK(c)
  <2>1. done[c] # 1 /\ told[c] = None
    BY <1>7
  <2> QED BY <2>1 DEF CommandOK
<1> QED BY <1>4, <1>5, <1>6, <1>7 DEF CommandInv

LEMMA CommandKeeps ==
  ASSUME CommandInv, [Next]_vars
  PROVE  CommandInv'
<1>1. CASE \E c \in Send("add") : Add(c)
  BY <1>1, AddKeeps
<1>2. CASE \E c \in Send("batch") : AddBatch(c)
  BY <1>2, AddBatchKeeps
<1>3. CASE \E c \in Send("gate") : QueueGate(c)
  BY <1>3, QueueGateKeeps
<1>4. CASE \E c \in Send("control") : JobControl(c)
  BY <1>4, JobControlKeeps
<1>5. CASE \E c \in Send("dispatch") : Dispatch(c) \/ ReplayDispatch(c)
  BY <1>5, DispatchedKeeps, ReplayDispatchKeeps
<1>6. CASE \E c \in Send("configure") : Configure(c)
  BY <1>6, ConfigureKeeps
<1>7. CASE \E c \in Send("edit") : AcceptEdit(c) \/ ReplayEdit(c)
  BY <1>7, AcceptEditKeeps, ReplayEditKeeps
<1>8. CASE \E c \in Commands : c.surface # "edit" /\ Replay(c)
  BY <1>8, ReplayedKeeps
<1>9. CASE \E i \in Ids : ApplyEdit(i)
  BY <1>9, ApplyEditKeeps
<1>10. CASE \E j \in Jobs : Contain(j)
  BY <1>10, ContainKeeps
<1>11. CASE Started \/ Aborted
  BY <1>11, SettledKeeps DEF Started, Aborted
<1>12. CASE Restart
  BY <1>12, RestartKeeps
<1>13. CASE UNCHANGED vars
  <2>1. /\ UNCHANGED <<receipt, dispatch, done, told, torn, running>>
        /\ UNCHANGED <<job, gate, config, epoch>>
    BY <1>13 DEF vars
  <2>2. TablesOK' /\ RegistriesOK' /\ torn' = FALSE
    BY <2>1, QuietKeeps
  <2>3. SettingsOK'
    BY <2>1, JobsAreOK DEF SettingsOK
  <2>4. RunningOK'
    BY <2>1 DEF CommandInv, RegistryOK, RunningOK
  <2> QED BY <2>1, <2>2, <2>3, <2>4, JobsAreOK, JobsStayOK, AssemblesRunning
<1> QED BY <1>1, <1>2, <1>3, <1>4, <1>5, <1>6, <1>7, <1>8, <1>9, <1>10, <1>11, <1>12, <1>13
        DEF Next

LEMMA CommandInvariant == Spec => []CommandInv
<1>1. CommandInv /\ [Next]_vars => CommandInv'
  BY CommandKeeps
<1> QED BY <1>1, InitHolds, PTL DEF Spec

\* Two commands of one identifier that both took effect are a dispatch and an edit.
LEMMA EffectsApart ==
  ASSUME CommandInv, NEW c \in Commands, NEW d \in Commands, c # d, c.id = d.id,
         done[c] = 1, done[d] = 1
  PROVE  {c.surface, d.surface} = {"dispatch", "edit"}
<1>0. CommandOK(c) /\ CommandOK(d) /\ c.id \in Ids /\ DispatchOK(c.id)
  BY SurfaceOf DEF CommandInv, RegistryOK
<1>1. c.surface # "dispatch" => receipt[c.id].cmd = c
  BY <1>0 DEF CommandOK
<1>2. d.surface # "dispatch" => receipt[c.id].cmd = d
  BY <1>0 DEF CommandOK
<1>3. c.surface = "dispatch" => dispatch[c.id].cmd = c
  BY <1>0 DEF CommandOK
<1>4. d.surface = "dispatch" => dispatch[c.id].cmd = d
  BY <1>0 DEF CommandOK
<1>5. CASE c.surface = "dispatch" /\ d.surface # "dispatch"
  <2>1. dispatch[c.id] # Nothing /\ receipt[c.id] # Nothing
    BY <1>2, <1>3, <1>5, NothingIsNobodys
  <2>2. d.surface = "edit"
    BY <1>0, <1>2, <1>5, <2>1 DEF DispatchOK
  <2> QED BY <1>5, <2>2
<1>6. CASE c.surface # "dispatch" /\ d.surface = "dispatch"
  <2>1. dispatch[c.id] # Nothing /\ receipt[c.id] # Nothing
    BY <1>1, <1>4, <1>6, NothingIsNobodys
  <2>2. c.surface = "edit"
    BY <1>0, <1>1, <1>6, <2>1 DEF DispatchOK
  <2> QED BY <1>6, <2>2
<1> QED BY <1>1, <1>2, <1>3, <1>4, <1>5, <1>6

(***************************************************************************)
(* However often a command is sent, before or after a restart and beside   *)
(* others that use its identifier, it takes effect at most once, only a    *)
(* dispatch and an edit can both take effect under one identifier, and     *)
(* every answer is the first one (store.py: _match_command_receipt,        *)
(* _reject_unregistered_legacy_request and the transactions that record    *)
(* the result with the effect).                                            *)
(***************************************************************************)
THEOREM EffectOnce == Spec => []CommandsTakeEffectOnce
<1>1. CommandInv => CommandsTakeEffectOnce
  <2> SUFFICES ASSUME CommandInv
               PROVE  CommandsTakeEffectOnce
    OBVIOUS
  <2>1. ASSUME NEW i \in Ids
        PROVE  receipt[i] = Nothing \/ receipt[i].cmd \in Commands \cup {ChildMark}
    BY DEF CommandInv, RegistryOK, ReceiptOK
  <2>2. ASSUME NEW i \in Ids, dispatch[i] # Nothing
        PROVE  /\ ReadableDispatch(dispatch[i])
               /\ i = running => dispatch[i].result.status = "pending"
    <3>1. /\ dispatch[i] \in DispatchEntry
          /\ i = running => dispatch[i].result.status = "pending"
      BY <2>2 DEF CommandInv, RegistryOK, DispatchOK
    <3> QED BY <3>1 DEF DispatchEntry, DispatchResult, ReadableDispatch
  <2>3. ReceiptTypeOK
    <3>1. WorldOK /\ RunningOK /\ torn \in BOOLEAN
      BY DEF CommandInv, RegistryOK
    <3>2. \A i \in Ids : dispatch[i] # Nothing =>
             ReadableDispatch(dispatch[i]) /\ (i = running => dispatch[i].result.status = "pending")
      BY <2>2
    <3> QED BY ONLY <2>1, <3>1, <3>2 DEF ReceiptTypeOK, WorldOK, RunningOK
  <2>4. \A c \in Commands : done[c] <= 1
    <3>1. done \in [Commands -> {0, 1}]
      BY DEF CommandInv, TablesOK
    <3>2. ASSUME NEW c \in Commands
          PROVE  done[c] <= 1
      <4>1. done[c] = 0 \/ done[c] = 1
        BY <3>1, <3>2
      <4> QED BY ONLY <4>1, SMT
    <3> QED BY <3>2
  <2>5. EffectsOnce
    BY <2>4, EffectsApart DEF EffectsOnce
  <2>6. AnswersAgree
    BY DEF CommandInv, AnswersAgree
  <2> QED BY <2>3, <2>5, <2>6 DEF CommandsTakeEffectOnce
<1> QED BY <1>1, CommandInvariant, PTL

(***************************************************************************)
(* Where a job was moved to, an edit of it that took effect says.          *)
(***************************************************************************)
MovedOK ==
  \A j \in Jobs : job[j].moved # None =>
    \E c \in Send("edit") : done[c] = 1 /\ c.job = j /\ c.to = job[j].moved

\* What took effect has taken effect from then on.
LEMMA EffectsStay ==
  ASSUME CommandInv, CommandInv', [Next]_vars, NEW c \in Commands, done[c] = 1
  PROVE  done'[c] = 1
<1>1. done \in [Commands -> {0, 1}] /\ done' \in [Commands -> {0, 1}]
  BY DEF CommandInv, TablesOK
<1>2. CASE done' = done
  BY <1>2
<1>3. CASE \E d : Effect(d)
  <2>1. PICK d : done' = [done EXCEPT ![d] = @ + 1]
    BY <1>3 DEF Effect
  <2>2. CASE d = c
    <3>1. done'[c] = 2
      BY <1>1, <2>1, <2>2
    <3> QED BY <1>1, <3>1
  <2>3. CASE d # c
    BY <1>1, <2>1, <2>3
  <2> QED BY <2>2, <2>3
<1> QED BY <1>2, <1>3
        DEF Next, vars, Add, AddBatch, QueueGate, JobControl, Dispatch, ReplayDispatch, Configure,
            AcceptEdit, ReplayEdit, Replay, ApplyEdit, Contain, Started, Aborted, Settle, Restart

\* Only an edit that takes effect moves a job; an add starts where it says.
LEMMA OnlyEditsMove ==
  ASSUME CommandInv, [Next]_vars, NEW j \in Jobs,
         job'[j].moved # None, job'[j].moved # job[j].moved
  PROVE  \E c \in Send("edit") : Effect(c) /\ c.job = j /\ c.to = job'[j].moved
<1>0. job \in [Jobs -> JobRow]
  BY DEF CommandInv, WorldOK
<1>1. ASSUME NEW k, NEW r, job' = [job EXCEPT ![k] = r],
             k \in Jobs => r.moved \in {None, job[k].moved}
      PROVE  FALSE
  BY <1>0, <1>1
<1>2. CASE \E i \in Ids : ApplyEdit(i)
  <2>1. PICK i \in Ids : ApplyEdit(i)
    BY <1>2
  <2>2. PICK c : c = receipt[i].cmd
    OBVIOUS
  <2>3. /\ c \in Send("edit") /\ c.job \in Jobs /\ c.to \in Dests \cup {None}
    BY <2>1, <2>2, UnsettledIs, CommandsAssumption DEF ApplyEdit, Send
  <2>4. job' = [job EXCEPT ![c.job] = Edited(c)] /\ Effect(c)
    BY <2>1, <2>2 DEF ApplyEdit
  <2>5. job[c.job] \in JobRow /\ job[c.job].rev < MaxRev
    BY <1>0, <2>1, <2>3 DEF ApplyEdit, Room
  <2>6. Edited(c).moved = IF c.to # None THEN c.to ELSE job[c.job].moved
    BY <2>3, <2>5, EditedRow
  <2>7. c.job = j /\ c.to = job'[j].moved
    BY <1>0, <2>3, <2>4, <2>6
  <2> QED BY <2>3, <2>4, <2>7
<1>3. ASSUME NEW d PROVE Created(d).moved = None
  BY DEF Created, NoJob
<1>4. CASE \E c \in Send("add") : Add(c)
  BY <1>1, <1>3, <1>4 DEF Add
<1>5. CASE \E c \in Send("batch") : AddBatch(c)
  <2>1. PICK c \in Send("batch") : AddBatch(c)
    BY <1>5
  <2>2. job' = After(c, After(c, job, 1), 2)
    BY <2>1 DEF AddBatch, After
  <2>3. ASSUME NEW jobs, DOMAIN jobs = Jobs, NEW n \in 1..2
        PROVE  /\ DOMAIN After(c, jobs, n) = Jobs
               /\ After(c, jobs, n)[j].moved \in {None, jobs[j].moved}
    BY <1>3, <2>3 DEF After
  <2> QED BY <1>0, <2>2, <2>3
<1>6. CASE \E c \in Send("control") : JobControl(c)
  <2>1. PICK c \in Send("control") : JobControl(c)
    BY <1>6
  <2>2. c.job \in Jobs /\ job[c.job] \in JobRow
    BY <1>0, CommandsAssumption DEF Send
  <2>3. Controlled(c) \in JobRow /\ Controlled(c).moved = job[c.job].moved
    BY <2>2 DEF Controlled, JobRow
  <2>4. PICK r : job' = [job EXCEPT ![c.job] = r] /\ r.moved = job[c.job].moved
    <3>1. [Controlled(c) EXCEPT !.rev = @ + 1].moved = job[c.job].moved
      BY <2>3 DEF JobRow
    <3> QED BY <2>1, <3>1 DEF JobControl
  <2> QED BY <1>1, <2>4
<1>7. ASSUME NEW k, NEW state, job' = Moved(k, state)
      PROVE  FALSE
  <2>1. CASE k = j
    <3> DEFINE m == MovedTo(job[j], state)
    <3>1. m.moved = job[j].moved
      BY <1>0 DEF MovedTo, JobRow
    <3>2. job' = [job EXCEPT ![j] = m]
      BY <1>0, <1>7, <2>1 DEF Moved, MovedTo
    <3> HIDE DEF m
    <3> QED BY <1>0, <3>1, <3>2
  <2>2. CASE k # j
    BY <1>0, <1>7, <2>2 DEF Moved
  <2> QED BY <2>1, <2>2
<1>8. CASE \/ \E c \in Send("dispatch") : Dispatch(c)
           \/ \E k \in Jobs : Contain(k)
           \/ Started \/ Aborted
  <2>1. job' = job \/ \E k, state : job' = Moved(k, state)
    BY <1>8 DEF Dispatch, Contain, Started, Aborted, Settle
  <2> QED BY <1>7, <2>1
<1>9. CASE Restart
  <2>1. job'[j] = IF job[j].state \notin {"none", "removed"}
                  THEN [[[job[j] EXCEPT !.state = "paused"] EXCEPT !.gen = @ + 1] EXCEPT !.rev = @ + 1]
                  ELSE job[j]
    BY <1>9 DEF Restart
  <2>2. job'[j].moved = job[j].moved
    BY <1>0, <2>1 DEF JobRow
  <2> QED BY <2>2
<1>10. CASE job' = job
  BY <1>10
<1>11. CASE \/ \E c \in Send("gate") : QueueGate(c)
            \/ \E c \in Send("dispatch") : ReplayDispatch(c)
            \/ \E c \in Send("configure") : Configure(c)
            \/ \E c \in Send("edit") : AcceptEdit(c) \/ ReplayEdit(c)
            \/ \E c \in Commands : c.surface # "edit" /\ Replay(c)
            \/ UNCHANGED vars
  BY <1>10, <1>11 DEF QueueGate, ReplayDispatch, Configure, AcceptEdit, ReplayEdit, Replay, vars
<1> QED BY <1>2, <1>4, <1>5, <1>6, <1>8, <1>9, <1>11 DEF Next

LEMMA MovedKept ==
  ASSUME CommandInv, CommandInv', MovedOK, [Next]_vars
  PROVE  MovedOK'
<1> SUFFICES ASSUME NEW j \in Jobs, job'[j].moved # None
             PROVE  \E c \in Send("edit") : done'[c] = 1 /\ c.job = j /\ c.to = job'[j].moved
  BY DEF MovedOK, Send
<1>1. CASE job'[j].moved = job[j].moved
  <2>1. PICK c \in Send("edit") : done[c] = 1 /\ c.job = j /\ c.to = job[j].moved
    BY <1>1 DEF MovedOK
  <2>2. done'[c] = 1
    BY <2>1, EffectsStay DEF Send
  <2> QED BY <1>1, <2>1, <2>2
<1>2. CASE job'[j].moved # job[j].moved
  <2>1. PICK c \in Send("edit") : Effect(c) /\ c.job = j /\ c.to = job'[j].moved
    BY <1>2, OnlyEditsMove
  <2>2. done[c] \in {0, 1} /\ done'[c] \in {0, 1} /\ done'[c] = done[c] + 1
    BY <2>1 DEF CommandInv, TablesOK, Effect, Send
  <2>3. done'[c] = 1
    BY <2>2
  <2> QED BY <2>1, <2>3
<1> QED BY <1>1, <1>2

(***************************************************************************)
(* Jobs are added with destinations of their own, alone or in a batch      *)
(* (store.py: _ensure_publication_target_is_available), and only an edit   *)
(* that took effect moves one (apply_edit, _effective_reservation): two    *)
(* jobs write to one destination only if such an edit sent one there.      *)
(***************************************************************************)
THEOREM SharedOnlyByEdit == Spec => []DestinationSharedOnlyByEdit
<1>1. Init => MovedOK
  BY DEF Init, MovedOK, NoJob
<1>2. CommandInv /\ CommandInv' /\ MovedOK /\ [Next]_vars => MovedOK'
  BY MovedKept
<1>3. CommandInv /\ MovedOK => DestinationSharedOnlyByEdit
  <2> SUFFICES ASSUME CommandInv, MovedOK, NEW j \in Jobs, NEW k \in Jobs, j # k,
                      InForce(j) # None, InForce(j) = InForce(k)
               PROVE  \E c \in Send("edit") : done[c] = 1 /\ c.job \in {j, k} /\ c.to = InForce(j)
    BY DEF DestinationSharedOnlyByEdit
  <2>1. CASE job[j].moved # None
    BY <2>1 DEF MovedOK, InForce
  <2>2. CASE job[k].moved # None
    BY <2>2 DEF MovedOK, InForce
  <2>3. CASE job[j].moved = None /\ job[k].moved = None
    BY <2>3 DEF CommandInv, AddedApart, InForce
  <2> QED BY <2>1, <2>2, <2>3
<1> QED BY <1>1, <1>2, <1>3, CommandInvariant, PTL DEF Spec

\* Only apply_edit lets an edit take effect.
LEMMA EditsTakeEffect ==
  ASSUME CommandInv, [Next]_vars, NEW c \in Send("edit"), done'[c] # done[c]
  PROVE  \E i \in Ids : ApplyEdit(i) /\ receipt[i].cmd = c
<1>0. c \in Commands /\ c.surface = "edit" /\ DOMAIN done = Commands
  BY DEF Send, CommandInv, TablesOK
<1>1. ASSUME NEW d, d # c, Effect(d)
      PROVE  FALSE
  BY <1>0, <1>1 DEF Effect
<1>2. CASE \E d \in Commands : d.surface # "edit" /\ Effect(d)
  BY <1>0, <1>1, <1>2
<1>3. CASE done' = done
  BY <1>3
<1>4. CASE \E i \in Ids : ApplyEdit(i)
  <2>1. PICK i \in Ids : ApplyEdit(i)
    BY <1>4
  <2>2. Effect(receipt[i].cmd) \/ done' = done
    BY <2>1 DEF ApplyEdit
  <2> QED BY <1>1, <2>1, <2>2
<1>5. CASE Started \/ Aborted
  <2>1. dispatch[running].cmd \in Send("dispatch")
    BY <1>5 DEF Started, Aborted, Settle, CommandInv, RegistryOK, RunningOK, DispatchOK, DispatchEntry
  <2>2. Effect(dispatch[running].cmd) \/ done' = done
    BY <1>5 DEF Started, Aborted, Settle
  <2> QED BY <1>2, <2>1, <2>2 DEF Send
<1>6. CASE \/ \E d \in Send("add") : Add(d)
           \/ \E d \in Send("batch") : AddBatch(d)
           \/ \E d \in Send("gate") : QueueGate(d)
           \/ \E d \in Send("control") : JobControl(d)
           \/ \E d \in Send("configure") : Configure(d)
  <2>1. (\E d \in Commands : d.surface # "edit" /\ Effect(d)) \/ done' = done
    BY <1>6 DEF Add, AddBatch, QueueGate, JobControl, Configure, Send
  <2> QED BY <1>2, <2>1
<1>7. CASE \/ \E d \in Send("dispatch") : Dispatch(d) \/ ReplayDispatch(d)
           \/ \E d \in Send("edit") : AcceptEdit(d) \/ ReplayEdit(d)
           \/ \E d \in Commands : d.surface # "edit" /\ Replay(d)
           \/ \E j \in Jobs : Contain(j)
           \/ Restart \/ UNCHANGED vars
  <2>1. done' = done
    BY <1>7 DEF Dispatch, ReplayDispatch, AcceptEdit, ReplayEdit, Replay, Contain, Restart, vars
  <2> QED BY <2>1
<1> QED BY <1>4, <1>5, <1>6, <1>7 DEF Next

(***************************************************************************)
(* An edit takes effect in the worker epoch it was accepted in and at most *)
(* one change of its job later (store.py: apply_edit compares epoch,       *)
(* generation and revision with those of the receipt).                     *)
(***************************************************************************)
THEOREM EditsAreFenced == Spec => EditKeepsFence
<1> DEFINE Fenced(c) ==
      done'[c] > done[c] => /\ receipt[c.id].result.epoch = epoch
                            /\ job[c.job].rev - receipt[c.id].result.rev \in {0, 1}
<1>1. ASSUME CommandInv, [Next]_vars, NEW c \in Send("edit"), done'[c] > done[c]
      PROVE  /\ receipt[c.id].result.epoch = epoch
             /\ job[c.job].rev - receipt[c.id].result.rev \in {0, 1}
  <2>0. c \in Commands /\ c.job \in Jobs
    BY CommandsAssumption DEF Send
  <2>1. done[c] \in {0, 1} /\ done'[c] # done[c]
    BY <1>1, <2>0 DEF CommandInv, TablesOK
  <2>2. PICK i \in Ids : ApplyEdit(i) /\ receipt[i].cmd = c
    BY <1>1, <2>1, EditsTakeEffect
  <2>3. Unsettled(i) /\ c.id = i /\ receipt[i].result \in EditFence
    BY <1>1, <2>2, UnsettledIs DEF ApplyEdit
  <2>4. EditIsCurrent(i)
    BY <2>1, <2>2 DEF ApplyEdit
  <2>5. /\ receipt[i].result.epoch = epoch
        /\ job[c.job].rev \in {receipt[i].result.rev, receipt[i].result.rev + 1}
    BY <2>2, <2>4 DEF EditIsCurrent
  <2>6. receipt[i].result.rev \in Nat
    BY <2>3, Bounds DEF EditFence
  <2> QED BY <2>3, <2>5, <2>6
<1>2. CommandInv /\ [Next]_vars => [\A c \in Send("edit") : Fenced(c)]_vars
  BY <1>1
<1> QED BY <1>2, CommandInvariant, PTL DEF Spec, EditKeepsFence
=============================================================================
