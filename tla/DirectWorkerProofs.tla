-------------------------- MODULE DirectWorkerProofs --------------------------
(***************************************************************************)
(* Proofs about DirectStore and DirectWorker, for any jobs, requests,      *)
(* payloads and bounds.                                                    *)
(*                                                                         *)
(* First the store: its types, its safety properties, the authority to     *)
(* publish, and what backs the work.  RowStep lists the few ways in which  *)
(* one transaction can change one job row; EligibleIsCurrent says that an  *)
(* eligible attempt never falls behind its row: were one ever left at a    *)
(* terminal row, CompletePublication could change that row.                *)
(*                                                                         *)
(* Then the worker: it only ever takes transactions of DirectStore, so     *)
(* what is proved of the store holds of the running worker; and what the   *)
(* worker adds to it, the engine it starts and the file it publishes, is   *)
(* kept with the owner's plan, publication and permit.                     *)
(*                                                                         *)
(* Last what the worker must not forget: a recovery the store holds as     *)
(* pending, and the job the store says is at work.                         *)
(***************************************************************************)
EXTENDS DirectWorker, Integers, TLAPS

-----------------------------------------------------------------------------
(* Rows have their type.                                                   *)

\* The fence of a job row is a fence row.
LEMMA FenceIsFenceRow ==
  ASSUME NEW row \in JobRow
  PROVE  Fence(row) \in FenceRow
  BY DEF Fence, FenceRow, JobRow

\* A stored job has a job row.
LEMMA StoredIsRow ==
  ASSUME TypeOK, NEW j \in Jobs, Stored(j)
  PROVE  job[j] \in JobRow /\ Fence(job[j]) \in FenceRow
  BY FenceIsFenceRow DEF TypeOK, Stored

\* A move below the counter's limit keeps the row's type.
LEMMA MovedIsRow ==
  ASSUME TypeOK, NEW j \in Jobs, Stored(j), CanMove(j), NEW s \in JobStates
  PROVE  /\ Moved(j, s) \in JobRow
         /\ Fence(Moved(j, s)) \in FenceRow
<1>1. job[j] \in JobRow
  BY StoredIsRow
<1>2. job[j].rev + 1 \in Revisions
  BY <1>1, BoundsAssumption DEF CanMove, JobRow, Revisions
<1>3. Moved(j, s) \in JobRow
  BY <1>1, <1>2 DEF Moved, JobRow
<1> QED BY <1>3, FenceIsFenceRow

\* A receipt built from a fence is a receipt row.
LEMMA ReceiptIsRow ==
  ASSUME NEW j \in Jobs, NEW status \in {"pending", "started", "blocked", "stale"},
         NEW fence \in FenceRow
  PROVE  Receipt(j, status, fence) \in ReceiptRow
  BY DEF Receipt, ReceiptRow

\* A receipt that is present has a receipt row.
LEMMA PresentIsReceiptRow ==
  ASSUME TypeOK, NEW r \in Requests, receipt[r] # NoRow
  PROVE  receipt[r] \in ReceiptRow /\ receipt[r].job \in Jobs /\ receipt[r].at \in FenceRow
  BY DEF TypeOK, ReceiptRow

\* Advancing the pointers keeps attempts and receipts typed.
LEMMA AdvancePointersTyped ==
  ASSUME TypeOK, NEW S, NEW kept,
         job' \in [Jobs -> JobRow \cup {NoRow}], epoch' \in Nat,
         \A j \in S : j \in Jobs => job'[j] \in JobRow,
         AdvancePointers(S, kept)
  PROVE  /\ attempt' \in [Jobs -> AttemptRow \cup {NoRow}]
         /\ receipt' \in [Requests -> ReceiptRow \cup {NoRow}]
<1>1. ASSUME NEW j \in Jobs
      PROVE  attempt'[j] \in AttemptRow \cup {NoRow}
  <2>1. CASE j \in S /\ Eligible(j)
    <3>1. attempt[j] \in AttemptRow
      BY <2>1 DEF TypeOK, Eligible
    <3>2. Fence(job'[j]) \in FenceRow
      BY <2>1, FenceIsFenceRow
    <3>3. attempt'[j] = Advanced(j, j \in kept /\ job'[j].state = "paused")
      BY <2>1 DEF AdvancePointers
    <3> QED BY <3>1, <3>2, <3>3 DEF Advanced, AttemptRow
  <2>2. CASE ~(j \in S /\ Eligible(j))
    BY <2>2 DEF AdvancePointers, TypeOK
  <2> QED BY <2>1, <2>2
<1>2. ASSUME NEW r \in Requests
      PROVE  receipt'[r] \in ReceiptRow \cup {NoRow}
  <2> DEFINE hit == Pending(r) /\ receipt[r].job \in S /\ Eligible(receipt[r].job)
                      /\ attempt[receipt[r].job].pending = r
  <2>1. CASE hit
    <3>1. receipt[r] \in ReceiptRow /\ receipt[r].job \in Jobs
      BY <2>1, PresentIsReceiptRow DEF Pending
    <3>2. Fence(job'[receipt[r].job]) \in FenceRow
      BY <2>1, <3>1, FenceIsFenceRow
    <3>3. receipt'[r] = [receipt[r] EXCEPT !.status = "blocked",
                                           !.at = Fence(job'[receipt[r].job])]
      BY <2>1 DEF AdvancePointers
    <3> QED BY <3>1, <3>2, <3>3 DEF ReceiptRow
  <2>2. CASE ~hit
    BY <2>2 DEF AdvancePointers, TypeOK
  <2> QED BY <2>1, <2>2
<1> QED BY <1>1, <1>2 DEF AdvancePointers

-----------------------------------------------------------------------------
(* Type correctness.                                                       *)

\* The four controls map a job row, before its revision is raised, to a job row.
LEMMA ControlledTyped ==
  ASSUME NEW row \in JobRow, NEW a \in Actions
  PROVE  Controlled(row, a) \in JobRow /\ Controlled(row, a).rev = row.rev
<1>1. {"queued", "paused", "removed"} \subseteq JobStates
  BY DEF JobStates, TerminalStates
<1>2. CASE a = "pause" BY <1>1, <1>2 DEF Controlled, JobRow
<1>3. CASE a = "resume" BY <1>1, <1>3 DEF Controlled, JobRow
<1>4. CASE a = "remove" BY <1>1, <1>4 DEF Controlled, JobRow
<1>5. CASE a = "start_now" BY <1>1, <1>5 DEF Controlled, JobRow
<1> QED BY <1>2, <1>3, <1>4, <1>5 DEF Actions

\* Raising the revision of a row below the limit keeps its type.
LEMMA RaisedIsRow ==
  ASSUME NEW row \in JobRow, row.rev < MaxRevision
  PROVE  [row EXCEPT !.rev = @ + 1] \in JobRow
<1>1. row.rev + 1 \in Revisions
  BY BoundsAssumption DEF JobRow, Revisions
<1> QED BY <1>1 DEF JobRow

\* Every transaction keeps the type of every table.
LEMMA TypeStep ==
  ASSUME TypeOK, [StoreNext]_storeVars
  PROVE  TypeOK'
<1> USE DEF TypeOK
<1>1. CASE \E j \in Jobs : JobAdd(j)
  <2>1. 0 \in Revisions /\ "queued" \in JobStates
    BY BoundsAssumption DEF Revisions, JobStates
  <2>2. [gen |-> 0, rev |-> 0, state |-> "queued", auth |-> FALSE, hold |-> FALSE]
          \in JobRow
    BY <2>1 DEF JobRow
  <2> QED BY <1>1, <2>2 DEF JobAdd
<1>2. CASE \E g \in {"paused", "running"} : SetGate(g)
  BY <1>2 DEF SetGate
<1>3. CASE \E j \in Jobs, recoverable \in BOOLEAN : SetGateContained(j, recoverable)
  <2>1. PICK j \in Jobs, recoverable \in BOOLEAN : SetGateContained(j, recoverable)
    BY <1>3
  <2>2. /\ job' \in [Jobs -> JobRow \cup {NoRow}]
        /\ job'[j] \in JobRow
    BY <2>1, StoredIsRow, MovedIsRow DEF SetGateContained, JobStates
  <2> QED BY <2>1, <2>2, AdvancePointersTyped DEF SetGateContained
<1>4. CASE \E j \in Jobs, a \in Actions, contained, recoverable \in BOOLEAN :
             JobControl(j, a, contained, recoverable)
  <2>1. PICK j \in Jobs, a \in Actions, contained \in BOOLEAN, recoverable \in BOOLEAN :
               JobControl(j, a, contained, recoverable)
    BY <1>4
  <2>2. job[j] \in JobRow
    BY <2>1, StoredIsRow DEF JobControl, Open
  <2>3. /\ job' \in [Jobs -> JobRow \cup {NoRow}]
        /\ job'[j] \in JobRow
    <3>1. CASE Controlled(job[j], a) = job[j]
      BY <2>1, <2>2, <3>1 DEF JobControl
    <3>2. CASE Controlled(job[j], a) # job[j]
      <4>1. [Controlled(job[j], a) EXCEPT !.rev = @ + 1] \in JobRow
        BY <2>1, <2>2, <3>2, ControlledTyped, RaisedIsRow DEF JobControl, CanMove
      <4> QED BY <2>1, <3>2, <4>1 DEF JobControl
    <3> QED BY <3>1, <3>2
  <2>4. PICK S : /\ S \in {{j}, {}}
                 /\ \E kept : AdvancePointers(S, kept)
    BY <2>1 DEF JobControl
  <2> QED BY <2>1, <2>3, <2>4, AdvancePointersTyped DEF JobControl
<1>5. CASE \E r \in Requests, j \in Jobs, exact, ready, due \in BOOLEAN :
             RefuseDispatch(r, j, exact, ready, due)
  <2>1. PICK r \in Requests, j \in Jobs, exact \in BOOLEAN, ready \in BOOLEAN,
               due \in BOOLEAN : RefuseDispatch(r, j, exact, ready, due)
    BY <1>5
  <2>2. Receipt(j, DispatchVerdict(j, exact, ready, due), Fence(job[j])) \in ReceiptRow
    BY <2>1, StoredIsRow, ReceiptIsRow DEF RefuseDispatch
  <2> QED BY <2>1, <2>2 DEF RefuseDispatch
<1>6. CASE \E r \in Requests, j \in Jobs, ready, due \in BOOLEAN :
             AdmitDispatch(r, j, ready, due)
  <2>1. PICK r \in Requests, j \in Jobs, ready \in BOOLEAN, due \in BOOLEAN :
               AdmitDispatch(r, j, ready, due)
    BY <1>6
  <2>2. /\ Moved(j, "resolving") \in JobRow
        /\ Receipt(j, "pending", Fence(Moved(j, "resolving"))) \in ReceiptRow
    BY <2>1, MovedIsRow, ReceiptIsRow
    DEF AdmitDispatch, JobStates, ActiveStates, BodyStates
  <2> QED BY <2>1, <2>2 DEF AdmitDispatch
<1>7. CASE \E r \in Requests, j \in Jobs : AdmitRecovery(r, j)
  <2>1. PICK r \in Requests, j \in Jobs : AdmitRecovery(r, j)
    BY <1>7
  <2>2. Receipt(j, "pending", Fence(job[j])) \in ReceiptRow
    BY <2>1, StoredIsRow, ReceiptIsRow DEF AdmitRecovery
  <2>3. attempt[j] # NoRow => [attempt[j] EXCEPT !.pending = r] \in AttemptRow
    BY DEF AttemptRow
  <2>4. attempt[j] # NoRow
    BY <2>1 DEF AdmitRecovery, DispatchVerdict, Eligible
  <2> QED BY <2>1, <2>2, <2>3, <2>4 DEF AdmitRecovery
<1>8. CASE \E r \in Requests : ReplayPending(r)
  <2>1. PICK r \in Requests : ReplayPending(r)
    BY <1>8
  <2>2. receipt[r].job \in Jobs /\ Stored(receipt[r].job)
    BY <2>1, PresentIsReceiptRow DEF ReplayPending, Pending
  <2>3. Receipt(receipt[r].job, "blocked", Fence(job[receipt[r].job])) \in ReceiptRow
    BY <2>2, StoredIsRow, ReceiptIsRow
  <2> QED BY <2>1, <2>3 DEF ReplayPending
<1>9. CASE \E r \in Requests : AdvanceToDownloading(r)
  <2>1. PICK r \in Requests : AdvanceToDownloading(r)
    BY <1>9
  <2> DEFINE j == receipt[r].job
  <2>2. receipt[r] \in ReceiptRow /\ j \in Jobs /\ Stored(j) /\ CanMove(j)
    BY <2>1, PresentIsReceiptRow DEF AdvanceToDownloading, OwnsPending, Pending
  <2>3. /\ Moved(j, "downloading") \in JobRow
        /\ Fence(Moved(j, "downloading")) \in FenceRow
    BY <2>2, MovedIsRow DEF JobStates, ActiveStates, BodyStates
  <2>4. [receipt[r] EXCEPT !.at = Fence(Moved(j, "downloading"))] \in ReceiptRow
    BY <2>2, <2>3 DEF ReceiptRow
  <2> QED BY <2>1, <2>2, <2>3, <2>4 DEF AdvanceToDownloading
<1>10. CASE \E r \in Requests : FinishDispatch(r)
  <2>1. PICK r \in Requests : FinishDispatch(r)
    BY <1>10
  <2>2. [receipt[r] EXCEPT !.status = "started"] \in ReceiptRow
    BY <2>1, PresentIsReceiptRow DEF FinishDispatch, OwnsPending, Pending, ReceiptRow
  <2> QED BY <2>1, <2>2 DEF FinishDispatch
<1>11. CASE \E r \in Requests : AbortDispatch(r)
  <2>1. PICK r \in Requests : AbortDispatch(r)
    BY <1>11
  <2> DEFINE j == receipt[r].job
  <2>2. receipt[r] \in ReceiptRow /\ j \in Jobs /\ Stored(j)
    BY <2>1, PresentIsReceiptRow DEF AbortDispatch, Pending
  <2>3. /\ job' \in [Jobs -> JobRow \cup {NoRow}]
        /\ job'[j] \in JobRow
    BY <2>1, <2>2, StoredIsRow, MovedIsRow DEF AbortDispatch, JobStates
  <2>4. Receipt(j, "blocked", Fence(job'[j])) \in ReceiptRow
    BY <2>2, <2>3, FenceIsFenceRow, ReceiptIsRow
  <2> QED BY <2>1, <2>3, <2>4 DEF AbortDispatch
<1>12. CASE \E r \in Requests : FinalizeTerminal(r)
  <2>1. PICK r \in Requests : FinalizeTerminal(r)
    BY <1>12
  <2> DEFINE j == receipt[r].job
  <2>2. j \in Jobs /\ Stored(j) /\ CanMove(j)
    BY <2>1, PresentIsReceiptRow DEF FinalizeTerminal, TerminalOwner, Started
  <2>3. Moved(j, "finalizing") \in JobRow
    BY <2>2, MovedIsRow DEF JobStates, ActiveStates
  <2> QED BY <2>1, <2>3 DEF FinalizeTerminal
<1>13. CASE \E r \in Requests, s \in FailureStates : FailTerminal(r, s)
  <2>1. PICK r \in Requests, s \in FailureStates : FailTerminal(r, s)
    BY <1>13
  <2> DEFINE j == receipt[r].job
  <2>2. j \in Jobs /\ Stored(j) /\ CanMove(j)
    BY <2>1, PresentIsReceiptRow DEF FailTerminal, TerminalOwner, Started
  <2>3. Moved(j, s) \in JobRow
    BY <2>2, MovedIsRow DEF JobStates
  <2> QED BY <2>1, <2>3 DEF FailTerminal
<1>14. CASE \E r \in Requests, p \in Payloads : BindStaged(r, p)
  BY <1>14 DEF BindStaged
<1>15. CASE \E r \in Requests, p \in Payloads : ReservePublication(r, p)
  <2>1. PICK r \in Requests, p \in Payloads : ReservePublication(r, p)
    BY <1>15
  <2> DEFINE j == receipt[r].job
  <2>2. j \in Jobs /\ Stored(j)
    BY <2>1, PresentIsReceiptRow DEF ReservePublication, StageAuthority, Started
  <2>3. [status |-> "eligible", orig |-> r, at |-> Fence(job[j]),
         epoch |-> epoch, pending |-> NoRow] \in AttemptRow
    BY <2>2, StoredIsRow DEF AttemptRow
  <2>4. retired' \subseteq Requests
    BY <2>1, <2>2 DEF ReservePublication, AttemptRow
  <2> QED BY <2>1, <2>3, <2>4 DEF ReservePublication
<1>16. CASE \E j \in Jobs, p \in Payloads, live \in BOOLEAN : CompletePublication(j, p, live)
  <2>1. PICK j \in Jobs, p \in Payloads, live \in BOOLEAN : CompletePublication(j, p, live)
    BY <1>16
  <2>2. Moved(j, "completed") \in JobRow /\ Fence(Moved(j, "completed")) \in FenceRow
    BY <2>1, MovedIsRow DEF CompletePublication, JobStates, TerminalStates
  <2>3. job'[j] = Moved(j, "completed")
    BY <2>1 DEF CompletePublication
  <2>4. [attempt[j] EXCEPT !.status = "finished", !.at = Fence(job'[j]),
                           !.pending = NoRow] \in AttemptRow
    <3>1. attempt[j] \in AttemptRow
      BY <2>1 DEF CompletePublication, PointerCurrent, Eligible
    <3> QED BY <3>1, <2>2, <2>3 DEF AttemptRow
  <2>5. Receipt(j, "started", Fence(job'[j])) \in ReceiptRow
    BY <2>2, <2>3, ReceiptIsRow
  <2>6. receipt' \in [Requests -> ReceiptRow \cup {NoRow}]
    BY <2>1, <2>5 DEF CompletePublication
  <2>7. [phase |-> "pending", activation |-> NoRow] \in CleanupRow
    BY DEF CleanupRow
  <2>8. /\ job' \in [Jobs -> JobRow \cup {NoRow}]
        /\ attempt' \in [Jobs -> AttemptRow \cup {NoRow}]
        /\ published' \in [Jobs -> Payloads \cup {NoRow}]
        /\ cleanup' \in [Jobs -> CleanupRow \cup {NoRow}]
    BY <2>1, <2>2, <2>4, <2>7 DEF CompletePublication
  <2> QED BY <2>1, <2>6, <2>8 DEF CompletePublication
<1>17. CASE \E r \in Requests : AbortRecovery(r)
  <2>1. PICK r \in Requests : AbortRecovery(r)
    BY <1>17
  <2> DEFINE j == receipt[r].job
  <2>2. receipt[r] \in ReceiptRow /\ j \in Jobs /\ Stored(j)
    BY <2>1, PresentIsReceiptRow DEF AbortRecovery
  <2>3. Aborted(r) \in ReceiptRow
    BY <2>2, StoredIsRow, ReceiptIsRow DEF Aborted
  <2>4. attempt[j] # NoRow => [attempt[j] EXCEPT !.pending = NoRow] \in AttemptRow
    BY <2>2 DEF AttemptRow
  <2> QED BY <2>1, <2>2, <2>3, <2>4 DEF AbortRecovery
<1>18. CASE \E j \in Jobs, recoverable \in BOOLEAN : PauseActive(j, recoverable)
  <2>1. PICK j \in Jobs, recoverable \in BOOLEAN : PauseActive(j, recoverable)
    BY <1>18
  <2>2. /\ job' \in [Jobs -> JobRow \cup {NoRow}]
        /\ job'[j] \in JobRow
    BY <2>1, MovedIsRow DEF PauseActive, JobStates
  <2> QED BY <2>1, <2>2, AdvancePointersTyped DEF PauseActive
<1>19. CASE AdvanceClaim
  BY <1>19 DEF AdvanceClaim, ClaimOrder
<1>20. CASE ClearClaim
  BY <1>20 DEF ClearClaim
<1>21. CASE \E j \in Jobs, q \in Requests \cup {NoRow} : ActivateCleanup(j, q)
  <2>1. PICK j \in Jobs, q \in Requests \cup {NoRow} : ActivateCleanup(j, q)
    BY <1>21
  <2>2. [cleanup[j] EXCEPT !.activation = epoch] \in CleanupRow
    BY <2>1 DEF ActivateCleanup, CleanupRow
  <2> QED BY <2>1, <2>2 DEF ActivateCleanup
<1>22. CASE \E j \in Jobs : AdvanceCleanup(j)
  <2>1. PICK j \in Jobs : AdvanceCleanup(j)
    BY <1>22
  <2>2. [cleanup[j] EXCEPT !.phase = CleanupOrder[@]] \in CleanupRow
    BY <2>1 DEF AdvanceCleanup, CleanupRow, CleanupOrder
  <2> QED BY <2>1, <2>2 DEF AdvanceCleanup
<1>23. CASE RecoverCold
  <2>1. ASSUME NEW j \in Jobs, Stored(j)
        PROVE  job'[j] \in JobRow
    <3>1. job[j] \in JobRow
      BY <2>1, StoredIsRow
    <3>2. CASE Open(j)
      <4>1. CanMove(j)
        BY <1>23, <3>2 DEF RecoverCold
      <4>2. job[j].rev + 1 \in Revisions
        BY <3>1, <4>1, BoundsAssumption DEF CanMove, JobRow, Revisions
      <4>3. "paused" \in JobStates
        BY DEF JobStates
      <4>4. job'[j] = [job[j] EXCEPT !.gen = @ + 1, !.rev = @ + 1, !.state = "paused"]
        BY <1>23, <3>2 DEF RecoverCold
      <4>5. job[j].gen + 1 \in Nat
        BY <3>1 DEF JobRow
      <4> QED BY <3>1, <4>2, <4>3, <4>4, <4>5 DEF JobRow
    <3>3. CASE ~Open(j)
      BY <1>23, <3>1, <3>3 DEF RecoverCold
    <3> QED BY <3>2, <3>3
  <2>2. job' \in [Jobs -> JobRow \cup {NoRow}]
    <3>1. \A j \in Jobs : ~Stored(j) => job'[j] = NoRow
      BY <1>23 DEF RecoverCold, Open, Stored
    <3>2. job' = [j \in Jobs |-> job'[j]]
      BY <1>23 DEF RecoverCold
    <3> QED BY <2>1, <3>1, <3>2
  <2>3. epoch' = epoch + 1 /\ gate' = "paused"
    BY <1>23 DEF RecoverCold
  <2>4. /\ attempt' \in [Jobs -> AttemptRow \cup {NoRow}]
        /\ receipt' \in [Requests -> ReceiptRow \cup {NoRow}]
    <3>1. PICK kept : AdvancePointers({j \in Jobs : Stored(j)}, kept)
      BY <1>23 DEF RecoverCold
    <3>2. epoch' \in Nat
      BY <2>3
    <3> QED BY <2>1, <2>2, <3>1, <3>2, AdvancePointersTyped
  <2>5. UNCHANGED <<retired, staged, published, claim, cleanup>>
    BY <1>23 DEF RecoverCold
  <2> QED BY <2>2, <2>3, <2>4, <2>5
<1>24. CASE UNCHANGED storeVars
  BY <1>24 DEF storeVars
<1> QED
  BY <1>1, <1>2, <1>3, <1>4, <1>5, <1>6, <1>7, <1>8, <1>9, <1>10, <1>11, <1>12,
     <1>13, <1>14, <1>15, <1>16, <1>17, <1>18, <1>19, <1>20, <1>21, <1>22, <1>23,
     <1>24 DEF StoreNext

LEMMA TypeInit == StoreInit => TypeOK
  BY BoundsAssumption DEF StoreInit, TypeOK

(***************************************************************************)
(* Every table holds rows of its declared shape in every reachable state.  *)
(***************************************************************************)
THEOREM TypeCorrect == StoreSpec => []TypeOK
<1>1. TypeOK /\ [StoreNext]_storeVars => TypeOK'
  BY TypeStep
<1> QED BY <1>1, TypeInit, PTL DEF StoreSpec

-----------------------------------------------------------------------------
(* How one transaction changes one job row.                                *)

Fenced(j) == [job[j] EXCEPT !.gen = @ + 1, !.rev = @ + 1, !.state = "paused"]

Controls(j) ==
  /\ Open(j)
  /\ \E a \in Actions :
       /\ Controlled(job[j], a) # job[j]
       /\ job'[j] = [Controlled(job[j], a) EXCEPT !.rev = @ + 1]

Admits(j) ==
  /\ job[j].state = "queued" /\ ~job[j].hold /\ ~OtherBody(j)
  /\ \A k \in Jobs \ {j} : job'[k] = job[k]
  /\ job'[j] = Moved(j, "resolving")
  /\ \E r \in Requests : receipt'[r] = Receipt(j, "pending", Fence(job'[j]))

RowStep(j) ==
  /\ CanMove(j)
  /\ \/ Controls(j)
     \/ Admits(j)
     \/ Open(j) /\ job'[j] \in {Moved(j, "paused"), Fenced(j)}
     \/ /\ job[j].state = "resolving" /\ job'[j] = Moved(j, "downloading")
        /\ \E r \in Requests : /\ Pending(r) /\ receipt[r].job = j
             /\ receipt'[r] = [receipt[r] EXCEPT !.at = Fence(job'[j])]
     \/ /\ job[j].state = "downloading"
        /\ \E s \in FailureStates \cup {"finalizing"} : job'[j] = Moved(j, s)
        /\ \E r \in Requests : /\ Started(r) /\ receipt[r].job = j /\ AtRow(r)
             /\ receipt'[r] = receipt[r]
     \/ /\ \E p \in Payloads, live \in BOOLEAN : CompletePublication(j, p, live)
        /\ PointerCurrent(j) /\ job'[j] = Moved(j, "completed")

\* A stored row changes in one of the ways RowStep lists, or not at all.
LEMMA RowChanges ==
  ASSUME TypeOK, [StoreNext]_storeVars, NEW k \in Jobs, Stored(k)
  PROVE  job'[k] = job[k] \/ RowStep(k)
<1> USE DEF TypeOK
<1>1. CASE \E j \in Jobs : JobAdd(j)
  BY <1>1 DEF JobAdd
<1>2. CASE \E j \in Jobs, recoverable \in BOOLEAN : SetGateContained(j, recoverable)
  <2>1. PICK j \in Jobs, recoverable \in BOOLEAN : SetGateContained(j, recoverable)
    BY <1>2
  <2>2. j = k /\ job'[k] # job[k] =>
          Open(k) /\ CanMove(k) /\ job'[k] = Moved(k, "paused")
    BY <2>1 DEF SetGateContained, Open, TerminalStates
  <2> QED BY <2>1, <2>2 DEF SetGateContained, RowStep
<1>3. CASE \E j \in Jobs, a \in Actions, contained, recoverable \in BOOLEAN :
             JobControl(j, a, contained, recoverable)
  <2>1. PICK j \in Jobs, a \in Actions, contained \in BOOLEAN, recoverable \in BOOLEAN :
               JobControl(j, a, contained, recoverable)
    BY <1>3
  <2>2. CASE j = k /\ Controlled(job[k], a) # job[k]
    <3>1. /\ Open(k) /\ CanMove(k)
          /\ job' = [job EXCEPT ![k] = [Controlled(job[k], a) EXCEPT !.rev = @ + 1]]
      BY <2>1, <2>2 DEF JobControl
    <3>2. job'[k] = [Controlled(job[k], a) EXCEPT !.rev = @ + 1]
      BY <3>1
    <3> QED BY <2>2, <3>1, <3>2 DEF RowStep, Controls
  <2>3. CASE ~(j = k /\ Controlled(job[k], a) # job[k])
    BY <2>1, <2>3 DEF JobControl
  <2> QED BY <2>2, <2>3
<1>4. CASE \E r \in Requests, j \in Jobs, ready, due \in BOOLEAN :
             AdmitDispatch(r, j, ready, due)
  <2>1. PICK r \in Requests, j \in Jobs, ready \in BOOLEAN, due \in BOOLEAN :
               AdmitDispatch(r, j, ready, due)
    BY <1>4
  <2>2. /\ job[j].state = "queued" /\ ~job[j].hold /\ ~OtherBody(j) /\ CanMove(j)
        /\ job' = [job EXCEPT ![j] = Moved(j, "resolving")]
        /\ receipt'[r] = Receipt(j, "pending", Fence(Moved(j, "resolving")))
    BY <2>1 DEF AdmitDispatch, DispatchVerdict
  <2> QED BY <2>2 DEF RowStep, Admits
<1>5. CASE \E r \in Requests : AdvanceToDownloading(r)
  <2>1. PICK r \in Requests : AdvanceToDownloading(r)
    BY <1>5
  <2>2. CASE receipt[r].job = k
    <3>1. /\ job[k].state = "resolving" /\ CanMove(k) /\ Pending(r)
          /\ job'[k] = Moved(k, "downloading")
          /\ receipt'[r] = [receipt[r] EXCEPT !.at = Fence(job'[k])]
      BY <2>1, <2>2 DEF AdvanceToDownloading, OwnsPending, AtRow, Fence
    <3> QED BY <2>2, <3>1 DEF RowStep
  <2>3. CASE receipt[r].job # k
    BY <2>1, <2>3 DEF AdvanceToDownloading
  <2> QED BY <2>2, <2>3
<1>6. CASE \E r \in Requests : AbortDispatch(r)
  <2>1. PICK r \in Requests : AbortDispatch(r)
    BY <1>6
  <2>2. receipt[r].job = k /\ job'[k] # job[k] =>
          Open(k) /\ CanMove(k) /\ job'[k] = Moved(k, "paused")
    BY <2>1 DEF AbortDispatch, Open, BodyStates, TerminalStates
  <2> QED BY <2>1, <2>2 DEF AbortDispatch, RowStep
<1>7. CASE \E r \in Requests : FinalizeTerminal(r)
  <2>1. PICK r \in Requests : FinalizeTerminal(r)
    BY <1>7
  <2>2. CASE receipt[r].job = k
    <3>1. /\ job[k].state = "downloading" /\ CanMove(k) /\ Started(r) /\ AtRow(r)
          /\ job'[k] = Moved(k, "finalizing") /\ receipt'[r] = receipt[r]
      BY <2>1, <2>2 DEF FinalizeTerminal, TerminalOwner, AtRow, Fence
    <3> QED BY <2>2, <3>1 DEF RowStep
  <2>3. CASE receipt[r].job # k
    BY <2>1, <2>3 DEF FinalizeTerminal
  <2> QED BY <2>2, <2>3
<1>8. CASE \E r \in Requests, s \in FailureStates : FailTerminal(r, s)
  <2>1. PICK r \in Requests, s \in FailureStates : FailTerminal(r, s)
    BY <1>8
  <2>2. CASE receipt[r].job = k
    <3>1. /\ job[k].state = "downloading" /\ CanMove(k) /\ Started(r) /\ AtRow(r)
          /\ job'[k] = Moved(k, s) /\ receipt'[r] = receipt[r]
      BY <2>1, <2>2 DEF FailTerminal, TerminalOwner, AtRow, Fence
    <3> QED BY <2>2, <3>1 DEF RowStep
  <2>3. CASE receipt[r].job # k
    BY <2>1, <2>3 DEF FailTerminal
  <2> QED BY <2>2, <2>3
<1>9. CASE \E j \in Jobs, p \in Payloads, live \in BOOLEAN : CompletePublication(j, p, live)
  <2>1. PICK j \in Jobs, p \in Payloads, live \in BOOLEAN : CompletePublication(j, p, live)
    BY <1>9
  <2>2. /\ PointerCurrent(j) /\ CanMove(j)
        /\ job' = [job EXCEPT ![j] = Moved(j, "completed")]
    BY <2>1 DEF CompletePublication
  <2> QED BY <2>1, <2>2 DEF RowStep
<1>10. CASE \E j \in Jobs, recoverable \in BOOLEAN : PauseActive(j, recoverable)
  BY <1>10 DEF PauseActive, RowStep, Open, TerminalStates
<1>11. CASE RecoverCold
  BY <1>11 DEF RecoverCold, RowStep, Fenced
<1>12. CASE \/ \E g \in {"paused", "running"} : SetGate(g)
            \/ \E r \in Requests, j \in Jobs, exact, ready, due \in BOOLEAN :
                 RefuseDispatch(r, j, exact, ready, due)
            \/ \E r \in Requests, j \in Jobs : AdmitRecovery(r, j)
            \/ \E r \in Requests : ReplayPending(r)
            \/ \E r \in Requests : FinishDispatch(r)
            \/ \E r \in Requests, p \in Payloads : BindStaged(r, p)
            \/ \E r \in Requests, p \in Payloads : ReservePublication(r, p)
            \/ \E r \in Requests : AbortRecovery(r)
            \/ AdvanceClaim \/ ClearClaim
            \/ \E j \in Jobs, q \in Requests \cup {NoRow} : ActivateCleanup(j, q)
            \/ \E j \in Jobs : AdvanceCleanup(j)
            \/ UNCHANGED storeVars
  <2>1. UNCHANGED job
    BY <1>12 DEF SetGate, RefuseDispatch, AdmitRecovery, ReplayPending,
       FinishDispatch, BindStaged, ReservePublication, AbortRecovery, AdvanceClaim,
       ClearClaim, ActivateCleanup, AdvanceCleanup, storeVars
  <2> QED BY <2>1
<1> QED
  BY <1>1, <1>2, <1>3, <1>4, <1>5, <1>6, <1>7, <1>8, <1>9, <1>10, <1>11, <1>12
  DEF StoreNext

\* Such a change raises the revision by one, and the row remains a row.
LEMMA RowStepFenced ==
  ASSUME NEW k \in Jobs, job[k] \in JobRow, RowStep(k)
  PROVE  /\ job'[k] \in JobRow
         /\ job'[k].rev = job[k].rev + 1
         /\ job'[k].gen >= job[k].gen
<1>1. job[k].rev + 1 \in Revisions /\ job[k].rev < MaxRevision
  BY BoundsAssumption DEF RowStep, CanMove, JobRow, Revisions
<1>2. ASSUME NEW s \in JobStates, job'[k] = Moved(k, s)
      PROVE  /\ job'[k] \in JobRow
             /\ job'[k].rev = job[k].rev + 1
             /\ job'[k].gen >= job[k].gen
  <2>1. Moved(k, s) = [job[k] EXCEPT !.state = s, !.rev = job[k].rev + 1]
    BY DEF Moved
  <2>2. job[k].gen \in Nat /\ job[k].gen >= job[k].gen
    BY DEF JobRow
  <2> QED BY <1>1, <1>2, <2>1, <2>2 DEF JobRow
<1>3. {"paused", "resolving", "downloading", "finalizing", "completed"}
        \cup FailureStates \subseteq JobStates
  BY DEF JobStates, TerminalStates, ActiveStates, BodyStates
<1>4. CASE Controls(k)
  <2>1. PICK a \in Actions : job'[k] = [Controlled(job[k], a) EXCEPT !.rev = @ + 1]
    BY <1>4 DEF Controls
  <2>2. /\ Controlled(job[k], a) \in JobRow /\ Controlled(job[k], a).rev = job[k].rev
        /\ Controlled(job[k], a).gen = job[k].gen
    BY ControlledTyped DEF Controlled, Actions, JobRow
  <2> DEFINE c == Controlled(job[k], a)
  <2>3. c \in JobRow /\ c.rev < MaxRevision
    BY <1>1, <2>2
  <2>4. [c EXCEPT !.rev = @ + 1] \in JobRow
    BY <2>3, RaisedIsRow
  <2>5. [c EXCEPT !.rev = @ + 1].rev = c.rev + 1 /\ [c EXCEPT !.rev = @ + 1].gen = c.gen
    BY <2>3 DEF JobRow
  <2>6. job[k].gen >= job[k].gen
    BY DEF JobRow
  <2> QED BY <2>1, <2>2, <2>4, <2>5, <2>6
<1>5. CASE job'[k] = Fenced(k)
  <2>1. job[k].gen + 1 \in Nat /\ job[k].gen + 1 >= job[k].gen
    BY DEF JobRow
  <2> QED BY <1>1, <1>3, <1>5, <2>1 DEF Fenced, JobRow
<1>6. CASE \E s \in JobStates : job'[k] = Moved(k, s)
  BY <1>2, <1>6
<1> QED BY <1>3, <1>4, <1>5, <1>6 DEF RowStep, Admits

\* Rows never go away.
LEMMA StoredStays ==
  ASSUME TypeOK, [StoreNext]_storeVars, NEW k \in Jobs, Stored(k)
  PROVE  Stored(k)' /\ job'[k] \in JobRow
<1>1. job[k] \in JobRow
  BY StoredIsRow
<1>2. job'[k] \in JobRow
  BY <1>1, RowChanges, RowStepFenced
<1> QED BY <1>2, NoRowAssumption DEF Stored

\* A row that is not there stays away or is added as a queued, unheld job.
LEMMA RowAppears ==
  ASSUME TypeOK, [StoreNext]_storeVars, NEW k \in Jobs, ~Stored(k)
  PROVE  Stored(k)' => job'[k].state = "queued" /\ ~job'[k].hold
<1> USE DEF TypeOK, Stored
<1>1. CASE \E j \in Jobs : JobAdd(j)
  BY <1>1 DEF JobAdd
<1>2. CASE \E j \in Jobs, recoverable \in BOOLEAN : SetGateContained(j, recoverable)
  BY <1>2 DEF SetGateContained
<1>3. CASE \E j \in Jobs, a \in Actions, contained, recoverable \in BOOLEAN :
             JobControl(j, a, contained, recoverable)
  BY <1>3 DEF JobControl, Open
<1>4. CASE \E r \in Requests, j \in Jobs, ready, due \in BOOLEAN :
             AdmitDispatch(r, j, ready, due)
  BY <1>4 DEF AdmitDispatch
<1>5. CASE \E r \in Requests : AdvanceToDownloading(r)
  BY <1>5 DEF AdvanceToDownloading, OwnsPending
<1>6. CASE \E r \in Requests : AbortDispatch(r)
  BY <1>6 DEF AbortDispatch
<1>7. CASE \E r \in Requests : FinalizeTerminal(r)
  BY <1>7 DEF FinalizeTerminal, TerminalOwner
<1>8. CASE \E r \in Requests, s \in FailureStates : FailTerminal(r, s)
  BY <1>8 DEF FailTerminal, TerminalOwner
<1>9. CASE \E j \in Jobs, p \in Payloads, live \in BOOLEAN : CompletePublication(j, p, live)
  BY <1>9 DEF CompletePublication
<1>10. CASE \E j \in Jobs, recoverable \in BOOLEAN : PauseActive(j, recoverable)
  BY <1>10 DEF PauseActive
<1>11. CASE RecoverCold
  BY <1>11 DEF RecoverCold, Open
<1>12. CASE \/ \E g \in {"paused", "running"} : SetGate(g)
            \/ \E r \in Requests, j \in Jobs, exact, ready, due \in BOOLEAN :
                 RefuseDispatch(r, j, exact, ready, due)
            \/ \E r \in Requests, j \in Jobs : AdmitRecovery(r, j)
            \/ \E r \in Requests : ReplayPending(r)
            \/ \E r \in Requests : FinishDispatch(r)
            \/ \E r \in Requests, p \in Payloads : BindStaged(r, p)
            \/ \E r \in Requests, p \in Payloads : ReservePublication(r, p)
            \/ \E r \in Requests : AbortRecovery(r)
            \/ AdvanceClaim \/ ClearClaim
            \/ \E j \in Jobs, q \in Requests \cup {NoRow} : ActivateCleanup(j, q)
            \/ \E j \in Jobs : AdvanceCleanup(j)
            \/ UNCHANGED storeVars
  <2>1. UNCHANGED job
    BY <1>12 DEF SetGate, RefuseDispatch, AdmitRecovery, ReplayPending,
       FinishDispatch, BindStaged, ReservePublication, AbortRecovery, AdvanceClaim,
       ClearClaim, ActivateCleanup, AdvanceCleanup, storeVars
  <2> QED BY <2>1
<1> QED
  BY <1>1, <1>2, <1>3, <1>4, <1>5, <1>6, <1>7, <1>8, <1>9, <1>10, <1>11, <1>12
  DEF StoreNext

-----------------------------------------------------------------------------
(* Holds and bodies.                                                       *)

\* A control leaves a held row paused or removed, and starts no body.
LEMMA ControlledIdle ==
  ASSUME NEW row \in JobRow, NEW a \in Actions
  PROVE  /\ Controlled(row, a).hold => Controlled(row, a).state \in {"paused", "removed"}
         /\ Controlled(row, a).state \in BodyStates => row.state \in BodyStates
<1>1. CASE a = "pause" BY <1>1 DEF Controlled, JobRow, BodyStates
<1>2. CASE a = "resume" BY <1>2 DEF Controlled, JobRow, BodyStates
<1>3. CASE a = "remove" BY <1>3 DEF Controlled, JobRow, BodyStates
<1>4. CASE a = "start_now" BY <1>4 DEF Controlled, JobRow, BodyStates
<1> QED BY <1>1, <1>2, <1>3, <1>4 DEF Actions

\* Raising the revision leaves state and hold alone.
LEMMA RaisedKeeps ==
  ASSUME NEW row \in JobRow
  PROVE  LET up == [row EXCEPT !.rev = @ + 1]
         IN up.state = row.state /\ up.hold = row.hold
  BY DEF JobRow

(***************************************************************************)
(* The user's hold keeps its promise: whatever controls, dispatches, gates *)
(* and restarts are called in whatever order, a held job is never at work. *)
(***************************************************************************)
THEOREM HoldKept == StoreSpec => []HeldIsIdle
<1>1. StoreInit => HeldIsIdle
  BY DEF StoreInit, HeldIsIdle, Stored
<1>2. TypeOK /\ HeldIsIdle /\ [StoreNext]_storeVars => HeldIsIdle'
  <2> SUFFICES ASSUME TypeOK, HeldIsIdle, [StoreNext]_storeVars,
                      NEW k \in Jobs, Stored(k)', job'[k].hold
               PROVE  job'[k].state \in {"paused", "removed", "completed"}
    BY DEF HeldIsIdle
  <2>1. CASE ~Stored(k)
    BY <2>1, RowAppears
  <2>2. CASE Stored(k)
    <3>1. job[k] \in JobRow
      BY <2>2, StoredIsRow
    <3>2. job[k].hold => job[k].state \in {"paused", "removed", "completed"}
      BY <2>2 DEF HeldIsIdle
    <3>3. CASE job'[k] = job[k]
      BY <3>2, <3>3
    <3>4. CASE Controls(k)
      <4>1. PICK a \in Actions : job'[k] = [Controlled(job[k], a) EXCEPT !.rev = @ + 1]
        BY <3>4 DEF Controls
      <4> QED BY <3>1, <4>1, ControlledTyped, ControlledIdle, RaisedKeeps
    <3>5. CASE Admits(k)
      BY <3>1, <3>5 DEF Admits, Moved, JobRow
    <3>6. CASE job'[k] \in {Moved(k, "paused"), Fenced(k)}
      BY <3>1, <3>6 DEF Moved, Fenced, JobRow
    <3>7. CASE job[k].state = "resolving" /\ job'[k] = Moved(k, "downloading")
      BY <3>1, <3>2, <3>7 DEF Moved, JobRow
    <3>8. CASE /\ job[k].state = "downloading"
               /\ \E s \in FailureStates \cup {"finalizing"} : job'[k] = Moved(k, s)
      BY <3>1, <3>2, <3>8 DEF Moved, JobRow
    <3>9. CASE job'[k] = Moved(k, "completed")
      BY <3>1, <3>9 DEF Moved, JobRow
    <3> QED
      BY <2>2, <3>3, <3>4, <3>5, <3>6, <3>7, <3>8, <3>9, RowChanges DEF RowStep
  <2> QED BY <2>1, <2>2
<1> QED BY <1>1, <1>2, TypeCorrect, PTL DEF StoreSpec

\* A row with a body had one before the step, or was admitted by it.
LEMMA BodyFrom ==
  ASSUME TypeOK, [StoreNext]_storeVars, NEW k \in Jobs,
         Stored(k)', job'[k].state \in BodyStates
  PROVE  Stored(k) /\ (job[k].state \in BodyStates \/ Admits(k))
<1>1. Stored(k)
  BY RowAppears DEF BodyStates
<1>2. job[k] \in JobRow
  BY <1>1, StoredIsRow
<1>3. CASE Controls(k)
  <2>1. PICK a \in Actions : job'[k] = [Controlled(job[k], a) EXCEPT !.rev = @ + 1]
    BY <1>3 DEF Controls
  <2> QED BY <1>1, <1>2, <2>1, ControlledTyped, ControlledIdle, RaisedKeeps
<1>4. CASE job'[k] \in {Moved(k, "paused"), Fenced(k)}
  BY <1>2, <1>4 DEF Moved, Fenced, JobRow, BodyStates
<1>5. CASE job[k].state = "resolving" \/ job[k].state = "downloading"
  BY <1>1, <1>5 DEF BodyStates
<1>6. CASE job'[k] = Moved(k, "completed")
  BY <1>2, <1>6 DEF Moved, JobRow, BodyStates
<1> QED BY <1>1, <1>3, <1>4, <1>5, <1>6, RowChanges DEF RowStep

(***************************************************************************)
(* At most one job of the store may have a body in flight, for any number  *)
(* of jobs and dispatch requests.                                          *)
(***************************************************************************)
THEOREM OneBodyOnly == StoreSpec => []OneBody
<1>1. StoreInit => OneBody
  BY DEF StoreInit, OneBody, Stored
<1>2. TypeOK /\ OneBody /\ [StoreNext]_storeVars => OneBody'
  <2> SUFFICES ASSUME TypeOK, OneBody, [StoreNext]_storeVars,
                      NEW j \in Jobs, NEW k \in Jobs, j # k,
                      Stored(j)', job'[j].state \in BodyStates,
                      Stored(k)', job'[k].state \in BodyStates
               PROVE  FALSE
    BY DEF OneBody
  <2>1. /\ Stored(j) /\ (job[j].state \in BodyStates \/ Admits(j))
        /\ Stored(k) /\ (job[k].state \in BodyStates \/ Admits(k))
    BY BodyFrom
  <2>2. CASE Admits(j)
    <3>1. job'[k] = job[k]
      BY <2>2 DEF Admits
    <3> QED BY <2>1, <2>2, <3>1 DEF Admits, OtherBody
  <2>3. CASE Admits(k)
    <3>1. job'[j] = job[j]
      BY <2>3 DEF Admits
    <3> QED BY <2>1, <2>3, <3>1 DEF Admits, OtherBody
  <2> QED BY <2>1, <2>2, <2>3 DEF OneBody
<1> QED BY <1>1, <1>2, TypeCorrect, PTL DEF StoreSpec

-----------------------------------------------------------------------------
(* An eligible attempt and its pending receipt.                            *)

\* EligibleIsCurrent for one job.
Current(k) ==
  Eligible(k) => /\ Stored(k) /\ PointerCurrent(k)
                 /\ job[k].state \in {"finalizing", "paused"}

\* The pending receipt of an eligible attempt is that attempt's own.
LEMMA PendingIsOwn ==
  ASSUME TypeOK, NEW k \in Jobs, Current(k), Eligible(k), attempt[k].pending # NoRow
  PROVE  LET r == attempt[k].pending IN
         /\ r \in Requests /\ Pending(r)
         /\ receipt[r].job = k /\ receipt[r].at = Fence(job[k])
         /\ receipt[r].at.state \in {"finalizing", "paused"}
<1>1. attempt[k] \in AttemptRow
  BY DEF TypeOK, Eligible
<1>2. receipt[attempt[k].pending] =
        [job |-> k, status |-> "pending", at |-> Fence(job[k])]
  BY DEF Current, PointerCurrent
<1>3. receipt[attempt[k].pending] \in ReceiptRow
  <2>1. Fence(job[k]) \in FenceRow
    BY StoredIsRow DEF Current
  <2> QED BY <1>2, <2>1 DEF ReceiptRow
<1>4. Fence(job[k]).state = job[k].state
  BY DEF Fence
<1> QED BY <1>1, <1>2, <1>3, <1>4, NoRowAssumption DEF AttemptRow, Pending, Current

\* What a step leaves alone stays current.
LEMMA CurrentKept ==
  ASSUME NEW k \in Jobs, Current(k),
         attempt'[k] = attempt[k], job'[k] = job[k], epoch' = epoch,
         Eligible(k) /\ attempt[k].pending # NoRow =>
           receipt'[attempt[k].pending] = receipt[attempt[k].pending]
  PROVE  Current(k)'
  BY DEF Current, Eligible, PointerCurrent, Stored, Fence

\* An attempt that AdvancePointers moves stays eligible only at a paused row.
LEMMA CurrentAdvanced ==
  ASSUME TypeOK, NEW S, NEW kept, AdvancePointers(S, kept),
         NEW k \in Jobs, k \in S, Eligible(k), Stored(k)'
  PROVE  Current(k)'
<1>1. attempt[k] \in AttemptRow
  BY DEF TypeOK, Eligible
<1>2. attempt'[k] = Advanced(k, k \in kept /\ job'[k].state = "paused")
  BY DEF AdvancePointers
<1>3. /\ attempt'[k].status = "eligible" => job'[k].state = "paused"
      /\ attempt'[k].at = Fence(job'[k]) /\ attempt'[k].epoch = epoch'
      /\ attempt'[k].pending = NoRow
  BY <1>1, <1>2 DEF Advanced, AttemptRow
<1> QED BY <1>3 DEF Current, Eligible, PointerCurrent, Fence

\* An attempt that AdvancePointers does not move stays current with its row.
LEMMA CurrentSpared ==
  ASSUME TypeOK, NEW S, NEW kept, AdvancePointers(S, kept),
         NEW k \in Jobs, Current(k), k \notin S \/ ~Eligible(k),
         job'[k] = job[k], epoch' = epoch
  PROVE  Current(k)'
<1>1. attempt'[k] = attempt[k]
  BY DEF AdvancePointers
<1>2. CASE Eligible(k) /\ attempt[k].pending # NoRow
  <2>1. /\ attempt[k].pending \in Requests
        /\ receipt[attempt[k].pending].job = k
    BY <1>2, PendingIsOwn
  <2>2. receipt'[attempt[k].pending] = receipt[attempt[k].pending]
    BY <1>2, <2>1 DEF AdvancePointers
  <2> QED BY <1>1, <2>2, CurrentKept
<1>3. CASE ~(Eligible(k) /\ attempt[k].pending # NoRow)
  BY <1>1, <1>3, CurrentKept
<1> QED BY <1>2, <1>3

\* A transaction on job j that advances j's pointer leaves every attempt current.
LEMMA CurrentMoved ==
  ASSUME TypeOK, [StoreNext]_storeVars, NEW j \in Jobs, NEW k \in Jobs,
         Current(k), epoch' = epoch,
         \A i \in Jobs \ {j} : job'[i] = job[i],
         NEW S, NEW kept, AdvancePointers(S, kept),
         S = {j} \/ (S = {} /\ job'[j] = job[j])
  PROVE  Current(k)'
<1>1. CASE k \in S /\ Eligible(k)
  BY <1>1, StoredStays, CurrentAdvanced DEF Current
<1>2. CASE k \in S /\ ~Eligible(k)
  BY <1>2 DEF AdvancePointers, Current, Eligible
<1>3. CASE k \notin S
  BY <1>3, CurrentSpared
<1> QED BY <1>1, <1>2, <1>3

\* No transaction leaves an eligible attempt behind its row.
LEMMA CurrentStep ==
  ASSUME TypeOK, EligibleIsCurrent, [StoreNext]_storeVars, NEW k \in Jobs
  PROVE  Current(k)'
<1>0. Current(k)
  BY DEF EligibleIsCurrent, Current
<1>1. CASE \E j \in Jobs : JobAdd(j)
  BY <1>0, <1>1, CurrentKept DEF JobAdd, Current, TypeOK, Stored, Eligible
<1>2. CASE \E j \in Jobs, recoverable \in BOOLEAN : SetGateContained(j, recoverable)
  <2>1. PICK j \in Jobs, recoverable \in BOOLEAN : SetGateContained(j, recoverable)
    BY <1>2
  <2>2. \A i \in Jobs \ {j} : job'[i] = job[i]
    BY <2>1 DEF SetGateContained, TypeOK
  <2> QED BY <1>0, <2>1, <2>2, CurrentMoved DEF SetGateContained
<1>3. CASE \E j \in Jobs, a \in Actions, contained, recoverable \in BOOLEAN :
             JobControl(j, a, contained, recoverable)
  <2>1. PICK j \in Jobs, a \in Actions, contained \in BOOLEAN, recoverable \in BOOLEAN :
               JobControl(j, a, contained, recoverable)
    BY <1>3
  <2>2. \A i \in Jobs \ {j} : job'[i] = job[i]
    BY <2>1 DEF JobControl
  <2>3. PICK S, kept : /\ AdvancePointers(S, kept)
                       /\ S = {j} \/ (S = {} /\ job' = job)
    BY <2>1 DEF JobControl
  <2>4. epoch' = epoch
    BY <2>1 DEF JobControl
  <2> QED BY <1>0, <2>2, <2>3, <2>4, CurrentMoved
<1>4. CASE \E r \in Requests, j \in Jobs, exact, ready, due \in BOOLEAN :
             RefuseDispatch(r, j, exact, ready, due)
  BY <1>0, <1>4, CurrentKept, PendingIsOwn DEF RefuseDispatch, TypeOK, Pending
<1>5. CASE \E r \in Requests, j \in Jobs, ready, due \in BOOLEAN :
             AdmitDispatch(r, j, ready, due)
  <2>1. PICK r \in Requests, j \in Jobs, ready \in BOOLEAN, due \in BOOLEAN :
               AdmitDispatch(r, j, ready, due)
    BY <1>5
  <2>2. /\ receipt[r] = NoRow /\ job[j].state = "queued"
        /\ job' = [job EXCEPT ![j] = Moved(j, "resolving")]
        /\ receipt' = [receipt EXCEPT ![r] =
             Receipt(j, "pending", Fence(Moved(j, "resolving")))]
        /\ epoch' = epoch /\ attempt' = attempt
    BY <2>1 DEF AdmitDispatch, DispatchVerdict
  <2>3. CASE Eligible(k)
    <3>1. j # k
      BY <1>0, <2>2, <2>3 DEF Current
    <3>2. job'[k] = job[k]
      BY <2>2, <3>1 DEF TypeOK
    <3>3. attempt[k].pending # NoRow =>
            receipt'[attempt[k].pending] = receipt[attempt[k].pending]
      BY <1>0, <2>2, <2>3, PendingIsOwn DEF Pending, TypeOK
    <3> QED BY <1>0, <2>2, <3>2, <3>3, CurrentKept
  <2>4. CASE ~Eligible(k)
    BY <2>2, <2>4 DEF Current, Eligible
  <2> QED BY <2>3, <2>4
<1>6. CASE \E r \in Requests, j \in Jobs : AdmitRecovery(r, j)
  <2>1. PICK r \in Requests, j \in Jobs : AdmitRecovery(r, j)
    BY <1>6
  <2>2. /\ receipt[r] = NoRow /\ Eligible(j)
        /\ receipt' = [receipt EXCEPT ![r] = Receipt(j, "pending", Fence(job[j]))]
        /\ attempt' = [attempt EXCEPT ![j].pending = r]
        /\ UNCHANGED <<job, epoch>>
    BY <2>1 DEF AdmitRecovery, DispatchVerdict
  <2>3. CASE j = k
    <3>1. attempt[k] \in AttemptRow
      BY <2>2, <2>3 DEF Eligible, TypeOK
    <3>2. attempt'[k] = [attempt[k] EXCEPT !.pending = r]
      BY <2>2, <2>3 DEF TypeOK
    <3>3. receipt'[r] = [job |-> k, status |-> "pending", at |-> Fence(job[k])]
      BY <2>2, <2>3 DEF Receipt, TypeOK
    <3>4. /\ attempt'[k].pending = r /\ attempt'[k].status = "eligible"
          /\ attempt'[k].at = attempt[k].at /\ attempt'[k].epoch = attempt[k].epoch
      BY <2>2, <2>3, <3>1, <3>2 DEF Eligible, AttemptRow
    <3> QED
      BY <1>0, <2>2, <2>3, <3>3, <3>4
      DEF Current, PointerCurrent, Eligible, Stored, Fence
  <2>4. CASE j # k
    <3>1. attempt'[k] = attempt[k]
      BY <2>2, <2>4 DEF TypeOK
    <3>2. Eligible(k) /\ attempt[k].pending # NoRow =>
            receipt'[attempt[k].pending] = receipt[attempt[k].pending]
      BY <1>0, <2>2, PendingIsOwn DEF Pending, TypeOK
    <3> QED BY <1>0, <2>2, <3>1, <3>2, CurrentKept
  <2> QED BY <2>3, <2>4
<1>7. CASE \E r \in Requests : ReplayPending(r)
  <2>1. PICK r \in Requests : ReplayPending(r)
    BY <1>7
  <2>2. Eligible(k) /\ attempt[k].pending # NoRow => attempt[k].pending # r
    BY <1>0, <2>1, PendingIsOwn DEF ReplayPending
  <2> QED BY <1>0, <2>1, <2>2, CurrentKept, PendingIsOwn DEF ReplayPending, TypeOK
<1>8. CASE \E r \in Requests : AdvanceToDownloading(r)
  <2>1. PICK r \in Requests : AdvanceToDownloading(r)
    BY <1>8
  <2>2. /\ receipt[r].at.state = "resolving"
        /\ job[receipt[r].job].state = "resolving"
    BY <2>1 DEF AdvanceToDownloading, OwnsPending, AtRow, Fence
  <2>3. Eligible(k) => k # receipt[r].job
    BY <1>0, <2>2 DEF Current
  <2>4. Eligible(k) /\ attempt[k].pending # NoRow => attempt[k].pending # r
    BY <1>0, <2>2, PendingIsOwn
  <2>5. Eligible(k) => job'[k] = job[k]
    BY <2>1, <2>3 DEF AdvanceToDownloading, TypeOK
  <2>6. CASE Eligible(k)
    BY <1>0, <2>1, <2>4, <2>5, <2>6, CurrentKept, PendingIsOwn
    DEF AdvanceToDownloading, TypeOK
  <2>7. CASE ~Eligible(k)
    BY <2>1, <2>7 DEF AdvanceToDownloading, Current, Eligible
  <2> QED BY <2>6, <2>7
<1>9. CASE \E r \in Requests : FinishDispatch(r)
  <2>1. PICK r \in Requests : FinishDispatch(r)
    BY <1>9
  <2>2. Eligible(k) /\ attempt[k].pending # NoRow => attempt[k].pending # r
    BY <1>0, <2>1, PendingIsOwn DEF FinishDispatch, OwnsPending
  <2> QED BY <1>0, <2>1, <2>2, CurrentKept, PendingIsOwn DEF FinishDispatch, TypeOK
<1>10. CASE \E r \in Requests : AbortDispatch(r)
  <2>1. PICK r \in Requests : AbortDispatch(r)
    BY <1>10
  <2>2. Eligible(k) /\ attempt[k].pending # NoRow =>
          receipt'[attempt[k].pending] = receipt[attempt[k].pending]
    <3>1. Eligible(k) /\ attempt[k].pending # NoRow => attempt[k].pending # r
      BY <1>0, <2>1, PendingIsOwn DEF AbortDispatch, BodyStates
    <3> QED BY <1>0, <2>1, <3>1, PendingIsOwn DEF AbortDispatch, TypeOK
  <2>3. Eligible(k) => job'[k] = job[k]
    BY <1>0, <2>1 DEF AbortDispatch, BodyStates, Current, TypeOK
  <2>4. CASE Eligible(k)
    BY <1>0, <2>1, <2>2, <2>3, <2>4, CurrentKept DEF AbortDispatch
  <2>5. CASE ~Eligible(k)
    BY <2>1, <2>5 DEF AbortDispatch, Current, Eligible
  <2> QED BY <2>4, <2>5
<1>11. CASE \E r \in Requests : \/ FinalizeTerminal(r)
                                \/ \E s \in FailureStates : FailTerminal(r, s)
  <2>1. PICK r \in Requests : \/ FinalizeTerminal(r)
                              \/ \E s \in FailureStates : FailTerminal(r, s)
    BY <1>11
  <2>2. PICK s : /\ TerminalOwner(r)
                 /\ job' = [job EXCEPT ![receipt[r].job] = Moved(receipt[r].job, s)]
                 /\ UNCHANGED <<epoch, receipt, attempt>>
    BY <2>1 DEF FinalizeTerminal, FailTerminal
  <2>3. job[receipt[r].job].state = "downloading"
    BY <2>2 DEF TerminalOwner, AtRow, Fence
  <2>4. Eligible(k) => job'[k] = job[k]
    BY <1>0, <2>2, <2>3 DEF Current, TypeOK
  <2>5. CASE Eligible(k)
    BY <1>0, <2>2, <2>4, <2>5, CurrentKept
  <2>6. CASE ~Eligible(k)
    BY <2>2, <2>6 DEF Current, Eligible
  <2> QED BY <2>5, <2>6
<1>12. CASE \E r \in Requests, p \in Payloads : ReservePublication(r, p)
  <2>1. PICK r \in Requests, p \in Payloads : ReservePublication(r, p)
    BY <1>12
  <2>2. CASE k = receipt[r].job
    <3>1. attempt'[k] = [status |-> "eligible", orig |-> r, at |-> Fence(job[k]),
                         epoch |-> epoch, pending |-> NoRow]
      BY <2>1, <2>2 DEF ReservePublication, TypeOK
    <3>2. Stored(k) /\ job[k].state = "finalizing"
      BY <2>1, <2>2 DEF ReservePublication, StageAuthority, Finalized, Fence
    <3>3. job' = job /\ epoch' = epoch
      BY <2>1 DEF ReservePublication
    <3> QED
      BY <3>1, <3>2, <3>3 DEF Current, Eligible, PointerCurrent, Stored, Fence
  <2>3. CASE k # receipt[r].job
    BY <1>0, <2>1, <2>3, CurrentKept DEF ReservePublication, TypeOK
  <2> QED BY <2>2, <2>3
<1>13. CASE \E j \in Jobs, p \in Payloads, live \in BOOLEAN : CompletePublication(j, p, live)
  <2>1. PICK j \in Jobs, p \in Payloads, live \in BOOLEAN : CompletePublication(j, p, live)
    BY <1>13
  <2>2. CASE k = j
    <3>1. attempt[k] \in AttemptRow
      BY <2>1, <2>2 DEF CompletePublication, PointerCurrent, Eligible, TypeOK
    <3>2. attempt'[k].status = "finished"
      BY <2>1, <2>2, <3>1 DEF CompletePublication, TypeOK, AttemptRow
    <3> QED BY <3>2 DEF Current, Eligible
  <2>3. CASE k # j
    <3>1. job'[k] = job[k] /\ attempt'[k] = attempt[k] /\ epoch' = epoch
      BY <2>1, <2>3 DEF CompletePublication, TypeOK
    <3>2. ASSUME Eligible(k), attempt[k].pending # NoRow
          PROVE  receipt'[attempt[k].pending] = receipt[attempt[k].pending]
      <4>1. /\ attempt[k].pending \in Requests
            /\ receipt[attempt[k].pending].job = k
        BY <1>0, <3>2, PendingIsOwn
      <4>2. attempt[j].pending # NoRow => receipt[attempt[j].pending].job = j
        BY <2>1 DEF CompletePublication, PointerCurrent
      <4>3. attempt[k].pending # attempt[j].pending
        BY <2>3, <3>2, <4>1, <4>2
      <4> QED BY <2>1, <4>1, <4>3 DEF CompletePublication
    <3> QED BY <1>0, <3>1, <3>2, CurrentKept
  <2> QED BY <2>2, <2>3
<1>14. CASE \E r \in Requests : AbortRecovery(r)
  <2>1. PICK r \in Requests : AbortRecovery(r)
    BY <1>14
  <2>2. job' = job /\ epoch' = epoch
    BY <2>1 DEF AbortRecovery
  <2>3. CASE Eligible(k) /\ attempt[k].pending = r
    <3>1. /\ attempt[k] \in AttemptRow /\ receipt[r].job = k
      BY <1>0, <2>3, NoRowAssumption, PendingIsOwn DEF TypeOK, Eligible
    <3>2. attempt'[k] = [attempt[k] EXCEPT !.pending = NoRow]
      BY <2>1, <2>3, <3>1 DEF AbortRecovery, TypeOK, Eligible
    <3>3. /\ attempt'[k].pending = NoRow /\ attempt'[k].at = attempt[k].at
          /\ attempt'[k].epoch = attempt[k].epoch
      BY <3>1, <3>2 DEF AttemptRow
    <3> QED
      BY <1>0, <2>2, <2>3, <3>3 DEF Current, PointerCurrent, Eligible, Stored, Fence
  <2>4. CASE ~Eligible(k)
    <3>1. CASE receipt[r].job = k /\ attempt[k] # NoRow /\ attempt[k].pending = r
      <4>1. attempt[k] \in AttemptRow
        BY <3>1 DEF TypeOK
      <4>2. attempt'[k] = [attempt[k] EXCEPT !.pending = NoRow]
        BY <2>1, <3>1 DEF AbortRecovery, TypeOK
      <4>3. attempt'[k].status = attempt[k].status
        BY <4>1, <4>2 DEF AttemptRow
      <4> QED BY <2>4, <3>1, <4>3 DEF Current, Eligible
    <3>2. CASE ~(receipt[r].job = k /\ attempt[k] # NoRow /\ attempt[k].pending = r)
      <4>1. attempt'[k] = attempt[k]
        BY <2>1, <3>2 DEF AbortRecovery, TypeOK
      <4> QED BY <2>4, <4>1 DEF Current, Eligible
    <3> QED BY <3>1, <3>2
  <2>5. CASE Eligible(k) /\ attempt[k].pending # r
    <3>1. attempt'[k] = attempt[k]
      BY <2>1, <2>5 DEF AbortRecovery, TypeOK
    <3>2. attempt[k].pending # NoRow =>
            receipt'[attempt[k].pending] = receipt[attempt[k].pending]
      BY <1>0, <2>1, <2>5, PendingIsOwn DEF AbortRecovery, TypeOK
    <3> QED BY <1>0, <2>2, <2>5, <3>1, <3>2, CurrentKept
  <2> QED BY <2>3, <2>4, <2>5
<1>15. CASE \E j \in Jobs, recoverable \in BOOLEAN : PauseActive(j, recoverable)
  <2>1. PICK j \in Jobs, recoverable \in BOOLEAN : PauseActive(j, recoverable)
    BY <1>15
  <2>2. \A i \in Jobs \ {j} : job'[i] = job[i]
    BY <2>1 DEF PauseActive, TypeOK
  <2> QED BY <1>0, <2>1, <2>2, CurrentMoved DEF PauseActive
<1>16. CASE RecoverCold
  <2>1. PICK kept : AdvancePointers({j \in Jobs : Stored(j)}, kept)
    BY <1>16 DEF RecoverCold
  <2>2. CASE Eligible(k)
    BY <1>0, <2>1, <2>2, StoredStays, CurrentAdvanced DEF Current
  <2>3. CASE ~Eligible(k)
    BY <2>1, <2>3 DEF AdvancePointers, Current, Eligible
  <2> QED BY <2>2, <2>3
<1>17. CASE \/ \E g \in {"paused", "running"} : SetGate(g)
            \/ \E r \in Requests, p \in Payloads : BindStaged(r, p)
            \/ AdvanceClaim \/ ClearClaim
            \/ \E j \in Jobs, q \in Requests \cup {NoRow} : ActivateCleanup(j, q)
            \/ \E j \in Jobs : AdvanceCleanup(j)
            \/ UNCHANGED storeVars
  <2>1. UNCHANGED <<job, epoch, receipt, attempt>>
    BY <1>17 DEF SetGate, BindStaged, AdvanceClaim, ClearClaim, ActivateCleanup,
       AdvanceCleanup, storeVars
  <2> QED BY <1>0, <2>1, CurrentKept
<1> QED
  BY <1>1, <1>2, <1>3, <1>4, <1>5, <1>6, <1>7, <1>8, <1>9, <1>10, <1>11, <1>12,
     <1>13, <1>14, <1>15, <1>16, <1>17
  DEF StoreNext

(***************************************************************************)
(* An attempt that may still publish is always at its job's present row    *)
(* and epoch: whatever controls, gates, aborts and cold starts come        *)
(* between, _read_publication_attempt meets no stale eligible attempt.     *)
(***************************************************************************)
THEOREM AuthorityCurrent == StoreSpec => []EligibleIsCurrent
<1>1. StoreInit => EligibleIsCurrent
  BY DEF StoreInit, EligibleIsCurrent, Eligible
<1>2. TypeOK /\ EligibleIsCurrent /\ [StoreNext]_storeVars => EligibleIsCurrent'
  BY CurrentStep DEF EligibleIsCurrent, Current
<1> QED BY <1>1, <1>2, TypeCorrect, PTL DEF StoreSpec

-----------------------------------------------------------------------------
(* Fenced rows, final rows, settled answers.                               *)

\* A row that changes is not terminal, and its revision rises by one.
LEMMA RowFenced ==
  ASSUME TypeOK, EligibleIsCurrent, [StoreNext]_storeVars,
         NEW j \in Jobs, Stored(j), job'[j] # job[j]
  PROVE  /\ job[j].state \notin TerminalStates
         /\ job'[j].rev = job[j].rev + 1
         /\ job'[j].gen >= job[j].gen
<1>1. job[j] \in JobRow
  BY StoredIsRow
<1>2. RowStep(j)
  BY RowChanges
<1>3. PointerCurrent(j) => job[j].state \notin TerminalStates
  BY DEF EligibleIsCurrent, PointerCurrent, TerminalStates
<1>4. job[j].state \notin TerminalStates
  BY <1>2, <1>3 DEF RowStep, Controls, Admits, Open, TerminalStates
<1> QED BY <1>1, <1>2, <1>4, RowStepFenced

(***************************************************************************)
(* No plan survives its row: every change of a stored row raises its       *)
(* revision by one, never lowers its generation, and never touches a       *)
(* removed or completed job.                                               *)
(***************************************************************************)
THEOREM RowsFenced == StoreSpec => RowsAreFenced
<1>1. TypeOK /\ EligibleIsCurrent /\ [StoreNext]_storeVars =>
        [\A j \in Jobs : Stored(j) /\ job'[j] # job[j] =>
           /\ job[j].state \notin TerminalStates
           /\ job'[j].rev = job[j].rev + 1
           /\ job'[j].gen >= job[j].gen]_storeVars
  BY RowFenced
<1> QED BY <1>1, TypeCorrect, AuthorityCurrent, PTL DEF StoreSpec, RowsAreFenced

\* A bound inode is not bound again.
LEMMA BindingStays ==
  ASSUME TypeOK, [StoreNext]_storeVars, NEW j \in Jobs
  PROVE  /\ staged[j] # NoRow => staged'[j] = staged[j]
         /\ published[j] # NoRow => published'[j] = published[j]
<1>1. CASE \E r \in Requests, p \in Payloads : BindStaged(r, p)
  BY <1>1 DEF BindStaged, CanBind, TypeOK
<1>2. CASE \E i \in Jobs, p \in Payloads, live \in BOOLEAN : CompletePublication(i, p, live)
  BY <1>2 DEF CompletePublication, TypeOK
<1>3. CASE UNCHANGED <<staged, published>>
  BY <1>3
<1> QED
  BY <1>1, <1>2, <1>3
  DEF StoreNext, storeVars, JobAdd, SetGate, SetGateContained, JobControl,
    RefuseDispatch, AdmitDispatch, AdmitRecovery, ReplayPending,
    AdvanceToDownloading, FinishDispatch, AbortDispatch, FinalizeTerminal,
    FailTerminal, ReservePublication, AbortRecovery, PauseActive, AdvanceClaim,
    ClearClaim, ActivateCleanup, AdvanceCleanup, RecoverCold

(***************************************************************************)
(* A staged or final inode, once bound to a job, stays bound to it.        *)
(***************************************************************************)
THEOREM BindingsFinal == StoreSpec => BindingsWriteOnce
<1>1. TypeOK /\ [StoreNext]_storeVars =>
        [\A j \in Jobs :
           /\ staged[j] # NoRow => staged'[j] = staged[j]
           /\ published[j] # NoRow => published'[j] = published[j]]_storeVars
  BY BindingStays
<1> QED BY <1>1, TypeCorrect, PTL DEF StoreSpec, BindingsWriteOnce

\* The transactions that write receipts.
LEMMA ReceiptChanges ==
  ASSUME [StoreNext]_storeVars
  PROVE  \/ UNCHANGED receipt
         \/ \E S, kept : AdvancePointers(S, kept)
         \/ \E q \in Requests : AbortRecovery(q)
         \/ \E j \in Jobs, p \in Payloads, live \in BOOLEAN : CompletePublication(j, p, live)
         \/ \E q \in Requests : \/ ReplayPending(q) \/ AdvanceToDownloading(q)
                                \/ FinishDispatch(q) \/ AbortDispatch(q)
         \/ \E q \in Requests, j \in Jobs :
                \/ AdmitRecovery(q, j)
                \/ \E exact, ready, due \in BOOLEAN : RefuseDispatch(q, j, exact, ready, due)
                \/ \E ready, due \in BOOLEAN : AdmitDispatch(q, j, ready, due)
  BY DEF StoreNext, storeVars, JobAdd, SetGate, SetGateContained, JobControl,
    FinalizeTerminal, FailTerminal, BindStaged, ReservePublication, PauseActive,
    AdvanceClaim, ClearClaim, ActivateCleanup, AdvanceCleanup, RecoverCold

\* A settled answer is never rewritten.
LEMMA SettledStays ==
  ASSUME TypeOK, EligibleIsCurrent, [StoreNext]_storeVars,
         NEW r \in Requests, Settled(r)
  PROVE  receipt'[r] = receipt[r]
<1> USE DEF Settled
<1>0. receipt[r] # NoRow /\ ~Pending(r)
  BY DEF Pending
<1>1. CASE \E S, kept : AdvancePointers(S, kept)
  BY <1>0, <1>1 DEF AdvancePointers
<1>2. CASE \E q \in Requests, j \in Jobs :
             \/ AdmitRecovery(q, j)
             \/ \E exact, ready, due \in BOOLEAN : RefuseDispatch(q, j, exact, ready, due)
             \/ \E ready, due \in BOOLEAN : AdmitDispatch(q, j, ready, due)
  <2>1. PICK q \in Requests : /\ receipt[q] = NoRow
                              /\ \E v : receipt' = [receipt EXCEPT ![q] = v]
    BY <1>2 DEF AdmitRecovery, RefuseDispatch, AdmitDispatch
  <2> QED BY <1>0, <2>1 DEF TypeOK
<1>3. CASE \E q \in Requests : \/ ReplayPending(q) \/ AdvanceToDownloading(q)
                               \/ FinishDispatch(q) \/ AbortDispatch(q)
  <2>1. PICK q \in Requests : /\ Pending(q)
                              /\ \E v : receipt' = [receipt EXCEPT ![q] = v]
    <3>1. CASE \E q \in Requests : ReplayPending(q)
      BY <3>1 DEF ReplayPending
    <3>2. CASE \E q \in Requests : AdvanceToDownloading(q)
      BY <3>2 DEF AdvanceToDownloading, OwnsPending
    <3>3. CASE \E q \in Requests : FinishDispatch(q)
      BY <3>3 DEF FinishDispatch, OwnsPending
    <3>4. CASE \E q \in Requests : AbortDispatch(q)
      BY <3>4 DEF AbortDispatch
    <3> QED BY <1>3, <3>1, <3>2, <3>3, <3>4
  <2> QED BY <1>0, <2>1 DEF TypeOK
<1>4. CASE \E j \in Jobs, p \in Payloads, live \in BOOLEAN : CompletePublication(j, p, live)
  <2>1. PICK j \in Jobs, p \in Payloads, live \in BOOLEAN : CompletePublication(j, p, live)
    BY <1>4
  <2>2. Eligible(j) /\ Current(j)
    BY <2>1 DEF CompletePublication, PointerCurrent, EligibleIsCurrent, Current
  <2>3. r # attempt[j].pending
    BY <1>0, <2>2, PendingIsOwn, NoRowAssumption
  <2> QED BY <2>1, <2>3 DEF CompletePublication
<1>5. CASE \E q \in Requests : AbortRecovery(q)
  BY <1>0, <1>5 DEF AbortRecovery, Aborted, TypeOK
<1>6. CASE UNCHANGED receipt
  BY <1>6
<1> QED BY <1>1, <1>2, <1>3, <1>4, <1>5, <1>6, ReceiptChanges

\* A receipt stays, and stays of its job.
LEMMA ReceiptStays ==
  ASSUME TypeOK, EligibleIsCurrent, [StoreNext]_storeVars,
         NEW r \in Requests, receipt[r] # NoRow
  PROVE  receipt'[r] # NoRow /\ receipt'[r].job = receipt[r].job
<1>0. receipt[r] \in ReceiptRow /\ receipt[r].job \in Jobs
  BY PresentIsReceiptRow
<1>1. SUFFICES ASSUME receipt'[r] # receipt[r]
               PROVE  /\ receipt'[r] \in ReceiptRow
                      /\ receipt'[r].job = receipt[r].job
  BY NoRowAssumption
<1>a. Stored(receipt[r].job) => Fence(job[receipt[r].job]) \in FenceRow
                                /\ Fence(job'[receipt[r].job]) \in FenceRow
  BY <1>0, StoredIsRow, StoredStays, FenceIsFenceRow
<1>2. CASE \E S, kept : AdvancePointers(S, kept)
  <2>1. Stored(receipt[r].job)
        /\ receipt'[r] = [receipt[r] EXCEPT !.status = "blocked",
                                            !.at = Fence(job'[receipt[r].job])]
    BY <1>0, <1>1, <1>2 DEF AdvancePointers, EligibleIsCurrent
  <2> QED BY <1>0, <1>a, <2>1 DEF ReceiptRow
<1>3. CASE \E q \in Requests : AbortRecovery(q)
  <2>1. Stored(receipt[r].job) /\ receipt'[r] = Aborted(r)
    BY <1>1, <1>3 DEF AbortRecovery, TypeOK
  <2>2. receipt'[r] = Receipt(receipt[r].job, "blocked", Fence(job[receipt[r].job]))
    BY <1>1, <2>1 DEF Aborted
  <2> QED BY <1>0, <1>a, <2>1, <2>2 DEF Receipt, ReceiptRow
<1>4. CASE \E j \in Jobs, p \in Payloads, live \in BOOLEAN : CompletePublication(j, p, live)
  <2>1. PICK j \in Jobs, p \in Payloads, live \in BOOLEAN : CompletePublication(j, p, live)
    BY <1>4
  <2>2. /\ r = attempt[j].pending /\ Stored(j) /\ Eligible(j) /\ Current(j)
        /\ receipt'[r] = Receipt(j, "started", Fence(job'[j]))
    BY <1>1, <2>1 DEF CompletePublication, PointerCurrent, EligibleIsCurrent, Current
  <2>3. receipt[r].job = j
    BY <2>2, PendingIsOwn, NoRowAssumption
  <2> QED BY <1>0, <1>a, <2>2, <2>3 DEF Receipt, ReceiptRow
<1>5. CASE \E q \in Requests : ReplayPending(q)
  <2>1. /\ Stored(receipt[r].job)
        /\ receipt'[r] = Receipt(receipt[r].job, "blocked", Fence(job[receipt[r].job]))
    BY <1>1, <1>5 DEF ReplayPending, TypeOK
  <2> QED BY <1>0, <1>a, <2>1 DEF Receipt, ReceiptRow
<1>6. CASE \E q \in Requests : AdvanceToDownloading(q)
  <2>1. /\ Stored(receipt[r].job)
        /\ receipt'[r] = [receipt[r] EXCEPT !.at = Fence(job'[receipt[r].job])]
    BY <1>0, <1>1, <1>6 DEF AdvanceToDownloading, OwnsPending, TypeOK
  <2> QED BY <1>0, <1>a, <2>1 DEF ReceiptRow
<1>7. CASE \E q \in Requests : FinishDispatch(q)
  BY <1>0, <1>1, <1>7 DEF FinishDispatch, TypeOK, ReceiptRow
<1>8. CASE \E q \in Requests : AbortDispatch(q)
  <2>1. /\ Stored(receipt[r].job)
        /\ receipt'[r] = Receipt(receipt[r].job, "blocked", Fence(job'[receipt[r].job]))
    BY <1>1, <1>8 DEF AbortDispatch, TypeOK
  <2> QED BY <1>0, <1>a, <2>1 DEF Receipt, ReceiptRow
<1>9. CASE \E q \in Requests, j \in Jobs :
             \/ AdmitRecovery(q, j)
             \/ \E exact, ready, due \in BOOLEAN : RefuseDispatch(q, j, exact, ready, due)
             \/ \E ready, due \in BOOLEAN : AdmitDispatch(q, j, ready, due)
  BY <1>1, <1>9 DEF AdmitRecovery, RefuseDispatch, AdmitDispatch, TypeOK
<1> QED BY <1>1, <1>2, <1>3, <1>4, <1>5, <1>6, <1>7, <1>8, <1>9, ReceiptChanges

(***************************************************************************)
(* The answer to a dispatch request, once settled, is its answer for ever: *)
(* replays, aborts, controls and cold starts rewrite pending answers only. *)
(***************************************************************************)
THEOREM AnswersStand == StoreSpec => SettledReceiptsStand
<1>1. TypeOK /\ EligibleIsCurrent /\ [StoreNext]_storeVars =>
        [\A r \in Requests : Settled(r) => receipt'[r] = receipt[r]]_storeVars
  BY SettledStays
<1> QED
  BY <1>1, TypeCorrect, AuthorityCurrent, PTL DEF StoreSpec, SettledReceiptsStand

-----------------------------------------------------------------------------
(* Completion.                                                             *)

Completed(k) == Stored(k) /\ job[k].state = "completed"

Proven(k) ==
  /\ attempt[k] # NoRow /\ attempt[k].status = "finished"
  /\ attempt[k].at = Fence(job[k])
  /\ staged[k] # NoRow /\ published[k] = staged[k]
  /\ cleanup[k] # NoRow

\* Only complete_direct_publication completes a job.
LEMMA CompletedBy ==
  ASSUME TypeOK, [StoreNext]_storeVars, NEW k \in Jobs, Completed(k)'
  PROVE  \/ Completed(k) /\ job'[k] = job[k]
         \/ \E p \in Payloads, live \in BOOLEAN : CompletePublication(k, p, live)
<1>1. Stored(k)
  BY RowAppears DEF Completed
<1>2. job[k] \in JobRow
  BY <1>1, StoredIsRow
<1>3. CASE Controls(k)
  <2>1. PICK a \in Actions : job'[k] = [Controlled(job[k], a) EXCEPT !.rev = @ + 1]
    BY <1>3 DEF Controls
  <2>2. Controlled(job[k], a).state = "completed" => job[k].state = "completed"
    BY <1>2 DEF Controlled, Actions, JobRow
  <2>3. job[k].state = "completed"
    BY <1>2, <2>1, <2>2, ControlledTyped, RaisedKeeps DEF Completed
  <2> QED BY <1>3, <2>3 DEF Controls, Open, TerminalStates
<1>4. CASE job'[k] \in {Moved(k, "paused"), Fenced(k)}
  BY <1>2, <1>4 DEF Moved, Fenced, JobRow, Completed
<1>5. CASE job'[k] = Moved(k, "downloading") \/ Admits(k)
  BY <1>2, <1>5 DEF Moved, JobRow, Completed, Admits
<1>6. CASE \E s \in FailureStates \cup {"finalizing"} : job'[k] = Moved(k, s)
  BY <1>2, <1>6 DEF Moved, JobRow, Completed, FailureStates
<1>7. CASE job'[k] = job[k]
  BY <1>1, <1>7 DEF Completed
<1> QED BY <1>1, <1>3, <1>4, <1>5, <1>6, <1>7, RowChanges DEF RowStep

\* A step that completes k writes its proof.
LEMMA CompletionProves ==
  ASSUME TypeOK, NEW k \in Jobs, NEW p \in Payloads, NEW live \in BOOLEAN,
         TypeOK', CompletePublication(k, p, live)
  PROVE  Completed(k)' /\ Proven(k)'
<1>1. job[k] \in JobRow /\ attempt[k] \in AttemptRow
  BY StoredIsRow DEF CompletePublication, PointerCurrent, Eligible, TypeOK
<1>2. job'[k] = Moved(k, "completed") /\ Moved(k, "completed") \in JobRow
  BY MovedIsRow DEF CompletePublication, TypeOK, JobStates, TerminalStates
<1>3. Completed(k)'
  BY <1>1, <1>2, NoRowAssumption DEF Completed, Stored, Moved, JobRow
<1>4. attempt'[k] = [attempt[k] EXCEPT !.status = "finished", !.at = Fence(job'[k]),
                                       !.pending = NoRow]
  BY DEF CompletePublication, TypeOK
<1>5. Fence(job'[k]) \in FenceRow
  BY <1>2, FenceIsFenceRow
<1>6. /\ attempt'[k] \in AttemptRow /\ attempt'[k].status = "finished"
      /\ attempt'[k].at = Fence(job'[k])
  BY <1>1, <1>4, <1>5 DEF AttemptRow
<1>7. staged'[k] = p /\ published'[k] = p
  BY DEF CompletePublication, TypeOK
<1>8. cleanup'[k] = [phase |-> "pending", activation |-> NoRow]
  BY DEF CompletePublication, TypeOK
<1>9. cleanup'[k] \in CleanupRow
  BY <1>8 DEF CleanupRow
<1> QED BY <1>3, <1>6, <1>7, <1>9, NoRowAssumption DEF Proven

\* A cleanup claim, once minted, is not withdrawn.
LEMMA CleanupStays ==
  ASSUME TypeOK, TypeOK', [StoreNext]_storeVars, NEW k \in Jobs, cleanup[k] # NoRow
  PROVE  cleanup'[k] # NoRow
<1>1. cleanup[k] \in CleanupRow
  BY DEF TypeOK
<1>2. CASE \E j \in Jobs, p \in Payloads, live \in BOOLEAN : CompletePublication(j, p, live)
  <2>1. [phase |-> "pending", activation |-> NoRow] \in CleanupRow
    BY DEF CleanupRow
  <2> QED BY <1>2, <2>1, NoRowAssumption DEF CompletePublication, TypeOK
<1>3. CASE \E j \in Jobs, q \in Requests \cup {NoRow} : ActivateCleanup(j, q)
  <2>1. [cleanup[k] EXCEPT !.activation = epoch] \in CleanupRow
    BY <1>1 DEF CleanupRow, TypeOK
  <2> QED BY <1>3, <2>1, NoRowAssumption DEF ActivateCleanup, TypeOK
<1>4. CASE \E j \in Jobs : AdvanceCleanup(j)
  <2>1. PICK j \in Jobs : AdvanceCleanup(j)
    BY <1>4
  <2>2. CASE j = k
    <3>1. [cleanup[k] EXCEPT !.phase = CleanupOrder[cleanup[k].phase]] \in CleanupRow
      BY <1>1, <2>1, <2>2 DEF AdvanceCleanup, CleanupRow, CleanupOrder
    <3> QED BY <2>1, <2>2, <3>1, NoRowAssumption DEF AdvanceCleanup, TypeOK
  <2>3. CASE j # k
    BY <2>1, <2>3 DEF AdvanceCleanup, TypeOK
  <2> QED BY <2>2, <2>3
<1>5. CASE UNCHANGED cleanup
  BY <1>5
<1> QED
  BY <1>2, <1>3, <1>4, <1>5
  DEF StoreNext, storeVars, JobAdd, SetGate, SetGateContained, JobControl,
    RefuseDispatch, AdmitDispatch, AdmitRecovery, ReplayPending,
    AdvanceToDownloading, FinishDispatch, AbortDispatch, FinalizeTerminal,
    FailTerminal, BindStaged, ReservePublication, AbortRecovery,
    PauseActive, AdvanceClaim, ClearClaim, RecoverCold

\* No other step mints a final binding or a cleanup claim.
LEMMA NothingMinted ==
  ASSUME TypeOK, [StoreNext]_storeVars, NEW k \in Jobs,
         published[k] = NoRow, cleanup[k] = NoRow,
         ~\E p \in Payloads, live \in BOOLEAN : CompletePublication(k, p, live)
  PROVE  published'[k] = NoRow /\ cleanup'[k] = NoRow
<1>1. CASE \E j \in Jobs, p \in Payloads, live \in BOOLEAN : CompletePublication(j, p, live)
  <2>1. PICK j \in Jobs, p \in Payloads, live \in BOOLEAN : CompletePublication(j, p, live)
    BY <1>1
  <2>2. j # k
    BY <2>1
  <2> QED BY <2>1, <2>2 DEF CompletePublication, TypeOK
<1>2. CASE \E j \in Jobs, q \in Requests \cup {NoRow} : ActivateCleanup(j, q)
  BY <1>2 DEF ActivateCleanup, TypeOK
<1>3. CASE \E j \in Jobs : AdvanceCleanup(j)
  BY <1>3 DEF AdvanceCleanup, TypeOK
<1>4. CASE UNCHANGED <<published, cleanup>>
  BY <1>4
<1> QED
  BY <1>1, <1>2, <1>3, <1>4
  DEF StoreNext, storeVars, JobAdd, SetGate, SetGateContained, JobControl,
    RefuseDispatch, AdmitDispatch, AdmitRecovery, ReplayPending,
    AdvanceToDownloading, FinishDispatch, AbortDispatch, FinalizeTerminal,
    FailTerminal, BindStaged, ReservePublication, AbortRecovery,
    PauseActive, AdvanceClaim, ClearClaim, RecoverCold

\* The proof of a completed job is never taken away.
LEMMA ProofStays ==
  ASSUME TypeOK, TypeOK', EligibleIsCurrent, [StoreNext]_storeVars,
         NEW k \in Jobs, Completed(k), Proven(k), job'[k] = job[k]
  PROVE  Proven(k)'
<1>1. attempt[k] \in AttemptRow /\ ~Eligible(k)
  BY DEF Proven, TypeOK, Eligible
<1>2. /\ attempt'[k] # NoRow /\ attempt'[k].status = "finished"
      /\ attempt'[k].at = attempt[k].at
  <2>1. CASE \E S, kept : AdvancePointers(S, kept)
    BY <1>1, <2>1 DEF AdvancePointers, Proven
  <2>2. CASE \E r \in Requests, j \in Jobs : AdmitRecovery(r, j)
    BY <1>1, <2>2 DEF AdmitRecovery, DispatchVerdict, Proven, TypeOK
  <2>3. CASE \E r \in Requests, p \in Payloads : ReservePublication(r, p)
    <3>1. PICK r \in Requests, p \in Payloads : ReservePublication(r, p)
      BY <2>3
    <3>2. receipt[r].job # k
      BY <3>1 DEF ReservePublication, StageAuthority, Finalized, Fence, Completed
    <3> QED BY <3>1, <3>2 DEF ReservePublication, Proven, TypeOK
  <2>4. CASE \E j \in Jobs, p \in Payloads, live \in BOOLEAN : CompletePublication(j, p, live)
    BY <1>1, <2>4 DEF CompletePublication, PointerCurrent, Proven, TypeOK
  <2>5. CASE \E r \in Requests : AbortRecovery(r)
    <3>1. PICK r \in Requests : AbortRecovery(r)
      BY <2>5
    <3>2. attempt'[k] \in {attempt[k], [attempt[k] EXCEPT !.pending = NoRow]}
      BY <3>1 DEF AbortRecovery, TypeOK
    <3>3. [attempt[k] EXCEPT !.pending = NoRow] \in AttemptRow
      BY <1>1 DEF AttemptRow
    <3> QED BY <1>1, <3>2, <3>3, NoRowAssumption DEF Proven, AttemptRow
  <2>6. CASE UNCHANGED attempt
    BY <2>6 DEF Proven
  <2> QED
    BY <2>1, <2>2, <2>3, <2>4, <2>5, <2>6
    DEF StoreNext, storeVars, JobAdd, SetGate, SetGateContained, JobControl,
      RefuseDispatch, AdmitDispatch, ReplayPending, AdvanceToDownloading,
      FinishDispatch, AbortDispatch, FinalizeTerminal, FailTerminal, BindStaged,
      PauseActive, AdvanceClaim, ClearClaim, ActivateCleanup, AdvanceCleanup,
      RecoverCold
<1>3. staged'[k] = staged[k]
  <2>1. CASE \E r \in Requests, p \in Payloads : BindStaged(r, p)
    BY <2>1 DEF BindStaged, StageAuthority, Finalized, Fence, Completed, TypeOK
  <2>2. CASE UNCHANGED staged
    BY <2>2
  <2> QED
    BY <2>1, <2>2
    DEF StoreNext, storeVars, JobAdd, SetGate, SetGateContained, JobControl,
      RefuseDispatch, AdmitDispatch, AdmitRecovery, ReplayPending,
      AdvanceToDownloading, FinishDispatch, AbortDispatch, FinalizeTerminal,
      FailTerminal, ReservePublication, CompletePublication, AbortRecovery,
      PauseActive, AdvanceClaim, ClearClaim, ActivateCleanup, AdvanceCleanup,
      RecoverCold
<1>4. published'[k] = published[k]
  <2>1. CASE \E j \in Jobs, p \in Payloads, live \in BOOLEAN : CompletePublication(j, p, live)
    <3>1. PICK j \in Jobs, p \in Payloads, live \in BOOLEAN : CompletePublication(j, p, live)
      BY <2>1
    <3>2. j # k
      BY <1>1, <3>1 DEF CompletePublication, PointerCurrent
    <3> QED BY <3>1, <3>2 DEF CompletePublication, TypeOK
  <2>2. CASE UNCHANGED published
    BY <2>2
  <2> QED
    BY <2>1, <2>2
    DEF StoreNext, storeVars, JobAdd, SetGate, SetGateContained, JobControl,
      RefuseDispatch, AdmitDispatch, AdmitRecovery, ReplayPending,
      AdvanceToDownloading, FinishDispatch, AbortDispatch, FinalizeTerminal,
      FailTerminal, BindStaged, ReservePublication, AbortRecovery,
      PauseActive, AdvanceClaim, ClearClaim, ActivateCleanup, AdvanceCleanup,
      RecoverCold
<1>5. cleanup'[k] # NoRow
  BY CleanupStays DEF Proven
<1> QED BY <1>2, <1>3, <1>4, <1>5 DEF Proven

(***************************************************************************)
(* Completion is never recorded without its proof, and never forgotten:    *)
(* the finished attempt, the staged inode bound as the final one and the   *)
(* cleanup claim appear together with the completed row, and stay.         *)
(***************************************************************************)
THEOREM CompletionProven == StoreSpec => []CompletedIsProven
<1>1. StoreInit => CompletedIsProven
  BY DEF StoreInit, CompletedIsProven, Stored
<1>2. ASSUME TypeOK, TypeOK', EligibleIsCurrent, CompletedIsProven,
             [StoreNext]_storeVars, NEW k \in Jobs
      PROVE  /\ Completed(k)' => Proven(k)'
             /\ published'[k] # NoRow \/ cleanup'[k] # NoRow => Completed(k)'
  <2>1. /\ Completed(k) => Proven(k)
        /\ published[k] # NoRow \/ cleanup[k] # NoRow => Completed(k)
    BY <1>2 DEF CompletedIsProven, Completed, Proven
  <2>2. CASE Completed(k)
    <3>1. job'[k] = job[k]
      BY <1>2, <2>2, RowFenced DEF Completed, TerminalStates
    <3> QED BY <1>2, <2>1, <2>2, <3>1, ProofStays DEF Completed, Stored
  <2>3. CASE \E p \in Payloads, live \in BOOLEAN : CompletePublication(k, p, live)
    BY <1>2, <2>3, CompletionProves
  <2>4. CASE /\ ~Completed(k)
             /\ ~\E p \in Payloads, live \in BOOLEAN : CompletePublication(k, p, live)
    <3>1. ~Completed(k)'
      BY <1>2, <2>4, CompletedBy
    <3>2. published'[k] = NoRow /\ cleanup'[k] = NoRow
      BY <1>2, <2>1, <2>4, NothingMinted
    <3> QED BY <3>1, <3>2
  <2> QED BY <2>2, <2>3, <2>4
<1>3. TypeOK /\ TypeOK' /\ EligibleIsCurrent /\ CompletedIsProven
        /\ [StoreNext]_storeVars => CompletedIsProven'
  BY <1>2 DEF CompletedIsProven, Completed, Proven
<1> QED BY <1>1, <1>3, TypeCorrect, AuthorityCurrent, PTL DEF StoreSpec

-----------------------------------------------------------------------------
(* What backs the work.                                                    *)

(***************************************************************************)
(* The pending answer of a dispatch whose body is in flight, at a row that *)
(* the step leaves alone, stays, settles as blocked by a replay, or as     *)
(* started once the body transfers: no recovery can touch it, because the  *)
(* pending answer of an eligible attempt is at a finalizing or paused row. *)
(***************************************************************************)
LEMMA PendingBodyStep ==
  ASSUME TypeOK, EligibleIsCurrent, [StoreNext]_storeVars,
         NEW r \in Requests, NEW k \in Jobs, Pending(r), receipt[r].job = k,
         receipt[r].at = Fence(job[k]), job[k].state \in BodyStates,
         Stored(k), job'[k] = job[k]
  PROVE  \/ receipt'[r] = receipt[r]
         \/ receipt'[r] = Receipt(k, "blocked", Fence(job[k]))
         \/ /\ job[k].state = "downloading"
            /\ receipt'[r] = [receipt[r] EXCEPT !.status = "started"]
<1>0. /\ job[k] \in JobRow /\ receipt[r] # NoRow
      /\ receipt[r].at.state = job[k].state
      /\ \A j \in Jobs : Current(j)
      /\ \A j \in Jobs : Eligible(j) => attempt[j].pending # r
  <2>1. \A j \in Jobs : Current(j)
    BY DEF EligibleIsCurrent, Current
  <2>2. receipt[r].at.state = job[k].state
    BY DEF Fence
  <2>3. \A j \in Jobs : Eligible(j) => attempt[j].pending # r
    BY <2>1, <2>2, PendingIsOwn, NoRowAssumption DEF BodyStates
  <2> QED BY <2>1, <2>2, <2>3, StoredIsRow DEF Pending
<1>1. CASE \E S, kept : AdvancePointers(S, kept)
  BY <1>0, <1>1 DEF AdvancePointers
<1>2. CASE \E q \in Requests, j \in Jobs :
             \/ AdmitRecovery(q, j)
             \/ \E exact, ready, due \in BOOLEAN : RefuseDispatch(q, j, exact, ready, due)
             \/ \E ready, due \in BOOLEAN : AdmitDispatch(q, j, ready, due)
  <2>1. PICK q \in Requests : /\ receipt[q] = NoRow
                              /\ \E v : receipt' = [receipt EXCEPT ![q] = v]
    BY <1>2 DEF AdmitRecovery, RefuseDispatch, AdmitDispatch
  <2> QED BY <1>0, <2>1 DEF TypeOK
<1>3. CASE \E q \in Requests : ReplayPending(q)
  BY <1>3 DEF ReplayPending, TypeOK
<1>4. CASE \E q \in Requests : AdvanceToDownloading(q)
  <2>1. PICK q \in Requests : AdvanceToDownloading(q)
    BY <1>4
  <2>2. q # r
    <3>1. ASSUME q = r
          PROVE  job'[k].rev = job[k].rev + 1
      BY <1>0, <2>1, <3>1 DEF AdvanceToDownloading, Moved, TypeOK, JobRow
    <3>2. job[k].rev \in Nat
      BY <1>0 DEF JobRow, Revisions
    <3> QED BY <3>1, <3>2
  <2> QED BY <2>1, <2>2 DEF AdvanceToDownloading, TypeOK
<1>5. CASE \E q \in Requests : FinishDispatch(q)
  BY <1>0, <1>5 DEF FinishDispatch, OwnsPending, TypeOK
<1>6. CASE \E q \in Requests : AbortDispatch(q)
  <2>1. PICK q \in Requests : AbortDispatch(q)
    BY <1>6
  <2>2. q # r
    <3>1. ASSUME q = r
          PROVE  job'[k].state = "paused"
      <4>1. \/ job[k].state = "paused"
            \/ job'[k] = Moved(k, "paused")
        BY <2>1, <3>1 DEF AbortDispatch, TypeOK
      <4> QED BY <1>0, <4>1 DEF Moved, JobRow
    <3> QED BY <3>1 DEF BodyStates
  <2> QED BY <2>1, <2>2 DEF AbortDispatch, TypeOK
<1>7. CASE \E j \in Jobs, p \in Payloads, live \in BOOLEAN : CompletePublication(j, p, live)
  BY <1>0, <1>7 DEF CompletePublication, PointerCurrent
<1>8. CASE \E q \in Requests : AbortRecovery(q)
  BY <1>0, <1>8 DEF AbortRecovery, TypeOK
<1>9. CASE UNCHANGED receipt
  BY <1>9
<1> QED
  BY <1>1, <1>2, <1>3, <1>4, <1>5, <1>6, <1>7, <1>8, <1>9
  DEF StoreNext, storeVars, JobAdd, SetGate, SetGateContained, JobControl,
    FinalizeTerminal, FailTerminal, BindStaged, ReservePublication, PauseActive,
    AdvanceClaim, ClearClaim, ActivateCleanup, AdvanceCleanup, RecoverCold

\* What backs a job keeps backing it while its row stays.
LEMMA BackingStays ==
  ASSUME TypeOK, TypeOK', EligibleIsCurrent, [StoreNext]_storeVars,
         NEW r \in Requests, NEW k \in Jobs, Stored(k), BackedBy(r, k),
         job'[k] = job[k]
  PROVE  BackedBy(r, k)'
<1>1. receipt[r] \in ReceiptRow /\ receipt[r] # NoRow
  BY PresentIsReceiptRow DEF BackedBy
<1>2. CASE receipt'[r] = receipt[r]
  BY <1>2 DEF BackedBy, Fence
<1>3. CASE receipt[r].status # "pending"
  BY <1>1, <1>2, <1>3, SettledStays DEF Settled
<1>4. CASE receipt[r].status = "pending" /\ receipt'[r] # receipt[r]
  <2>1. /\ job[k].state \in BodyStates /\ receipt[r].at = Fence(job[k])
        /\ Pending(r) /\ receipt[r].job = k
    BY <1>1, <1>4 DEF BackedBy, Pending
  <2>2. \/ receipt'[r] = Receipt(k, "blocked", Fence(job[k]))
        \/ /\ job[k].state = "downloading"
           /\ receipt'[r] = [receipt[r] EXCEPT !.status = "started"]
    BY <1>4, <2>1, PendingBodyStep
  <2>3. CASE receipt'[r] = Receipt(k, "blocked", Fence(job[k]))
    <3>1. receipt'[r].job = k /\ receipt'[r].status = "blocked"
          /\ receipt'[r].at = Fence(job'[k])
      BY <2>3 DEF Receipt
    <3>2. receipt'[r] # NoRow
      BY <2>3, StoredIsRow, ReceiptIsRow, NoRowAssumption
    <3> QED BY <2>1, <3>1, <3>2 DEF BackedBy, Fence
  <2>4. CASE /\ job[k].state = "downloading"
             /\ receipt'[r] = [receipt[r] EXCEPT !.status = "started"]
    <3>1. receipt'[r] \in ReceiptRow /\ receipt'[r].job = k
          /\ receipt'[r].status = "started" /\ receipt'[r].at = Fence(job'[k])
      BY <1>1, <2>1, <2>4 DEF ReceiptRow
    <3> QED BY <2>1, <2>4, <3>1, NoRowAssumption DEF BackedBy, Fence
  <2> QED BY <2>2, <2>3, <2>4
<1> QED BY <1>2, <1>3, <1>4

\* A control that changes an active row takes it out of the active states,
\* unless the row was held while active, which HeldIsIdle excludes.
LEMMA ControlledStops ==
  ASSUME NEW row \in JobRow, NEW a \in Actions, Controlled(row, a) # row,
         row.hold => row.state \in {"paused", "removed", "completed"}
  PROVE  Controlled(row, a).state \notin ActiveStates
<1>1. CASE a \in {"pause", "remove", "start_now"}
  BY <1>1 DEF Controlled, JobRow, ActiveStates, BodyStates
<1>2. CASE a = "resume"
  <2>1. CASE row.state \in ActiveStates
    <3>1. ~row.hold /\ row.state # "paused"
      BY <2>1 DEF ActiveStates, BodyStates
    <3>2. Controlled(row, a) = row
      BY <1>2, <3>1 DEF Controlled, JobRow
    <3> QED BY <3>2
  <2>2. CASE row.state \notin ActiveStates
    BY <1>2, <2>2 DEF Controlled, JobRow, ActiveStates, BodyStates
  <2> QED BY <2>1, <2>2
<1> QED BY <1>1, <1>2 DEF Actions

\* The fence one revision before a finalizing fence.
LEMMA FenceBefore ==
  ASSUME NEW f \in FenceRow
  PROVE  [f EXCEPT !.rev = @ - 1, !.state = "downloading"]
           = [gen |-> f.gen, rev |-> f.rev - 1, state |-> "downloading"]
<1> DEFINE h == [f EXCEPT !.rev = @ - 1, !.state = "downloading"]
<1>1. f.rev - 1 \in Int
  BY DEF FenceRow, Revisions
<1>2. h \in [gen: Nat, rev: Int, state: JobStates \cup {"downloading"}]
  BY <1>1 DEF FenceRow
<1>3. h.gen = f.gen /\ h.rev = f.rev - 1 /\ h.state = "downloading"
  BY <1>1 DEF FenceRow
<1> HIDE DEF h
<1>4. h = [gen |-> h.gen, rev |-> h.rev, state |-> h.state]
  BY <1>2
<1>5. h = [gen |-> f.gen, rev |-> f.rev - 1, state |-> "downloading"]
  BY <1>3, <1>4
<1> QED BY <1>5 DEF h

\* A job at work after a step is backed after it.
LEMMA ActiveStep ==
  ASSUME TypeOK, TypeOK', EligibleIsCurrent, HeldIsIdle, ActiveIsBacked,
         [StoreNext]_storeVars,
         NEW k \in Jobs, Stored(k)', job'[k].state \in ActiveStates
  PROVE  \E r \in Requests : BackedBy(r, k)'
<1>1. Stored(k)
  BY RowAppears DEF ActiveStates, BodyStates
<1>2. job[k] \in JobRow /\ job'[k] \in JobRow
  BY <1>1, StoredIsRow, StoredStays
<1>3. CASE job'[k] = job[k]
  <2>1. PICK r \in Requests : BackedBy(r, k)
    BY <1>1, <1>3 DEF ActiveIsBacked
  <2> QED BY <1>1, <1>3, <2>1, BackingStays
<1>4. CASE Controls(k)
  <2>1. PICK a \in Actions : /\ Controlled(job[k], a) # job[k]
                             /\ job'[k] = [Controlled(job[k], a) EXCEPT !.rev = @ + 1]
    BY <1>4 DEF Controls
  <2>2. Controlled(job[k], a).state \notin ActiveStates
    BY <1>1, <1>2, <2>1, ControlledStops DEF HeldIsIdle
  <2> QED BY <1>2, <2>1, <2>2, ControlledTyped, RaisedKeeps
<1>5. CASE Admits(k)
  <2>1. PICK r \in Requests : receipt'[r] = Receipt(k, "pending", Fence(job'[k]))
    BY <1>5 DEF Admits
  <2>2. job'[k].state = "resolving"
    BY <1>2, <1>5 DEF Admits, Moved, JobRow
  <2>3. /\ receipt'[r] # NoRow /\ receipt'[r].job = k
        /\ receipt'[r].status = "pending" /\ receipt'[r].at = Fence(job'[k])
    BY <1>2, <2>1, FenceIsFenceRow, ReceiptIsRow, NoRowAssumption DEF Receipt
  <2> QED BY <2>2, <2>3 DEF BackedBy, Fence, BodyStates
<1>6. CASE job'[k] \in {Moved(k, "paused"), Fenced(k)}
  BY <1>2, <1>6 DEF Moved, Fenced, JobRow, ActiveStates, BodyStates
<1>7. CASE /\ job[k].state = "resolving" /\ job'[k] = Moved(k, "downloading")
           /\ \E r \in Requests : /\ Pending(r) /\ receipt[r].job = k
                /\ receipt'[r] = [receipt[r] EXCEPT !.at = Fence(job'[k])]
  <2>1. PICK r \in Requests : /\ Pending(r) /\ receipt[r].job = k
             /\ receipt'[r] = [receipt[r] EXCEPT !.at = Fence(job'[k])]
    BY <1>7
  <2>2. job'[k].state = "downloading"
    BY <1>2, <1>7 DEF Moved, JobRow
  <2>3. receipt[r] \in ReceiptRow /\ Fence(job'[k]) \in FenceRow
    BY <1>2, <2>1, PresentIsReceiptRow, FenceIsFenceRow DEF Pending
  <2>4. /\ receipt'[r] \in ReceiptRow /\ receipt'[r].job = k
        /\ receipt'[r].status = "pending" /\ receipt'[r].at = Fence(job'[k])
    BY <2>1, <2>3 DEF ReceiptRow, Pending
  <2> QED BY <2>2, <2>4, NoRowAssumption DEF BackedBy, Fence, BodyStates
<1>8. CASE /\ job[k].state = "downloading"
           /\ \E s \in FailureStates \cup {"finalizing"} : job'[k] = Moved(k, s)
           /\ \E r \in Requests : /\ Started(r) /\ receipt[r].job = k /\ AtRow(r)
                /\ receipt'[r] = receipt[r]
  <2>1. PICK r \in Requests : /\ Started(r) /\ receipt[r].job = k /\ AtRow(r)
             /\ receipt'[r] = receipt[r]
    BY <1>8
  <2>2. job'[k].state = "finalizing" /\ job'[k] = Moved(k, "finalizing")
    BY <1>2, <1>8 DEF Moved, JobRow, ActiveStates, BodyStates, FailureStates
  <2>3. receipt[r].at = Fence(job[k])
    BY <2>1 DEF AtRow
  <2>4. /\ job'[k].gen = job[k].gen /\ job'[k].rev - 1 = job[k].rev
    BY <1>2, <2>2 DEF Moved, JobRow, Revisions
  <2>5. Fence(job[k]) =
          [Fence(job'[k]) EXCEPT !.rev = @ - 1, !.state = "downloading"]
    <3>1. /\ Fence(job'[k]) \in FenceRow
          /\ Fence(job'[k]).gen = job[k].gen /\ Fence(job'[k]).rev - 1 = job[k].rev
      BY <1>2, <2>4, FenceIsFenceRow DEF Fence
    <3> QED BY <1>8, <3>1, FenceBefore DEF Fence
  <2> QED BY <2>1, <2>2, <2>3, <2>5 DEF BackedBy, Started, Fence
<1>9. CASE job'[k] = Moved(k, "completed")
  BY <1>2, <1>9 DEF Moved, JobRow, ActiveStates, BodyStates
<1> QED
  BY <1>1, <1>3, <1>4, <1>5, <1>6, <1>7, <1>8, <1>9, RowChanges DEF RowStep

(***************************************************************************)
(* A job at work is backed by the receipt of the dispatch that put it      *)
(* there, whatever replays, recoveries, controls and restarts are called:  *)
(* no state is reached in which a finalizing job could not be staged.      *)
(***************************************************************************)
THEOREM WorkBacked == StoreSpec => []ActiveIsBacked
<1>1. StoreInit => ActiveIsBacked
  BY DEF StoreInit, ActiveIsBacked, Stored
<1>2. /\ TypeOK /\ TypeOK' /\ EligibleIsCurrent /\ HeldIsIdle /\ ActiveIsBacked
      /\ [StoreNext]_storeVars
      => ActiveIsBacked'
  BY ActiveStep DEF ActiveIsBacked
<1> QED BY <1>1, <1>2, TypeCorrect, AuthorityCurrent, HoldKept, PTL DEF StoreSpec

-----------------------------------------------------------------------------
(* A receipt is the original request of one attempt only.                  *)

(***************************************************************************)
(* The strengthening: an attempt's original request is a started receipt   *)
(* of the same job, at an earlier revision than the attempt's pointer,     *)
(* and a retired original is at an earlier revision than the original of   *)
(* the job's present attempt.  Revisions order the attempts of one job.    *)
(***************************************************************************)
AttemptFrom(k, r) ==
  /\ Stored(k) /\ Started(r) /\ receipt[r].job = k
  /\ receipt[r].at.rev < attempt[k].at.rev
  /\ attempt[k].at.rev <= job[k].rev
AttemptIsBacked ==
  \A k \in Jobs : attempt[k] # NoRow => AttemptFrom(k, attempt[k].orig)
RetiredIsEarlier ==
  \A q \in retired :
    LET k == receipt[q].job IN
    /\ Started(q) /\ attempt[k] # NoRow
    /\ receipt[q].at.rev < receipt[attempt[k].orig].at.rev

\* Started answers stand.
LEMMA StartedStays ==
  ASSUME TypeOK, EligibleIsCurrent, [StoreNext]_storeVars, NEW r \in Requests, Started(r)
  PROVE  receipt'[r] = receipt[r] /\ Started(r)'
  BY SettledStays DEF Started, Settled

\* A revision never falls.
LEMMA RevisionRises ==
  ASSUME TypeOK, EligibleIsCurrent, [StoreNext]_storeVars, NEW k \in Jobs, Stored(k)
  PROVE  job[k].rev \in Nat /\ job'[k].rev \in Nat /\ job'[k].rev >= job[k].rev
<1>1. job[k] \in JobRow /\ job'[k] \in JobRow
  BY StoredIsRow, StoredStays
<1> QED BY <1>1, RowFenced DEF JobRow, Revisions

\* r is reserved as the original request of k's new attempt.
Reserves(r, k) ==
  /\ \E p \in Payloads : ReservePublication(r, p)
  /\ receipt[r].job = k

\* An attempt that is not replaced keeps its original request, and its pointer
\* stays or moves to the job's new row.
Follows(k) ==
  \/ attempt'[k] = attempt[k]
  \/ /\ attempt[k] # NoRow /\ attempt'[k] # NoRow /\ Stored(k)
     /\ attempt'[k].orig = attempt[k].orig
     /\ attempt'[k].at \in {attempt[k].at, Fence(job'[k])}

LEMMA AttemptStep ==
  ASSUME TypeOK, TypeOK', EligibleIsCurrent, [StoreNext]_storeVars, NEW k \in Jobs,
         ~\E r \in Requests : Reserves(r, k)
  PROVE  Follows(k)
<1>1. CASE \E S, kept : AdvancePointers(S, kept)
  <2>1. PICK S, kept : AdvancePointers(S, kept)
    BY <1>1
  <2>2. CASE k \in S /\ Eligible(k)
    <3>1. PICK b \in BOOLEAN : attempt'[k] = Advanced(k, b)
      BY <2>1, <2>2 DEF AdvancePointers
    <3>2. attempt[k] \in AttemptRow /\ attempt[k] # NoRow /\ Stored(k)
      BY <2>2 DEF Eligible, TypeOK, EligibleIsCurrent
    <3>3. Fence(job'[k]) \in FenceRow /\ epoch' \in Nat
      BY <3>2, StoredStays, FenceIsFenceRow DEF TypeOK
    <3>4. /\ attempt'[k] \in AttemptRow /\ attempt'[k].orig = attempt[k].orig
          /\ attempt'[k].at = Fence(job'[k])
      BY <3>1, <3>2, <3>3 DEF Advanced, AttemptRow
    <3> QED BY <3>2, <3>4, NoRowAssumption DEF Follows
  <2>3. CASE ~(k \in S /\ Eligible(k))
    BY <2>1, <2>3 DEF AdvancePointers, Follows
  <2> QED BY <2>2, <2>3
<1>2. CASE \E r \in Requests, j \in Jobs : AdmitRecovery(r, j)
  <2>1. PICK r \in Requests, j \in Jobs : AdmitRecovery(r, j)
    BY <1>2
  <2>2. CASE j = k
    <3>1. attempt[k] \in AttemptRow /\ attempt[k] # NoRow /\ Stored(k)
      BY <2>1, <2>2 DEF AdmitRecovery, DispatchVerdict, Eligible, TypeOK
    <3>2. attempt'[k] = [attempt[k] EXCEPT !.pending = r]
      BY <2>1, <2>2 DEF AdmitRecovery, TypeOK
    <3>3. /\ attempt'[k] \in AttemptRow /\ attempt'[k].orig = attempt[k].orig
          /\ attempt'[k].at = attempt[k].at
      BY <3>1, <3>2 DEF AttemptRow
    <3> QED BY <3>1, <3>3, NoRowAssumption DEF Follows
  <2>3. CASE j # k
    BY <2>1, <2>3 DEF AdmitRecovery, Follows, TypeOK
  <2> QED BY <2>2, <2>3
<1>3. CASE \E r \in Requests, p \in Payloads : ReservePublication(r, p)
  <2>1. PICK r \in Requests, p \in Payloads : ReservePublication(r, p)
    BY <1>3
  <2>2. receipt[r].job # k
    BY <2>1 DEF Reserves
  <2> QED BY <2>1, <2>2 DEF ReservePublication, Follows, TypeOK
<1>4. CASE \E j \in Jobs, p \in Payloads, live \in BOOLEAN : CompletePublication(j, p, live)
  <2>1. PICK j \in Jobs, p \in Payloads, live \in BOOLEAN : CompletePublication(j, p, live)
    BY <1>4
  <2>2. CASE j = k
    <3>1. attempt[k] \in AttemptRow /\ attempt[k] # NoRow /\ Stored(k)
      BY <2>1, <2>2 DEF CompletePublication, PointerCurrent, Eligible, TypeOK
    <3>2. attempt'[k] = [attempt[k] EXCEPT !.status = "finished", !.at = Fence(job'[k]),
                                           !.pending = NoRow]
      BY <2>1, <2>2 DEF CompletePublication, TypeOK
    <3>3. Fence(job'[k]) \in FenceRow
      BY <3>1, StoredStays, FenceIsFenceRow
    <3>4. /\ attempt'[k] \in AttemptRow /\ attempt'[k].orig = attempt[k].orig
          /\ attempt'[k].at = Fence(job'[k])
      BY <3>1, <3>2, <3>3 DEF AttemptRow
    <3> QED BY <3>1, <3>4, NoRowAssumption DEF Follows
  <2>3. CASE j # k
    BY <2>1, <2>3 DEF CompletePublication, Follows, TypeOK
  <2> QED BY <2>2, <2>3
<1>5. CASE \E r \in Requests : AbortRecovery(r)
  <2>1. PICK r \in Requests : AbortRecovery(r)
    BY <1>5
  <2>2. CASE attempt'[k] = attempt[k]
    BY <2>2 DEF Follows
  <2>3. CASE attempt'[k] # attempt[k]
    <3>1. /\ attempt[k] # NoRow /\ Stored(k)
          /\ attempt'[k] = [attempt[k] EXCEPT !.pending = NoRow]
      BY <2>1, <2>3 DEF AbortRecovery, TypeOK
    <3>2. attempt[k] \in AttemptRow
      BY <3>1 DEF TypeOK
    <3>3. /\ attempt'[k] \in AttemptRow /\ attempt'[k].orig = attempt[k].orig
          /\ attempt'[k].at = attempt[k].at
      BY <3>1, <3>2 DEF AttemptRow
    <3> QED BY <3>1, <3>3, NoRowAssumption DEF Follows
  <2> QED BY <2>2, <2>3
<1>6. CASE UNCHANGED attempt
  BY <1>6 DEF Follows
<1> QED
  BY <1>1, <1>2, <1>3, <1>4, <1>5, <1>6
  DEF StoreNext, storeVars, JobAdd, SetGate, SetGateContained, JobControl,
    RefuseDispatch, AdmitDispatch, ReplayPending, AdvanceToDownloading,
    FinishDispatch, AbortDispatch, FinalizeTerminal, FailTerminal, BindStaged,
    PauseActive, AdvanceClaim, ClearClaim, ActivateCleanup, AdvanceCleanup,
    RecoverCold

\* What a reservation writes.
LEMMA ReservesRow ==
  ASSUME TypeOK, TypeOK', NEW r \in Requests, NEW k \in Jobs, Reserves(r, k)
  PROVE  /\ Stored(k) /\ Started(r) /\ job' = job /\ receipt' = receipt
         /\ attempt'[k] # NoRow /\ attempt'[k].orig = r
         /\ attempt'[k].at.rev = job[k].rev
         /\ receipt[r].at.rev \in Nat /\ job[k].rev = receipt[r].at.rev + 1
         /\ \/ attempt[k] = NoRow /\ retired' = retired
            \/ /\ attempt[k] # NoRow /\ attempt[k].at.rev < job[k].rev
               /\ retired' = retired \cup {attempt[k].orig}
<1>1. PICK p \in Payloads : ReservePublication(r, p)
  BY DEF Reserves
<1>2. /\ Stored(k) /\ Started(r) /\ job' = job /\ receipt' = receipt
      /\ Finalized(k, receipt[r].at)
      /\ attempt'[k] = [status |-> "eligible", orig |-> r, at |-> Fence(job[k]),
                        epoch |-> epoch, pending |-> NoRow]
  BY <1>1 DEF Reserves, ReservePublication, StageAuthority, TypeOK
<1>3. attempt'[k] # NoRow
  <2>1. attempt'[k] \in AttemptRow
    BY <1>2, StoredIsRow DEF AttemptRow, TypeOK
  <2> QED BY <2>1, NoRowAssumption
<1>4. receipt[r].at.rev \in Nat
  BY <1>2, PresentIsReceiptRow DEF Started, FenceRow, Revisions
<1>5. job[k].rev = receipt[r].at.rev + 1
  BY <1>2 DEF Finalized, Fence
<1>6. attempt'[k].orig = r /\ attempt'[k].at.rev = job[k].rev
  BY <1>2 DEF Fence
<1>7. \/ attempt[k] = NoRow /\ retired' = retired
      \/ /\ attempt[k] # NoRow /\ attempt[k].at.rev < job[k].rev
         /\ retired' = retired \cup {attempt[k].orig}
  BY <1>1 DEF Reserves, ReservePublication
<1> QED BY <1>2, <1>3, <1>4, <1>5, <1>6, <1>7

\* Revisions held by rows, pointers and receipts are numbers.
LEMMA RevisionsAreNat ==
  ASSUME TypeOK
  PROVE  /\ \A k \in Jobs : Stored(k) => job[k].rev \in Nat
         /\ \A k \in Jobs : attempt[k] # NoRow =>
              attempt[k].at.rev \in Nat /\ attempt[k].orig \in Requests
         /\ \A r \in Requests : receipt[r] # NoRow =>
              receipt[r].at.rev \in Nat /\ receipt[r].job \in Jobs
  BY StoredIsRow, PresentIsReceiptRow
  DEF TypeOK, JobRow, AttemptRow, FenceRow, Revisions

\* Attempts stay backed.
LEMMA AttemptBackedStep ==
  ASSUME TypeOK, TypeOK', EligibleIsCurrent, [StoreNext]_storeVars, AttemptIsBacked
  PROVE  AttemptIsBacked'
<1> SUFFICES ASSUME NEW k \in Jobs, attempt'[k] # NoRow
             PROVE  AttemptFrom(k, attempt[k].orig)'
  BY DEF AttemptIsBacked
<1>1. CASE \E r \in Requests : Reserves(r, k)
  <2>1. PICK r \in Requests : Reserves(r, k)
    BY <1>1
  <2>2. /\ Stored(k) /\ Started(r) /\ job' = job /\ receipt' = receipt
        /\ attempt'[k].orig = r /\ attempt'[k].at.rev = job[k].rev
        /\ receipt[r].at.rev \in Nat /\ job[k].rev = receipt[r].at.rev + 1
    BY <2>1, ReservesRow
  <2>3. receipt[r].job = k
    BY <2>1 DEF Reserves
  <2>4. receipt[r].at.rev < job[k].rev /\ job[k].rev <= job[k].rev
    BY <2>2
  <2> QED BY <2>2, <2>3, <2>4 DEF AttemptFrom, Stored, Started
<1>2. CASE ~\E r \in Requests : Reserves(r, k)
  <2>1. Follows(k)
    BY <1>2, AttemptStep
  <2>2. attempt[k] # NoRow
    BY <2>1 DEF Follows
  <2>3. PICK r \in Requests : r = attempt[k].orig
    BY <2>2, RevisionsAreNat
  <2>4. /\ Stored(k) /\ Started(r) /\ receipt[r].job = k
        /\ receipt[r].at.rev < attempt[k].at.rev
        /\ attempt[k].at.rev <= job[k].rev
    BY <2>2, <2>3 DEF AttemptIsBacked, AttemptFrom
  <2>5. /\ Stored(k)' /\ receipt'[r] = receipt[r] /\ Started(r)'
    BY <2>4, StoredStays, StartedStays
  <2>6. job[k].rev \in Nat /\ job'[k].rev \in Nat /\ job'[k].rev >= job[k].rev
    BY <2>4, RevisionRises
  <2>7. receipt[r].at.rev \in Nat /\ attempt[k].at.rev \in Nat
    BY <2>2, <2>4, RevisionsAreNat DEF Started
  <2>8. /\ attempt'[k].orig = r
        /\ attempt'[k].at.rev = attempt[k].at.rev \/ attempt'[k].at.rev = job'[k].rev
    BY <2>1, <2>3 DEF Follows, Fence
  <2>9. /\ receipt[r].at.rev < attempt'[k].at.rev
        /\ attempt'[k].at.rev <= job'[k].rev
    BY <2>4, <2>6, <2>7, <2>8
  <2> QED BY <2>4, <2>5, <2>8, <2>9 DEF AttemptFrom
<1> QED BY <1>1, <1>2

\* Retired originals stay earlier than the present one.
LEMMA RetiredEarlierStep ==
  ASSUME TypeOK, TypeOK', EligibleIsCurrent, [StoreNext]_storeVars,
         AttemptIsBacked, RetiredIsEarlier
  PROVE  RetiredIsEarlier'
<1> SUFFICES ASSUME NEW q \in retired'
             PROVE  LET k == receipt'[q].job IN
                    /\ Started(q)' /\ attempt'[k] # NoRow
                    /\ receipt'[q].at.rev < receipt'[attempt'[k].orig].at.rev
  BY DEF RetiredIsEarlier
<1>0. q \in Requests
  BY DEF TypeOK
<1>1. ASSUME q \in retired, NEW k \in Jobs, receipt[q].job = k
      PROVE  /\ Started(q) /\ attempt'[k] # NoRow
             /\ receipt[q].at.rev < receipt'[attempt'[k].orig].at.rev
  <2>1. /\ Started(q) /\ attempt[k] # NoRow
        /\ receipt[q].at.rev < receipt[attempt[k].orig].at.rev
    BY <1>1 DEF RetiredIsEarlier
  <2>2. /\ Started(attempt[k].orig) /\ attempt[k].orig \in Requests
        /\ receipt[attempt[k].orig].at.rev < attempt[k].at.rev
    BY <2>1, RevisionsAreNat DEF AttemptIsBacked, AttemptFrom
  <2>3. CASE \E r \in Requests : Reserves(r, k)
    <3>1. PICK r \in Requests : Reserves(r, k)
      BY <2>3
    <3>2. /\ receipt' = receipt /\ attempt'[k] # NoRow /\ attempt'[k].orig = r
          /\ receipt[r].at.rev \in Nat /\ job[k].rev = receipt[r].at.rev + 1
          /\ attempt[k].at.rev < job[k].rev
      BY <2>1, <3>1, ReservesRow
    <3>3. /\ receipt[q].at.rev \in Nat /\ receipt[attempt[k].orig].at.rev \in Nat
          /\ attempt[k].at.rev \in Nat
      BY <1>0, <2>1, <2>2, RevisionsAreNat DEF Started
    <3>4. receipt[q].at.rev < receipt[r].at.rev
      BY <2>1, <2>2, <3>2, <3>3
    <3> QED BY <2>1, <3>2, <3>4
  <2>4. CASE ~\E r \in Requests : Reserves(r, k)
    <3>1. attempt'[k] # NoRow /\ attempt'[k].orig = attempt[k].orig
      BY <2>1, <2>4, AttemptStep DEF Follows
    <3> QED BY <2>1, <2>2, <3>1, StartedStays
  <2> QED BY <2>3, <2>4
<1>2. CASE q \in retired
  <2>1. Started(q)
    BY <1>2 DEF RetiredIsEarlier
  <2>2. receipt'[q] = receipt[q] /\ Started(q)' /\ receipt[q].job \in Jobs
    BY <1>0, <2>1, StartedStays, RevisionsAreNat DEF Started
  <2> QED BY <1>1, <1>2, <2>2
<1>3. CASE q \notin retired
  <2>1. PICK r \in Requests, k \in Jobs : Reserves(r, k)
    <3>1. PICK r \in Requests, p \in Payloads : ReservePublication(r, p)
      BY <1>3
      DEF StoreNext, storeVars, JobAdd, SetGate, SetGateContained, JobControl,
        RefuseDispatch, AdmitDispatch, AdmitRecovery, ReplayPending,
        AdvanceToDownloading, FinishDispatch, AbortDispatch, FinalizeTerminal,
        FailTerminal, BindStaged, CompletePublication, AbortRecovery, PauseActive,
        AdvanceClaim, ClearClaim, ActivateCleanup, AdvanceCleanup, RecoverCold
    <3>2. receipt[r].job \in Jobs
      BY <3>1, RevisionsAreNat DEF ReservePublication, StageAuthority, Started
    <3> QED BY <3>1, <3>2 DEF Reserves
  <2>2. /\ receipt' = receipt /\ attempt'[k] # NoRow /\ attempt'[k].orig = r
        /\ receipt[r].at.rev \in Nat /\ job[k].rev = receipt[r].at.rev + 1
        /\ attempt[k] # NoRow /\ attempt[k].at.rev < job[k].rev
        /\ q = attempt[k].orig
    BY <1>3, <2>1, ReservesRow
  <2>3. /\ Started(q) /\ receipt[q].job = k
        /\ receipt[q].at.rev < attempt[k].at.rev
    BY <2>2 DEF AttemptIsBacked, AttemptFrom
  <2>4. receipt[q].at.rev \in Nat /\ attempt[k].at.rev \in Nat
    BY <1>0, <2>2, <2>3, RevisionsAreNat DEF Started
  <2>5. receipt[q].at.rev < receipt[r].at.rev
    BY <2>2, <2>3, <2>4
  <2> QED BY <2>2, <2>3, <2>5 DEF Started
<1> QED BY <1>2, <1>3

(***************************************************************************)
(* The rows of a job agree, for any number of jobs and requests and any    *)
(* sequence of transactions: what is at work is backed, no held job is at  *)
(* work, and no dispatch receipt serves two publication attempts, so that  *)
(* the refusal "also retired" of _read_publication_attempt cannot come up. *)
(***************************************************************************)
THEOREM RowsBacked == StoreSpec => []RowsAreBacked
<1>1. StoreInit => AttemptIsBacked /\ RetiredIsEarlier
  BY DEF StoreInit, AttemptIsBacked, RetiredIsEarlier
<1>2. /\ TypeOK /\ TypeOK' /\ EligibleIsCurrent /\ [StoreNext]_storeVars
      /\ AttemptIsBacked /\ RetiredIsEarlier
      => AttemptIsBacked' /\ RetiredIsEarlier'
  BY AttemptBackedStep, RetiredEarlierStep
<1>3. TypeOK /\ AttemptIsBacked /\ RetiredIsEarlier => OriginalUsedOnce
  <2> SUFFICES ASSUME TypeOK, AttemptIsBacked, RetiredIsEarlier,
                      NEW k \in Jobs, attempt[k] # NoRow, attempt[k].orig \in retired
               PROVE  FALSE
    BY DEF OriginalUsedOnce
  <2>1. Started(attempt[k].orig) /\ receipt[attempt[k].orig].job = k
    BY DEF AttemptIsBacked, AttemptFrom
  <2>2. receipt[attempt[k].orig].at.rev < receipt[attempt[k].orig].at.rev
    BY <2>1 DEF RetiredIsEarlier
  <2>3. receipt[attempt[k].orig].at.rev \in Nat
    BY <2>1, RevisionsAreNat DEF Started
  <2> QED BY <2>2, <2>3
<1>4. StoreSpec => []OriginalUsedOnce
  BY <1>1, <1>2, <1>3, TypeCorrect, AuthorityCurrent, PTL DEF StoreSpec
<1>5. TypeOK /\ ActiveIsBacked /\ HeldIsIdle /\ OriginalUsedOnce => RowsAreBacked
  BY DEF RowsAreBacked
<1> QED BY <1>4, <1>5, TypeCorrect, WorkBacked, HoldKept, PTL


-----------------------------------------------------------------------------
(* The inductive invariant.                                                *)

Opened(o) == o.permit # NoRow /\ ~o.permit.revoked /\ ~o.permit.attempted

\* What the fields of an owner say of each other.
OwnerShape(o) ==
  /\ o \in OwnerRow
  /\ o.ctl = "none" => o.plan = NoRow
  /\ o.ctl # "ready" => o.work = "none"
  /\ o.work # "none" => o.plan # NoRow
  /\ o.work \in {"stage", "prepare"} => o.pay \in Payloads
  /\ o.closeAfter => o.ctl = "closed"
  /\ o.blocked => o.ctl # "ready"
  /\ o.pub # NoRow /\ o.pub.stage => o.permit # NoRow
  /\ Opened(o) => o.pub # NoRow /\ o.pub.rec = NoRow /\ o.pub.stage /\ ~o.pub.seen
  /\ o.permit # NoRow /\ o.permit.inflight => o.pub # NoRow /\ o.permit.attempted

Dispatching == {"resolved", "added", "advanced", "resumed"}
Activating  == {"activate", "fenced", "bound"}
Steps == {"main", "poll", "retire", "unrecover", "withdraw", "stopping", "stopped", "down",
          "booted"} \cup Dispatching \cup Activating

\* An observer that is to read or has read the owner's file holds its identity.
Evidence(o) ==
  /\ o.kind \in {"stage", "prepare"} /\ o.st = "run" => o.pay \in Payloads
  /\ o.kind \in {"terminal", "stage", "prepare"} /\ o.st = "done" /\ o.res = "ok"
       => o.pay \in Payloads

ProcessOK ==
  /\ pc \in Steps /\ disp \in OrNoRow(Requests)
  /\ OwnerShape(own)
  /\ obs # NoRow => obs \in ObserverRow /\ Evidence(obs)
  /\ LinkInFlight <=> obs # NoRow /\ obs.st = "link"
  /\ engine \in [live: BOOLEAN, body: OrNoRow(BodyRow)]
  /\ disk \in [partial: [Jobs -> OrNoRow(Payloads)],
               final: [Jobs -> OrNoRow(Payloads \cup {Foreign})]]

\* What each point of the worker's thread knows.
StepOK ==
  /\ pc \in Dispatching \cup {"unrecover", "withdraw"} => disp \in Requests
  /\ pc = "retire" => own.ctl = "closed" /\ obs = NoRow
  /\ pc = "withdraw" => own.ctl = "closed" /\ (own.closeAfter \/ obs = NoRow)
  /\ pc \in Activating => own.ctl = "none" /\ ~own.blocked
  /\ pc \in {"stopped", "down", "booted"} => obs = NoRow
  /\ pc \in {"down", "booted"} => own = NewOwner(FALSE)
  /\ (Looping \/ pc = "unrecover") /\ own.ctl = "closed" => own.blocked \/ own.closeAfter

\* A plan is of its request's job.
PlanOK == own.plan # NoRow =>
  receipt[own.plan.req] # NoRow /\ receipt[own.plan.req].job = own.plan.job

\* The dispatch in progress owns its job, in an open queue, and nothing is observed.
DispatchOK == pc \in Dispatching =>
  /\ gate = "running" /\ own.ctl = "ready" /\ obs = NoRow
  /\ Pending(disp) /\ Stored(receipt[disp].job) /\ AtRow(disp)
  /\ receipt[disp].at.state =
       IF pc \in {"resolved", "added"} THEN "resolving" ELSE "downloading"
  /\ pc # "resumed" => own.plan = NoRow
  /\ pc = "resumed" => own.plan # NoRow /\ own.plan.req = disp
  /\ pc \in {"added", "advanced"} /\ engine.live =>
       engine.body # NoRow /\ engine.body.job = receipt[disp].job

\* Only a job with a verified partial has a publication attempt.
AttemptIsStaged == \A j \in Jobs : attempt[j] # NoRow => staged[j] \in Payloads

StoreOK == TypeOK /\ EligibleIsCurrent /\ AttemptIsStaged
BaseInv == StoreOK /\ ProcessOK /\ StepOK /\ PlanOK /\ DispatchOK

-----------------------------------------------------------------------------
(* Records.                                                                *)

\* A plan, a publication, a permit, an observer and a body are not NoRow.
LEMMA Records ==
  /\ \A x \in PlanRow : x # NoRow
  /\ \A x \in PublicationRow : x # NoRow
  /\ \A x \in PermitRow : x # NoRow
  /\ \A x \in ObserverRow : x # NoRow
  /\ \A x \in BodyRow : x # NoRow
  BY NoRowIsNoRecord

\* The fields of an owner that are there have their rows.
LEMMA OwnerFields ==
  ASSUME NEW o, o \in OwnerRow
  PROVE  /\ o.plan # NoRow => o.plan \in PlanRow
         /\ o.pub # NoRow => o.pub \in PublicationRow
         /\ o.permit # NoRow => o.permit \in PermitRow
  BY DEF OwnerRow, OrNoRow

LEMMA NewOwnerShape ==
  ASSUME NEW b \in BOOLEAN
  PROVE  OwnerShape(NewOwner(b)) /\ NewOwner(b).ctl = "none" /\ NewOwner(b).pub = NoRow
         /\ NewOwner(b).permit = NoRow /\ NewOwner(b).plan = NoRow /\ NewOwner(b).blocked = b
         /\ NewOwner(b).work = "none" /\ ~NewOwner(b).closeAfter
  BY DEF NewOwner, OwnerShape, OwnerRow, OrNoRow, Opened

\* clear_owned_direct_controller_state
LEMMA ClearedShape ==
  ASSUME NEW o, OwnerShape(o)
  PROVE  /\ OwnerShape(Cleared(o))
         /\ Cleared(o).ctl = "none" /\ Cleared(o).plan = NoRow /\ Cleared(o).work = "none"
         /\ ~Cleared(o).closeAfter /\ Cleared(o).blocked = o.blocked
         /\ Cleared(o).pub = o.pub /\ Cleared(o).permit = o.permit
<1>1. Cleared(o) \in OwnerRow
  BY DEF Cleared, OwnerShape, OwnerRow, OrNoRow
<1>2. /\ Cleared(o).ctl = "none" /\ Cleared(o).plan = NoRow /\ Cleared(o).work = "none"
      /\ ~Cleared(o).closeAfter /\ Cleared(o).blocked = o.blocked
      /\ Cleared(o).pub = o.pub /\ Cleared(o).permit = o.permit
  BY DEF Cleared, OwnerShape, OwnerRow
<1> QED BY <1>1, <1>2 DEF OwnerShape, Opened

\* revoke_publication, refused
LEMMA RevokedShape ==
  ASSUME NEW o, OwnerShape(o)
  PROVE  /\ OwnerShape(Revoked(o)) /\ ~Opened(Revoked(o))
         /\ \A f \in {"ctl", "blocked", "closeAfter", "plan", "work", "pay", "pub"} :
              Revoked(o)[f] = o[f]
         /\ (Revoked(o).permit = NoRow) = (o.permit = NoRow)
         /\ o.permit # NoRow => /\ Revoked(o).permit.inflight = o.permit.inflight
                                /\ Revoked(o).permit.attempted = o.permit.attempted
<1> DEFINE p == IF o.permit = NoRow THEN NoRow ELSE [o.permit EXCEPT !.revoked = TRUE]
<1>1. o \in OwnerRow /\ (o.permit # NoRow => o.permit \in PermitRow)
  BY OwnerFields DEF OwnerShape
<1>2. /\ p \in OrNoRow(PermitRow) /\ (p = NoRow) = (o.permit = NoRow)
      /\ o.permit # NoRow => p.revoked /\ p.inflight = o.permit.inflight
                             /\ p.attempted = o.permit.attempted
  BY <1>1, Records DEF PermitRow, OrNoRow
<1>3. Revoked(o) = [o EXCEPT !.cancel = TRUE, !.permit = p]
  BY <1>1 DEF Revoked, OwnerRow
<1> HIDE DEF p
<1>4. /\ Revoked(o) \in OwnerRow /\ Revoked(o).permit = p
      /\ \A f \in {"ctl", "blocked", "closeAfter", "plan", "work", "pay", "pub"} :
           Revoked(o)[f] = o[f]
  BY <1>1, <1>2, <1>3 DEF OwnerRow
<1> QED BY <1>2, <1>4 DEF OwnerShape, Opened

\* revoke_publication, once no link() is in the kernel
LEMMA WithdrawnShape ==
  ASSUME NEW o, OwnerShape(o), ~(o.permit # NoRow /\ o.permit.inflight)
  PROVE  /\ OwnerShape(Withdrawn(o)) /\ ~Opened(Withdrawn(o))
         /\ \A f \in {"ctl", "blocked", "closeAfter", "plan"} : Withdrawn(o)[f] = o[f]
         /\ ~(Withdrawn(o).permit # NoRow /\ Withdrawn(o).permit.inflight)
         /\ (Withdrawn(o).pub = NoRow) = (o.pub = NoRow)
         /\ o.pub # NoRow => /\ Withdrawn(o).pub.job = o.pub.job /\ Withdrawn(o).pub.rec = NoRow
                             /\ Withdrawn(o).pub.seen = o.pub.seen
         /\ o.work = "none" => Withdrawn(o).work = "none"
<1> DEFINE v == Revoked(o)
           w == IF o.work = "prepare" THEN "none" ELSE o.work
           u == IF o.pub = NoRow THEN NoRow ELSE [o.pub EXCEPT !.rec = NoRow, !.stage = FALSE]
<1>1. /\ OwnerShape(v) /\ ~Opened(v)
      /\ v.ctl = o.ctl /\ v.blocked = o.blocked /\ v.closeAfter = o.closeAfter
      /\ v.plan = o.plan /\ v.work = o.work /\ v.pay = o.pay /\ v.pub = o.pub
      /\ (v.permit = NoRow) = (o.permit = NoRow)
      /\ o.permit # NoRow => v.permit.inflight = o.permit.inflight
  BY RevokedShape
<1>2. v \in OwnerRow /\ (o.pub # NoRow => o.pub \in PublicationRow)
  BY <1>1, OwnerFields DEF OwnerShape
<1>3. /\ u \in OrNoRow(PublicationRow) /\ (u = NoRow) = (o.pub = NoRow)
      /\ o.pub # NoRow => u.rec = NoRow /\ u.job = o.pub.job /\ u.seen = o.pub.seen /\ ~u.stage
  BY <1>2, Records DEF PublicationRow, OrNoRow
<1>4. Withdrawn(o) = [v EXCEPT !.work = w, !.pub = u]
  BY <1>1, <1>2 DEF Withdrawn, OwnerRow
<1>5. w \in {"none", "terminal", "stage"} /\ (w # "none" => w = o.work)
  BY DEF OwnerShape, OwnerRow
<1> HIDE DEF v, w, u
<1>6. /\ Withdrawn(o) \in OwnerRow /\ Withdrawn(o).work = w /\ Withdrawn(o).pub = u
      /\ \A f \in {"ctl", "blocked", "closeAfter", "plan", "permit", "pay"} :
           Withdrawn(o)[f] = v[f]
  BY <1>2, <1>3, <1>4, <1>5 DEF OwnerRow
<1> QED BY <1>1, <1>3, <1>5, <1>6 DEF OwnerShape, Opened

\* A control or a queue pause drops the publication it has withdrawn.
Dropped(o) == [Withdrawn(o) EXCEPT !.pub = NoRow]
LEMMA DroppedShape ==
  ASSUME NEW o, OwnerShape(o), ~(o.permit # NoRow /\ o.permit.inflight)
  PROVE  /\ OwnerShape(Dropped(o)) /\ ~Opened(Dropped(o))
         /\ \A f \in {"ctl", "blocked", "closeAfter", "plan"} : Dropped(o)[f] = o[f]
         /\ ~(Dropped(o).permit # NoRow /\ Dropped(o).permit.inflight)
         /\ Dropped(o).pub = NoRow
         /\ o.work = "none" => Dropped(o).work = "none"
<1> DEFINE v == Withdrawn(o)
<1>1. /\ OwnerShape(v) /\ ~Opened(v)
      /\ v.ctl = o.ctl /\ v.blocked = o.blocked /\ v.closeAfter = o.closeAfter /\ v.plan = o.plan
      /\ ~(v.permit # NoRow /\ v.permit.inflight)
      /\ o.work = "none" => v.work = "none"
  BY WithdrawnShape
<1>2. Dropped(o) = [v EXCEPT !.pub = NoRow] /\ v \in OwnerRow
  BY <1>1 DEF Dropped, OwnerShape
<1> HIDE DEF v
<1>3. /\ Dropped(o) \in OwnerRow /\ Dropped(o).pub = NoRow
      /\ \A f \in {"ctl", "blocked", "closeAfter", "plan", "permit", "pay", "work"} :
           Dropped(o)[f] = v[f]
  BY <1>2 DEF OwnerRow, OrNoRow
<1> QED BY <1>1, <1>3 DEF OwnerShape, Opened

\* close_owned_direct_controller: the controller is closed, its results are void.
LEMMA ClosedShape ==
  ASSUME NEW o, OwnerShape(o)
  PROVE  /\ OwnerShape(ClosedOwner(o))
         /\ ClosedOwner(o).ctl = "closed" /\ ClosedOwner(o).work = "none"
         /\ \A f \in {"blocked", "closeAfter", "plan", "pub", "permit"} : ClosedOwner(o)[f] = o[f]
<1>1. /\ ClosedOwner(o) \in OwnerRow
      /\ ClosedOwner(o).ctl = "closed" /\ ClosedOwner(o).work = "none"
      /\ \A f \in {"blocked", "closeAfter", "plan", "pub", "permit", "pay"} :
           ClosedOwner(o)[f] = o[f]
  BY DEF ClosedOwner, OwnerShape, OwnerRow
<1> QED BY <1>1 DEF OwnerShape, Opened

\* The same with its observer left running, or the owner left blocked.
Closing(o, after) == [ClosedOwner(o) EXCEPT !.closeAfter = after]
Stuck(o) == [ClosedOwner(o) EXCEPT !.blocked = TRUE]
LEMMA ClosingShape ==
  ASSUME NEW o, OwnerShape(o), NEW after \in BOOLEAN
  PROVE  /\ OwnerShape(Closing(o, after))
         /\ Closing(o, after).ctl = "closed" /\ Closing(o, after).work = "none"
         /\ Closing(o, after).closeAfter = after
         /\ \A f \in {"blocked", "plan", "pub", "permit"} : Closing(o, after)[f] = o[f]
<1> DEFINE v == ClosedOwner(o)
<1>1. /\ OwnerShape(v) /\ v.ctl = "closed" /\ v.work = "none" /\ v.blocked = o.blocked
      /\ v.plan = o.plan /\ v.pub = o.pub /\ v.permit = o.permit
  BY ClosedShape
<1>2. Closing(o, after) = [v EXCEPT !.closeAfter = after] /\ v \in OwnerRow
  BY <1>1 DEF Closing, OwnerShape
<1> HIDE DEF v
<1>3. /\ Closing(o, after) \in OwnerRow /\ Closing(o, after).closeAfter = after
      /\ \A f \in {"ctl", "blocked", "plan", "permit", "pay", "work", "pub"} :
           Closing(o, after)[f] = v[f]
  BY <1>2 DEF OwnerRow
<1> QED BY <1>1, <1>3 DEF OwnerShape, Opened

LEMMA StuckShape ==
  ASSUME NEW o, OwnerShape(o)
  PROVE  /\ OwnerShape(Stuck(o)) /\ Stuck(o).blocked
         /\ Stuck(o).ctl = "closed" /\ Stuck(o).work = "none"
         /\ \A f \in {"closeAfter", "plan", "pub", "permit"} : Stuck(o)[f] = o[f]
<1> DEFINE v == ClosedOwner(o)
<1>1. /\ OwnerShape(v) /\ v.ctl = "closed" /\ v.work = "none" /\ v.closeAfter = o.closeAfter
      /\ v.plan = o.plan /\ v.pub = o.pub /\ v.permit = o.permit
  BY ClosedShape
<1>2. Stuck(o) = [v EXCEPT !.blocked = TRUE] /\ v \in OwnerRow
  BY <1>1 DEF Stuck, OwnerShape
<1> HIDE DEF v
<1>3. /\ Stuck(o) \in OwnerRow /\ Stuck(o).blocked
      /\ \A f \in {"ctl", "closeAfter", "plan", "permit", "pay", "work", "pub"} :
           Stuck(o)[f] = v[f]
  BY <1>2 DEF OwnerRow
<1> QED BY <1>1, <1>3 DEF OwnerShape, Opened

\* The publication is over.
LEMMA PublicationDroppedShape ==
  ASSUME OwnerShape(own)
  PROVE  /\ OwnerShape(PublicationDropped)
         /\ PublicationDropped.pub = NoRow /\ PublicationDropped.permit = NoRow
         /\ \A f \in {"ctl", "blocked", "closeAfter", "plan", "work"} :
              PublicationDropped[f] = own[f]
<1>1. /\ PublicationDropped \in OwnerRow
      /\ PublicationDropped.pub = NoRow /\ PublicationDropped.permit = NoRow
      /\ \A f \in {"ctl", "blocked", "closeAfter", "plan", "work", "pay"} :
           PublicationDropped[f] = own[f]
  BY DEF PublicationDropped, OwnerShape, OwnerRow, OrNoRow
<1> QED BY <1>1 DEF OwnerShape, Opened

Idled == [PublicationDropped EXCEPT !.work = "none"]
LEMMA IdledShape ==
  ASSUME OwnerShape(own)
  PROVE  /\ OwnerShape(Idled) /\ Idled.pub = NoRow /\ Idled.permit = NoRow /\ Idled.work = "none"
         /\ \A f \in {"ctl", "blocked", "closeAfter", "plan"} : Idled[f] = own[f]
<1> DEFINE v == PublicationDropped
<1>1. /\ OwnerShape(v) /\ v.pub = NoRow /\ v.permit = NoRow
      /\ v.ctl = own.ctl /\ v.blocked = own.blocked /\ v.closeAfter = own.closeAfter
      /\ v.plan = own.plan
  BY PublicationDroppedShape
<1>2. Idled = [v EXCEPT !.work = "none"] /\ v \in OwnerRow
  BY <1>1 DEF Idled, OwnerShape
<1> HIDE DEF v
<1>3. /\ Idled \in OwnerRow /\ Idled.work = "none"
      /\ \A f \in {"ctl", "blocked", "closeAfter", "plan", "permit", "pay", "pub"} :
           Idled[f] = v[f]
  BY <1>2 DEF OwnerRow
<1> QED BY <1>1, <1>3 DEF OwnerShape, Opened

-----------------------------------------------------------------------------
(* The worker implements the store: each of its steps takes one            *)
(* transaction of the store, or none.                                      *)

\* What the arguments of the transactions need.
LEMMA Arguments ==
  ASSUME ProcessOK
  PROVE  /\ Recoverable \in BOOLEAN
         /\ own.plan # NoRow => own.plan.job \in Jobs /\ own.plan.req \in Requests
         /\ own.pub # NoRow => own.pub.job \in Jobs /\ own.pub.rec \in OrNoRow(Requests)
         /\ own.permit # NoRow => own.permit.attempted \in BOOLEAN
         /\ TrackedJob # NoRow => Contained.job \in Jobs
<1>1. /\ own.plan # NoRow => own.plan \in PlanRow
      /\ own.pub # NoRow => own.pub \in PublicationRow
      /\ own.permit # NoRow => own.permit \in PermitRow
  BY OwnerFields DEF ProcessOK, OwnerShape
<1>2. Recoverable \in BOOLEAN
  BY <1>1 DEF Recoverable, PermitRow
<1>3. /\ own.plan # NoRow => own.plan.job \in Jobs /\ own.plan.req \in Requests
      /\ own.pub # NoRow => own.pub.job \in Jobs /\ own.pub.rec \in OrNoRow(Requests)
      /\ own.permit # NoRow => own.permit.attempted \in BOOLEAN
  BY <1>1 DEF PlanRow, PublicationRow, PermitRow
<1>4. TrackedJob # NoRow => Contained.job \in Jobs
  BY <1>3 DEF TrackedJob, Contained
<1> QED BY <1>2, <1>3, <1>4

LEMMA ControlStore ==
  ASSUME NEW j \in Jobs, NEW a \in Actions, NEW recoverable \in BOOLEAN,
         JobControl(j, a, TRUE, recoverable)
  PROVE  StoreNext
  BY DEF StoreNext

LEMMA ServeStore ==
  ASSUME BaseInv, Serve
  PROVE  [StoreNext]_storeVars
<1> USE Arguments DEF BaseInv, ProcessOK
<1>1. CASE \E j \in Jobs : ServeAdd(j)
  BY <1>1 DEF ServeAdd, StoreNext
<1>2. CASE \E j \in Jobs, a \in Actions : ServeControl(j, a)
  BY <1>2 DEF ServeControl, StoreNext
<1>3. ASSUME NEW j \in Jobs, NEW a \in Actions, ServeContainedControl(j, a)
      PROVE  [StoreNext]_storeVars
  <2>1. JobControl(j, a, TRUE, Recoverable) \/ UNCHANGED storeVars
    BY <1>3 DEF ServeContainedControl, RefuseInFlight
  <2> QED BY <2>1, ControlStore
<1>4. CASE \E g \in {"paused", "running"} : ServeGate(g)
  BY <1>4 DEF ServeGate, StoreNext
<1>5. CASE ServeGatePause
  BY <1>5 DEF ServeGatePause, RefuseInFlight, ContainmentFails, StoreNext
<1>6. CASE ActivateReserve \/ ActivateDiscard
  BY <1>6 DEF ActivateReserve, ActivateDiscard, StoreNext
<1>7. CASE \E r \in Requests, j \in Jobs : ServeDispatchRefused(r, j)
  <2>1. PICK r \in Requests, j \in Jobs, exact \in BOOLEAN, ready \in BOOLEAN, due \in BOOLEAN :
          RefuseDispatch(r, j, exact, ready, due)
    <3>1. PICK r \in Requests, j \in Jobs : ServeDispatchRefused(r, j)
      BY <1>7
    <3>2. PICK exact \in BOOLEAN, due \in BOOLEAN, busy \in {FALSE, SharedLane} :
            RefuseDispatch(r, j, exact, ControllerReady /\ ~busy, due)
      BY <3>1 DEF ServeDispatchRefused
    <3> QED BY <3>2
  <2> QED BY <2>1 DEF StoreNext
<1>8. CASE \E r \in Requests, j \in Jobs : ServeDispatch(r, j)
  BY <1>8 DEF ServeDispatch, StoreNext
<1>9. CASE \E r \in Requests, j \in Jobs : ServeRecovery(r, j)
  BY <1>9 DEF ServeRecovery, StoreNext
<1>10. CASE \E r \in Requests : ServeReplay(r)
  BY <1>10 DEF ServeReplay, StoreNext
<1> QED BY <1>1, <1>2, <1>3, <1>4, <1>5, <1>6, <1>7, <1>8, <1>9, <1>10 DEF Serve

LEMMA ContinueStore ==
  ASSUME BaseInv, Continue
  PROVE  [StoreNext]_storeVars
<1> USE DEF BaseInv, StepOK, Dispatching
<1>1. CASE ActivateLaunch \/ ActivateBind \/ ActivateReady \/ ActivateFail
  BY <1>1 DEF ActivateLaunch, ActivateBind, ActivateReady, ActivateFail, StoreNext
<1>2. CASE DispatchAdd \/ DispatchAdvance \/ DispatchResume \/ DispatchFinish
  BY <1>2 DEF DispatchAdd, DispatchAdvance, DispatchResume, DispatchFinish, StoreNext
<1>3. CASE DispatchFail
  BY <1>3 DEF DispatchFail, StoreNext
<1>4. CASE ServeRecoveryRefused \/ Retire
  BY <1>4 DEF ServeRecoveryRefused, Retire, StoreNext
<1> QED BY <1>1, <1>2, <1>3, <1>4 DEF Continue

\* A tracked job is paused, or the worker dies.
LEMMA PauseStore ==
  ASSUME NEW fence, fence.job \in Jobs, NEW recoverable \in BOOLEAN,
         PauseTracked(fence, recoverable)
  PROVE  [StoreNext]_storeVars
  BY DEF PauseTracked, Die, StoreNext

LEMMA PollStore ==
  ASSUME BaseInv, Poll
  PROVE  [StoreNext]_storeVars
<1> USE Arguments DEF BaseInv, ProcessOK
<1>1. CASE RetireAfterObserver \/ LaunchPreparation \/ LaunchPublication \/ LaunchTransfer
           \/ PollIdle \/ ReapVoid \/ ReapRevokedPublication
  BY <1>1 DEF RetireAfterObserver, LaunchPreparation, LaunchPublication, LaunchTransfer,
              Launch, PollIdle, ReapVoid, ReapRevokedPublication, StoreNext
<1>2. CASE ReapTerminal
  <2>1. own.plan # NoRow
    BY <1>2 DEF ReapTerminal, Reaped, OwnerShape
  <2> QED BY <1>2, <2>1, PauseStore
          DEF ReapTerminal, CloseWithoutPersist, Die, StoreNext
<1>3. CASE ReapStage \/ ReapPreparation
  <2>1. own.plan # NoRow
    BY <1>3 DEF ReapStage, ReapPreparation, Reaped, OwnerShape
  <2>2. obs # NoRow /\ obs.st = "done" /\ obs.kind \in {"stage", "prepare"}
    BY <1>3 DEF ReapStage, ReapPreparation, Reaped, Reaping, ObsDone
  <2>3. obs.res = "ok" => obs.pay \in Payloads
    BY <2>2 DEF Evidence
  <2> QED BY <1>3, <2>1, <2>3, PauseStore
          DEF ReapStage, ReapPreparation, CloseWithoutPersist, StoreNext
<1>4. CASE ReapPublished
  <2>1. own.pub.job \in Jobs /\ CompletePublication(own.pub.job, obs.pay, own.pub.rec = NoRow)
    BY <1>4 DEF ReapPublished, ReapingPublication
  <2>2. Eligible(own.pub.job) /\ staged[own.pub.job] = obs.pay
    BY <2>1 DEF CompletePublication, PointerCurrent
  <2>3. obs.pay \in Payloads
    BY <2>1, <2>2 DEF AttemptIsStaged, Eligible, StoreOK
  <2> QED BY <2>1, <2>3 DEF StoreNext
<1>5. CASE ReapUnpublished
  <2>1. own.pub # NoRow /\ PublicationValid
    BY <1>5 DEF ReapUnpublished, ReapingPublication
  <2>2. CASE own.pub.rec # NoRow
    BY <1>5, <2>1, <2>2 DEF ReapUnpublished, StoreNext, OrNoRow
  <2>3. CASE own.pub.rec = NoRow
    BY <1>5, <2>1, <2>3, PauseStore DEF ReapUnpublished, PublicationValid
  <2> QED BY <2>2, <2>3
<1> QED BY <1>1, <1>2, <1>3, <1>4, <1>5 DEF Poll

LEMMA ObserveStore ==
  ASSUME Observe \/ EngineStep \/ \E j \in Jobs : Tamper(j)
  PROVE  UNCHANGED storeVars
<1>1. CASE Observe
  BY <1>1 DEF Observe, ObserveTerminal, ObserveFiles, ObserveFail, PublishEnter, PublishLink,
              PublishVerify
<1>2. CASE EngineStep \/ \E j \in Jobs : Tamper(j)
  BY <1>2 DEF EngineStep, Tamper
<1> QED BY <1>1, <1>2

LEMMA LifecycleStore ==
  ASSUME BaseInv, Lifecycle
  PROVE  [StoreNext]_storeVars
<1> USE Arguments DEF BaseInv, ProcessOK
<1>1. CASE Shutdown \/ Crash \/ ColdStart \/ RecoverEngine \/ ShutdownClear
  BY <1>1 DEF Shutdown, Crash, ColdStart, RecoverEngine, ShutdownClear, StoreNext
<1>2. CASE ShutdownPersist
  <2>1. CASE UNCHANGED storeVars
    BY <2>1
  <2>2. CASE own.pub # NoRow /\ own.pub.rec # NoRow /\ AbortRecovery(own.pub.rec)
    BY <2>2 DEF StoreNext, OrNoRow
  <2>3. CASE StopPauses # NoRow
             /\ PauseActive(StopPauses.job, StopsPublication /\ own.permit.attempted)
    <3>1. StopPauses.job \in Jobs
      BY <2>3 DEF StopPauses, OwnerShape, StopsPublication
    <3>2. (StopsPublication /\ own.permit.attempted) \in BOOLEAN
      BY DEF StopsPublication, OwnerShape
    <3> QED BY <2>3, <3>1, <3>2 DEF StoreNext
  <2> QED BY <1>2, <2>1, <2>2, <2>3 DEF ShutdownPersist
<1> QED BY <1>1, <1>2 DEF Lifecycle, Stop

LEMMA StoreStep ==
  ASSUME BaseInv, [Next]_vars
  PROVE  [StoreNext]_storeVars
<1>1. CASE UNCHANGED vars
  BY <1>1 DEF vars, storeVars
<1> QED BY <1>1, ServeStore, ContinueStore, PollStore, ObserveStore, LifecycleStore DEF Next

\* A job has a publication attempt only after its payload was verified.
LEMMA AttemptStagedStep ==
  ASSUME StoreOK, TypeOK', [StoreNext]_storeVars
  PROVE  AttemptIsStaged'
<1> SUFFICES ASSUME NEW k \in Jobs, attempt'[k] # NoRow
             PROVE  staged'[k] \in Payloads
  BY DEF AttemptIsStaged
<1> USE DEF StoreOK
<1>1. CASE \E r \in Requests : Reserves(r, k)
  BY <1>1 DEF Reserves, ReservePublication
<1>2. CASE attempt[k] # NoRow
  BY <1>2, BindingStays, NoRowAssumption DEF AttemptIsStaged
<1>3. CASE attempt[k] = NoRow /\ ~\E r \in Requests : Reserves(r, k)
  BY <1>3, AttemptStep DEF Follows
<1> QED BY <1>1, <1>2, <1>3

LEMMA StoreKept ==
  ASSUME BaseInv, [Next]_vars
  PROVE  StoreOK'
<1>1. [StoreNext]_storeVars
  BY StoreStep
<1>2. TypeOK'
  BY <1>1, TypeStep DEF BaseInv, StoreOK
<1>3. EligibleIsCurrent'
  BY <1>1, CurrentStep DEF BaseInv, StoreOK, EligibleIsCurrent, Current
<1>4. AttemptIsStaged'
  BY <1>1, <1>2, AttemptStagedStep DEF BaseInv
<1> QED BY <1>2, <1>3, <1>4 DEF StoreOK

-----------------------------------------------------------------------------
(* The owner's other updates.                                              *)

\* A recovery takes the free publication slot.
LEMMA RecoveringShape ==
  ASSUME OwnerShape(own), own.pub = NoRow, NEW p \in PublicationRow, ~p.stage
  PROVE  /\ OwnerShape([own EXCEPT !.cancel = FALSE, !.pub = p])
         /\ \A f \in {"ctl", "blocked", "closeAfter", "plan", "work", "permit"} :
              [own EXCEPT !.cancel = FALSE, !.pub = p][f] = own[f]
         /\ [own EXCEPT !.cancel = FALSE, !.pub = p].pub = p
<1> DEFINE v == [own EXCEPT !.cancel = FALSE, !.pub = p]
<1>1. /\ v \in OwnerRow /\ v.pub = p
      /\ \A f \in {"ctl", "blocked", "closeAfter", "plan", "work", "permit", "pay"} :
           v[f] = own[f]
  BY DEF OwnerShape, OwnerRow, OrNoRow
<1> HIDE DEF v
<1>2. OwnerShape(v)
  BY <1>1, Records DEF OwnerShape, Opened
<1> QED BY <1>1, <1>2 DEF v

\* resume made the plan of the transfer.
LEMMA PlannedShape ==
  ASSUME OwnerShape(own), own.ctl = "ready", NEW p \in PlanRow
  PROVE  /\ OwnerShape([own EXCEPT !.work = "terminal", !.plan = p])
         /\ \A f \in {"ctl", "blocked", "closeAfter", "pub", "permit"} :
              [own EXCEPT !.work = "terminal", !.plan = p][f] = own[f]
         /\ [own EXCEPT !.work = "terminal", !.plan = p].plan = p
<1> DEFINE v == [own EXCEPT !.work = "terminal", !.plan = p]
<1>1. /\ v \in OwnerRow /\ v.plan = p /\ v.work = "terminal"
      /\ \A f \in {"ctl", "blocked", "closeAfter", "pub", "permit", "pay"} : v[f] = own[f]
  BY DEF OwnerShape, OwnerRow, OrNoRow
<1> HIDE DEF v
<1>2. OwnerShape(v)
  BY <1>1, Records DEF OwnerShape, Opened
<1> QED BY <1>1, <1>2 DEF v

\* The terminal observation was persisted: the plan goes on to staging.
LEMMA FinalizedShape ==
  ASSUME OwnerShape(own), own.ctl = "ready", own.plan # NoRow,
         own.plan.rev + 1 \in Revisions, NEW p \in Payloads
  PROVE  LET v == [own EXCEPT !.plan.rev = @ + 1, !.work = "stage", !.pay = p] IN
         /\ OwnerShape(v)
         /\ \A f \in {"ctl", "blocked", "closeAfter", "pub", "permit"} : v[f] = own[f]
         /\ v.plan # NoRow /\ v.plan.job = own.plan.job /\ v.plan.req = own.plan.req
         /\ v.plan.gen = own.plan.gen /\ v.plan.rev = own.plan.rev + 1
<1> DEFINE v == [own EXCEPT !.plan.rev = @ + 1, !.work = "stage", !.pay = p]
           q == [own.plan EXCEPT !.rev = @ + 1]
<1>1. own \in OwnerRow /\ own.plan \in PlanRow
  BY OwnerFields DEF OwnerShape
<1>2. /\ q \in PlanRow /\ q.job = own.plan.job /\ q.req = own.plan.req
      /\ q.gen = own.plan.gen /\ q.rev = own.plan.rev + 1
  BY <1>1 DEF PlanRow
<1>3. v = [own EXCEPT !.plan = q, !.work = "stage", !.pay = p]
  BY <1>1 DEF OwnerRow
<1> HIDE DEF q
<1>4. /\ v \in OwnerRow /\ v.plan = q /\ v.work = "stage" /\ v.pay = p
      /\ \A f \in {"ctl", "blocked", "closeAfter", "pub", "permit"} : v[f] = own[f]
  BY <1>1, <1>2, <1>3 DEF OwnerRow, OrNoRow
<1> HIDE DEF v
<1>5. OwnerShape(v)
  BY <1>2, <1>4, Records DEF OwnerShape, Opened
<1> QED BY <1>2, <1>4, <1>5, Records DEF v

\* The staged partial was bound: the plan goes on to preparation.
LEMMA StagedShape ==
  ASSUME OwnerShape(own), own.work = "stage"
  PROVE  /\ OwnerShape([own EXCEPT !.work = "prepare", !.cancel = FALSE])
         /\ \A f \in {"ctl", "blocked", "closeAfter", "pub", "permit", "plan"} :
              [own EXCEPT !.work = "prepare", !.cancel = FALSE][f] = own[f]
<1> DEFINE v == [own EXCEPT !.work = "prepare", !.cancel = FALSE]
<1>1. /\ v \in OwnerRow /\ v.work = "prepare"
      /\ \A f \in {"ctl", "blocked", "closeAfter", "pub", "permit", "pay", "plan"} :
           v[f] = own[f]
  BY DEF OwnerShape, OwnerRow, OrNoRow
<1> HIDE DEF v
<1>2. OwnerShape(v)
  BY <1>1 DEF OwnerShape, Opened
<1> QED BY <1>1, <1>2 DEF v

\* The publication was reserved, with a fresh permit.
LEMMA ReservedShape ==
  ASSUME OwnerShape(own), NEW p \in PublicationRow, p.stage, p.rec = NoRow, ~p.seen
  PROVE  LET v == [own EXCEPT !.work = "none", !.permit = FreshPermit, !.pub = p] IN
         /\ OwnerShape(v)
         /\ \A f \in {"ctl", "blocked", "closeAfter", "plan"} : v[f] = own[f]
         /\ v.work = "none" /\ v.pub = p /\ v.permit = FreshPermit
<1> DEFINE v == [own EXCEPT !.work = "none", !.permit = FreshPermit, !.pub = p]
<1>0. FreshPermit \in PermitRow /\ ~FreshPermit.inflight
  BY DEF FreshPermit, PermitRow
<1>1. /\ v \in OwnerRow /\ v.work = "none" /\ v.pub = p /\ v.permit = FreshPermit
      /\ \A f \in {"ctl", "blocked", "closeAfter", "pay", "plan"} : v[f] = own[f]
  BY <1>0 DEF OwnerShape, OwnerRow, OrNoRow
<1> HIDE DEF v
<1>2. OwnerShape(v)
  BY <1>0, <1>1, Records DEF OwnerShape, Opened
<1> QED BY <1>1, <1>2 DEF v

\* An observation that a refused command voided was reaped.
LEMMA SeenShape ==
  ASSUME OwnerShape(own), own.pub # NoRow, ~PublicationValid
  PROVE  LET v == [own EXCEPT !.pub.seen = TRUE] IN
         /\ OwnerShape(v)
         /\ \A f \in {"ctl", "blocked", "closeAfter", "plan", "work", "permit"} : v[f] = own[f]
         /\ v.pub # NoRow /\ v.pub.job = own.pub.job /\ v.pub.rec = own.pub.rec /\ v.pub.seen
<1> DEFINE v == [own EXCEPT !.pub.seen = TRUE]
           q == [own.pub EXCEPT !.seen = TRUE]
<1>1. own \in OwnerRow /\ own.pub \in PublicationRow
  BY OwnerFields DEF OwnerShape
<1>2. /\ q \in PublicationRow /\ q.job = own.pub.job /\ q.rec = own.pub.rec
      /\ q.seen /\ q.stage = own.pub.stage
  BY <1>1 DEF PublicationRow
<1>3. v = [own EXCEPT !.pub = q]
  BY <1>1 DEF OwnerRow
<1> HIDE DEF q
<1>4. /\ v \in OwnerRow /\ v.pub = q
      /\ \A f \in {"ctl", "blocked", "closeAfter", "plan", "work", "permit", "pay"} :
           v[f] = own[f]
  BY <1>1, <1>2, <1>3 DEF OwnerRow, OrNoRow
<1> HIDE DEF v
<1>5. OwnerShape(v)
  BY <1>2, <1>4, Records DEF OwnerShape, Opened, PublicationValid
<1> QED BY <1>2, <1>4, <1>5, Records DEF v

\* The observer enters the permit, and leaves it after link().
LEMMA PermitShape ==
  ASSUME OwnerShape(own), own.permit # NoRow, NEW q \in PermitRow,
         q.revoked = own.permit.revoked,
         \/ q.attempted /\ own.pub # NoRow
         \/ q.attempted = own.permit.attempted /\ ~q.inflight
  PROVE  /\ OwnerShape([own EXCEPT !.permit = q])
         /\ \A f \in {"ctl", "blocked", "closeAfter", "plan", "work", "pub"} :
              [own EXCEPT !.permit = q][f] = own[f]
         /\ [own EXCEPT !.permit = q].permit = q
<1> DEFINE v == [own EXCEPT !.permit = q]
<1>1. own \in OwnerRow /\ own.permit \in PermitRow
  BY OwnerFields DEF OwnerShape
<1>2. /\ v \in OwnerRow /\ v.permit = q
      /\ \A f \in {"ctl", "blocked", "closeAfter", "plan", "work", "pub", "pay"} :
           v[f] = own[f]
  BY <1>1 DEF OwnerRow, OrNoRow
<1> HIDE DEF v
<1>3. OwnerShape(v)
  BY <1>1, <1>2, Records DEF OwnerShape, Opened
<1> QED BY <1>2, <1>3 DEF v

\* The activation is complete; a shutdown cancels what is observed.
LEMMA ReadyShape ==
  ASSUME OwnerShape(own), own.ctl = "none", ~own.blocked
  PROVE  /\ OwnerShape([own EXCEPT !.ctl = "ready"])
         /\ [own EXCEPT !.ctl = "ready"].ctl = "ready"
         /\ \A f \in {"blocked", "closeAfter", "plan", "work", "pub", "permit"} :
              [own EXCEPT !.ctl = "ready"][f] = own[f]
<1> DEFINE v == [own EXCEPT !.ctl = "ready"]
<1>1. /\ v \in OwnerRow /\ v.ctl = "ready"
      /\ \A f \in {"blocked", "closeAfter", "plan", "work", "pub", "permit", "pay"} :
           v[f] = own[f]
  BY DEF OwnerShape, OwnerRow
<1> HIDE DEF v
<1>2. OwnerShape(v)
  BY <1>1 DEF OwnerShape, Opened
<1> QED BY <1>1, <1>2 DEF v

LEMMA CancelledShape ==
  ASSUME OwnerShape(own)
  PROVE  /\ OwnerShape([own EXCEPT !.cancel = TRUE])
         /\ \A f \in {"ctl", "blocked", "closeAfter", "plan", "work", "pub", "permit"} :
              [own EXCEPT !.cancel = TRUE][f] = own[f]
<1> DEFINE v == [own EXCEPT !.cancel = TRUE]
<1>1. /\ v \in OwnerRow
      /\ \A f \in {"ctl", "blocked", "closeAfter", "plan", "work", "pub", "permit", "pay"} :
           v[f] = own[f]
  BY DEF OwnerShape, OwnerRow
<1> HIDE DEF v
<1>2. OwnerShape(v)
  BY <1>1 DEF OwnerShape, Opened
<1> QED BY <1>1, <1>2 DEF v

-----------------------------------------------------------------------------
(* The process state keeps its shape, and the thread what each of its      *)
(* points knows.                                                           *)

ThreadOK == ProcessOK /\ StepOK

\* The owner after a closed controller's engine is gone.
LEMMA CloseOwnedThread ==
  ASSUME ThreadOK, Looping, NEW o, OwnerShape(o),
         o.ctl = own.ctl, o.blocked = own.blocked, o.closeAfter = own.closeAfter,
         ~LinkInFlight, ~(o.permit # NoRow /\ o.permit.inflight),
         CloseOwned(o), UNCHANGED disk
  PROVE  ThreadOK'
<1> USE DEF ThreadOK, Steps
<1>1. CASE own.ctl = "none"
  <2>1. own' = o /\ pc' = "poll" /\ UNCHANGED <<disp, obs, engine, disk>>
    BY <1>1 DEF CloseOwned
  <2>2. ProcessOK'
    BY <2>1 DEF ProcessOK, LinkInFlight
  <2>3. StepOK'
    BY <1>1, <2>1 DEF StepOK, Dispatching, Activating, Looping
  <2> QED BY <2>2, <2>3
<1>2. CASE own.ctl # "none"
  <2>1. /\ engine' = NoEngine /\ own' = Closing(o, ObsAlive)
        /\ obs' = IF ObsAlive THEN obs ELSE NoRow
        /\ \/ /\ own.pub # NoRow /\ own.pub.rec # NoRow
              /\ pc' = "withdraw" /\ disp' = own.pub.rec
           \/ pc' = (IF ObsAlive THEN "poll" ELSE "retire") /\ disp' = disp
    BY <1>2 DEF CloseOwned, StoppedEngine, Closing, RecoversOther
  <2>2. /\ OwnerShape(own') /\ own'.ctl = "closed" /\ own'.closeAfter = ObsAlive
        /\ own'.permit = o.permit
    BY <2>1, ClosingShape DEF ObsAlive
  <2>3. own.pub # NoRow /\ own.pub.rec # NoRow => own.pub.rec \in Requests
    BY Arguments DEF OrNoRow
  <2>4. ProcessOK'
    <3>1. pc' \in Steps /\ disp' \in OrNoRow(Requests)
      BY <2>1, <2>3 DEF ProcessOK, OrNoRow
    <3>2. obs' # NoRow => obs' \in ObserverRow /\ Evidence(obs') /\ obs'.st # "link"
      BY <2>1 DEF ProcessOK
    <3>3. engine' \in [live: BOOLEAN, body: OrNoRow(BodyRow)]
      BY <2>1 DEF NoEngine, OrNoRow
    <3>4. ~LinkInFlight'
      BY <2>2 DEF LinkInFlight
    <3> QED BY <2>2, <3>1, <3>2, <3>3, <3>4 DEF ProcessOK
  <2>5. StepOK'
    BY <2>1, <2>2, <2>3 DEF StepOK, Dispatching, Activating, Looping, ObsAlive
  <2> QED BY <2>4, <2>5
<1> QED BY <1>1, <1>2

\* A command leaves the process state sound.
LEMMA ServeThread ==
  ASSUME BaseInv, Serve
  PROVE  ThreadOK'
<1> USE DEF ThreadOK, BaseInv, Steps
<1>1. CASE Served
  <2>1. pc = "main" /\ pc' = "poll" /\ UNCHANGED <<disp, own, obs, engine, disk>>
    BY <1>1 DEF Served, Serving
  <2>2. ProcessOK'
    BY <2>1 DEF ProcessOK, LinkInFlight
  <2>3. StepOK'
    BY <2>1 DEF StepOK, Dispatching, Activating, Looping
  <2> QED BY <2>2, <2>3
<1>2. CASE RefuseInFlight /\ Looping
  <2>1. own' = Revoked(own) /\ pc' = "poll" /\ UNCHANGED <<disp, obs, engine, disk>>
    BY <1>2 DEF RefuseInFlight
  <2>2. /\ OwnerShape(own') /\ own'.ctl = own.ctl /\ own'.blocked = own.blocked
        /\ own'.closeAfter = own.closeAfter /\ LinkInFlight' = LinkInFlight
    BY <2>1, RevokedShape DEF ProcessOK, LinkInFlight
  <2>3. ProcessOK'
    BY <2>1, <2>2 DEF ProcessOK
  <2>4. StepOK'
    BY <1>2, <2>1, <2>2 DEF StepOK, Dispatching, Activating, Looping
  <2> QED BY <2>3, <2>4
<1>3. ASSUME Serving, ~LinkInFlight, UNCHANGED disk,
             CloseOwned([Withdrawn(own) EXCEPT !.pub = NoRow])
      PROVE  ThreadOK'
  <2>1. CloseOwned(Dropped(own))
    BY <1>3 DEF Dropped
  <2>2. /\ OwnerShape(Dropped(own)) /\ Dropped(own).ctl = own.ctl
        /\ Dropped(own).blocked = own.blocked /\ Dropped(own).closeAfter = own.closeAfter
        /\ ~(Dropped(own).permit # NoRow /\ Dropped(own).permit.inflight)
    BY <1>3, DroppedShape DEF ProcessOK, LinkInFlight
  <2> QED BY <1>3, <2>1, <2>2, CloseOwnedThread DEF Looping, Serving
<1>4. CASE ContainmentFails /\ Looping
  <2>1. CASE own.ctl = "none"
    <3>1. own' = Withdrawn(own) /\ pc' = "poll" /\ UNCHANGED <<disp, obs, engine, disk>>
      BY <1>4, <2>1 DEF ContainmentFails
    <3>2. OwnerShape(own') /\ own'.ctl = "none" /\ ~LinkInFlight /\ ~LinkInFlight'
      BY <1>4, <2>1, <3>1, WithdrawnShape DEF ContainmentFails, LinkInFlight, ProcessOK
    <3>3. ProcessOK'
      BY <3>1, <3>2 DEF ProcessOK
    <3>4. StepOK'
      BY <3>1, <3>2 DEF StepOK, Dispatching, Activating, Looping
    <3> QED BY <3>3, <3>4
  <2>2. CASE own.ctl # "none"
    <3>1. /\ own' = Stuck(Withdrawn(own)) /\ pc' = "poll" /\ UNCHANGED <<disp, disk>>
          /\ engine' = NoEngine /\ obs' = IF ObsAlive THEN obs ELSE NoRow
      BY <1>4, <2>2 DEF ContainmentFails, Stuck
    <3>2. OwnerShape(own') /\ own'.blocked /\ ~LinkInFlight /\ ~LinkInFlight'
      BY <1>4, <3>1, WithdrawnShape, StuckShape
      DEF ContainmentFails, LinkInFlight, ProcessOK
    <3>3. engine' \in [live: BOOLEAN, body: OrNoRow(BodyRow)]
      BY <3>1 DEF NoEngine, OrNoRow
    <3>4. ProcessOK'
      BY <3>1, <3>2, <3>3 DEF ProcessOK
    <3>5. StepOK'
      BY <3>1, <3>2 DEF StepOK, Dispatching, Activating, Looping
    <3> QED BY <3>4, <3>5
  <2> QED BY <2>1, <2>2
<1>5. CASE ActivateReserve
  <2>1. pc' = "fenced" /\ UNCHANGED <<disp, own, obs, engine, disk>>
    BY <1>5 DEF ActivateReserve
  <2>2. ProcessOK'
    BY <2>1 DEF ProcessOK, LinkInFlight, Activating
  <2>3. own.ctl = "none" /\ ~own.blocked
    BY <1>5 DEF ActivateReserve, StepOK, Activating
  <2>4. StepOK'
    BY <2>1, <2>3 DEF StepOK, Dispatching, Activating, Looping
  <2> QED BY <2>2, <2>4
<1>6. CASE ActivateDiscard
  <2>1. /\ pc' = "activate" /\ own' = Cleared(own) /\ ~own.blocked /\ obs = NoRow
        /\ UNCHANGED <<disp, obs, engine, disk>>
    BY <1>6 DEF ActivateDiscard
  <2>2. /\ OwnerShape(own') /\ own'.ctl = "none" /\ ~own'.blocked
        /\ LinkInFlight' = LinkInFlight
    BY <2>1, ClearedShape DEF ProcessOK, LinkInFlight
  <2>3. ProcessOK'
    BY <2>1, <2>2 DEF ProcessOK, Activating
  <2>4. StepOK'
    BY <2>1, <2>2 DEF StepOK, Dispatching, Activating, Looping
  <2> QED BY <2>3, <2>4
<1>7. ASSUME NEW r \in Requests, NEW j \in Jobs, ServeDispatch(r, j)
      PROVE  ThreadOK'
  <2>1. pc' = "resolved" /\ disp' = r /\ UNCHANGED <<own, obs, engine, disk>>
    BY <1>7 DEF ServeDispatch
  <2>2. ProcessOK'
    BY <2>1 DEF ProcessOK, LinkInFlight, Dispatching, OrNoRow
  <2>3. StepOK'
    BY <2>1 DEF StepOK, Dispatching, Activating, Looping
  <2> QED BY <2>2, <2>3
<1>8. ASSUME NEW r \in Requests, NEW j \in Jobs, ServeRecovery(r, j)
      PROVE  ThreadOK'
  <2>1. /\ Serving /\ UNCHANGED <<obs, engine, disk>>
        /\ \/ /\ own.pub = NoRow
              /\ own' = [own EXCEPT !.cancel = FALSE,
                   !.pub = [job |-> j, gen |-> job[j].gen, rev |-> job[j].rev,
                            rec |-> r, stage |-> FALSE, seen |-> FALSE]]
              /\ pc' = "poll" /\ disp' = disp
           \/ pc' = "unrecover" /\ disp' = r /\ UNCHANGED own
    BY <1>8 DEF ServeRecovery
  <2>2. CASE pc' = "unrecover" /\ disp' = r /\ UNCHANGED own
    <3>1. ProcessOK'
      BY <2>1, <2>2 DEF ProcessOK, LinkInFlight, OrNoRow
    <3>2. StepOK'
      BY <2>1, <2>2 DEF StepOK, Dispatching, Activating, Looping, Serving
    <3> QED BY <3>1, <3>2
  <2>3. CASE pc' = "poll"
    <3> DEFINE p == [job |-> j, gen |-> job[j].gen, rev |-> job[j].rev,
                     rec |-> r, stage |-> FALSE, seen |-> FALSE]
    <3>1. job[j] \in JobRow
      BY <1>8, StoredIsRow DEF ServeRecovery, AdmitRecovery, StoreOK
    <3>2. p \in PublicationRow /\ ~p.stage
      BY <3>1 DEF PublicationRow, JobRow, OrNoRow
    <3>3. own.pub = NoRow /\ own' = [own EXCEPT !.cancel = FALSE, !.pub = p] /\ disp' = disp
      BY <2>1, <2>3
    <3> HIDE DEF p
    <3>4. /\ OwnerShape(own') /\ own'.ctl = own.ctl /\ own'.blocked = own.blocked
          /\ own'.closeAfter = own.closeAfter /\ LinkInFlight' = LinkInFlight
      BY <3>2, <3>3, RecoveringShape DEF ProcessOK, LinkInFlight
    <3>5. ProcessOK'
      BY <2>1, <2>3, <3>3, <3>4 DEF ProcessOK
    <3>6. StepOK'
      BY <2>1, <2>3, <3>4 DEF StepOK, Dispatching, Activating, Looping, Serving
    <3> QED BY <3>5, <3>6
  <2> QED BY <2>1, <2>2, <2>3
<1>9. ASSUME NEW j \in Jobs, NEW a \in Actions, ServeContainedControl(j, a)
      PROVE  ThreadOK'
  BY <1>2, <1>3, <1>9 DEF ServeContainedControl, Looping, Serving
<1>10. CASE ServeGatePause
  BY <1>2, <1>3, <1>4, <1>10 DEF ServeGatePause, Looping, Serving
<1> QED BY <1>1, <1>5, <1>6, <1>7, <1>8, <1>9, <1>10
        DEF Serve, ServeAdd, ServeControl, ServeGate, ServeDispatchRefused, ServeReplay

\* A handler that goes on leaves the process state sound.
LEMMA ContinueThread ==
  ASSUME BaseInv, Continue
  PROVE  ThreadOK'
<1> USE DEF ThreadOK, BaseInv, Steps
<1>1. CASE ActivateLaunch \/ ActivateBind
  <2>1. /\ pc = "fenced" /\ pc' \in {"fenced", "bound"}
        /\ engine' = engine \/ engine' = [NoEngine EXCEPT !.live = TRUE]
        /\ UNCHANGED <<disp, own, obs, disk>>
    BY <1>1 DEF ActivateLaunch, ActivateBind
  <2>2. engine' \in [live: BOOLEAN, body: OrNoRow(BodyRow)]
    BY <2>1 DEF ProcessOK, NoEngine, OrNoRow
  <2>3. ProcessOK'
    BY <2>1, <2>2 DEF ProcessOK, LinkInFlight, Activating
  <2>4. StepOK'
    BY <2>1 DEF StepOK, Dispatching, Activating, Looping
  <2> QED BY <2>3, <2>4
<1>2. CASE ActivateReady
  <2>1. /\ pc = "bound" /\ pc' = "poll" /\ own' = [own EXCEPT !.ctl = "ready"]
        /\ UNCHANGED <<disp, obs, engine, disk>>
    BY <1>2 DEF ActivateReady
  <2>2. own.ctl = "none" /\ ~own.blocked
    BY <2>1 DEF StepOK, Activating
  <2>3. OwnerShape(own') /\ own'.ctl = "ready" /\ LinkInFlight' = LinkInFlight
    BY <2>1, <2>2, ReadyShape DEF ProcessOK, LinkInFlight
  <2>4. ProcessOK'
    BY <2>1, <2>3 DEF ProcessOK
  <2>5. StepOK'
    BY <2>1, <2>3 DEF StepOK, Dispatching, Activating, Looping
  <2> QED BY <2>4, <2>5
<1>3. CASE ActivateFail
  <2>1. /\ pc \in Activating /\ pc' = "poll" /\ engine' = NoEngine
        /\ UNCHANGED <<disp, own, obs, disk>>
    BY <1>3 DEF ActivateFail, Activating
  <2>2. engine' \in [live: BOOLEAN, body: OrNoRow(BodyRow)]
    BY <2>1 DEF NoEngine, OrNoRow
  <2>3. ProcessOK'
    BY <2>1, <2>2 DEF ProcessOK, LinkInFlight
  <2>4. StepOK'
    BY <2>1 DEF StepOK, Dispatching, Activating, Looping
  <2> QED BY <2>3, <2>4
<1>4. CASE DispatchAdd
  <2> DEFINE b == [job |-> receipt[disp].job, gen |-> receipt[disp].at.gen, st |-> "paused"]
  <2>1. /\ pc = "resolved" /\ pc' = "added" /\ engine' = [engine EXCEPT !.body = b]
        /\ UNCHANGED <<disp, own, obs, disk>>
    BY <1>4 DEF DispatchAdd
  <2>2. Pending(disp) /\ disp \in Requests
    BY <2>1 DEF DispatchOK, StepOK, Dispatching
  <2>3. b \in BodyRow
    BY <2>2, PresentIsReceiptRow DEF Pending, StoreOK, BodyRow, FenceRow
  <2> HIDE DEF b
  <2>4. engine' \in [live: BOOLEAN, body: OrNoRow(BodyRow)]
    BY <2>1, <2>3 DEF ProcessOK, OrNoRow
  <2>5. ProcessOK'
    BY <2>1, <2>4 DEF ProcessOK, LinkInFlight, Dispatching
  <2>6. StepOK'
    BY <2>1, <2>2 DEF StepOK, Dispatching, Activating, Looping
  <2> QED BY <2>5, <2>6
<1>5. CASE DispatchAdvance
  <2>1. /\ pc = "added" /\ pc' = "advanced" /\ UNCHANGED <<disp, own, obs, engine, disk>>
    BY <1>5 DEF DispatchAdvance
  <2>2. ProcessOK'
    BY <2>1 DEF ProcessOK, LinkInFlight, Dispatching
  <2>3. StepOK'
    BY <2>1 DEF StepOK, Dispatching, Activating, Looping
  <2> QED BY <2>2, <2>3
<1>6. CASE DispatchResume
  <2> DEFINE j == receipt[disp].job
             p == [job |-> j, req |-> disp, gen |-> job[j].gen, rev |-> job[j].rev]
  <2>1. /\ pc = "advanced" /\ pc' = "resumed" /\ engine.live
        /\ engine' = [engine EXCEPT !.body.st = "active"]
        /\ \/ disk' = disk
           \/ \E q \in FreshPayloads : disk' = [disk EXCEPT !.partial[j] = q]
        /\ own' = [own EXCEPT !.work = "terminal", !.plan = p]
        /\ UNCHANGED <<disp, obs>>
    BY <1>6 DEF DispatchResume
  <2>2. /\ Pending(disp) /\ disp \in Requests /\ Stored(j) /\ own.ctl = "ready"
        /\ engine.body # NoRow
    BY <2>1 DEF DispatchOK, StepOK, Dispatching
  <2>3. j \in Jobs /\ job[j] \in JobRow
    BY <2>2, PresentIsReceiptRow, StoredIsRow DEF Pending, StoreOK
  <2>4. p \in PlanRow
    BY <2>2, <2>3 DEF PlanRow, JobRow
  <2>5. engine' \in [live: BOOLEAN, body: OrNoRow(BodyRow)]
    <3>1. engine.body \in BodyRow
      BY <2>2 DEF ProcessOK, OrNoRow
    <3>2. [engine.body EXCEPT !.st = "active"] \in BodyRow
      BY <3>1 DEF BodyRow
    <3>3. engine' = [engine EXCEPT !.body = [engine.body EXCEPT !.st = "active"]]
      BY <2>1 DEF ProcessOK
    <3>4. engine \in [live: BOOLEAN, body: OrNoRow(BodyRow)]
      BY DEF ProcessOK
    <3> HIDE DEF p, j
    <3> QED BY <3>2, <3>3, <3>4 DEF OrNoRow
  <2>6. disk' \in [partial: [Jobs -> OrNoRow(Payloads)],
                   final: [Jobs -> OrNoRow(Payloads \cup {Foreign})]]
    <3>1. CASE disk' = disk
      BY <3>1 DEF ProcessOK
    <3>2. ASSUME NEW q \in FreshPayloads, disk' = [disk EXCEPT !.partial[j] = q]
          PROVE  disk' \in [partial: [Jobs -> OrNoRow(Payloads)],
                            final: [Jobs -> OrNoRow(Payloads \cup {Foreign})]]
      <4>1. q \in OrNoRow(Payloads)
        BY DEF FreshPayloads, OrNoRow
      <4>2. disk' = [disk EXCEPT !.partial = [disk.partial EXCEPT ![j] = q]]
        BY <3>2
      <4> HIDE DEF j
      <4> QED BY <2>3, <4>1, <4>2 DEF ProcessOK
    <3> QED BY <2>1, <3>1, <3>2
  <2> HIDE DEF p
  <2>7. OwnerShape(own') /\ own'.ctl = "ready" /\ LinkInFlight' = LinkInFlight
    BY <2>1, <2>2, <2>4, PlannedShape DEF ProcessOK, LinkInFlight
  <2>8. ProcessOK'
    BY <2>1, <2>5, <2>6, <2>7 DEF ProcessOK, Dispatching
  <2>9. StepOK'
    BY <2>1, <2>2 DEF StepOK, Dispatching, Activating, Looping
  <2> QED BY <2>8, <2>9
<1>7. CASE DispatchFinish
  <2>1. /\ pc = "resumed" /\ pc' = "poll" /\ disp' = NoRow
        /\ UNCHANGED <<own, obs, engine, disk>>
    BY <1>7 DEF DispatchFinish
  <2>2. own.ctl = "ready"
    BY <2>1 DEF DispatchOK, Dispatching
  <2>3. ProcessOK'
    BY <2>1 DEF ProcessOK, LinkInFlight, OrNoRow
  <2>4. StepOK'
    BY <2>1, <2>2 DEF StepOK, Dispatching, Activating, Looping
  <2> QED BY <2>3, <2>4
<1>8. CASE DispatchFail
  <2>1. /\ pc \in Dispatching /\ engine' = NoEngine /\ disp' = NoRow /\ UNCHANGED <<obs, disk>>
        /\ \/ own' = ClosedOwner(own) /\ pc' = "retire"
           \/ own' = Stuck(own) /\ pc' = "poll"
    BY <1>8 DEF DispatchFail, Stuck, Dispatching
  <2>2. obs = NoRow
    BY <2>1 DEF DispatchOK
  <2>3. /\ OwnerShape(own') /\ own'.ctl = "closed" /\ own'.permit = own.permit
        /\ pc' = "poll" => own'.blocked
    BY <2>1, ClosedShape, StuckShape DEF ProcessOK
  <2>4. engine' \in [live: BOOLEAN, body: OrNoRow(BodyRow)]
    BY <2>1 DEF NoEngine, OrNoRow
  <2>5. ProcessOK'
    BY <2>1, <2>3, <2>4 DEF ProcessOK, LinkInFlight, OrNoRow
  <2>6. StepOK'
    BY <2>1, <2>2, <2>3 DEF StepOK, Dispatching, Activating, Looping
  <2> QED BY <2>5, <2>6
<1>9. CASE ServeRecoveryRefused
  <2>1. /\ pc \in {"unrecover", "withdraw"} /\ disp' = NoRow
        /\ pc' = (IF pc = "withdraw" /\ ~own.closeAfter THEN "retire" ELSE "poll")
        /\ UNCHANGED <<own, obs, engine, disk>>
    BY <1>9 DEF ServeRecoveryRefused
  <2>2. ProcessOK'
    BY <2>1 DEF ProcessOK, LinkInFlight, OrNoRow
  <2>3. StepOK'
    BY <2>1 DEF StepOK, Dispatching, Activating, Looping
  <2> QED BY <2>2, <2>3
<1>10. CASE Retire
  <2>1. /\ pc = "retire" /\ pc' = "poll" /\ own' = Cleared(own)
        /\ UNCHANGED <<disp, obs, engine, disk>>
    BY <1>10 DEF Retire
  <2>2. OwnerShape(own') /\ own'.ctl = "none" /\ LinkInFlight' = LinkInFlight
    BY <2>1, ClearedShape DEF ProcessOK, LinkInFlight
  <2>3. ProcessOK'
    BY <2>1, <2>2 DEF ProcessOK
  <2>4. StepOK'
    BY <2>1, <2>2 DEF StepOK, Dispatching, Activating, Looping
  <2> QED BY <2>3, <2>4
<1> QED BY <1>1, <1>2, <1>3, <1>4, <1>5, <1>6, <1>7, <1>8, <1>9, <1>10 DEF Continue

LEMMA NoEngineRow == NoEngine \in [live: BOOLEAN, body: OrNoRow(BodyRow)]
  BY DEF NoEngine, OrNoRow

\* A poll that closes the controller after its observation has ended.
LEMMA CloseReapedThread ==
  ASSUME ThreadOK, NEW o, OwnerShape(o), o.ctl = own.ctl,
         ~(o.permit # NoRow /\ o.permit.inflight),
         CloseReaped(o), UNCHANGED <<disp, disk>>
  PROVE  ThreadOK'
<1> USE DEF ThreadOK, Steps
<1>1. /\ obs' = NoRow
      /\ \/ own'.ctl = "none" /\ own' = o /\ pc' = "poll" /\ UNCHANGED engine
         \/ own' = ClosedOwner(o) /\ engine' = NoEngine /\ pc' = "retire"
  BY DEF CloseReaped
<1>2. /\ OwnerShape(own') /\ own'.permit = o.permit /\ own'.ctl \in {"none", "closed"}
      /\ pc' = "retire" => own'.ctl = "closed"
      /\ pc' = "poll" => own'.ctl = "none"
  BY <1>1, ClosedShape
<1>3. engine' \in [live: BOOLEAN, body: OrNoRow(BodyRow)]
  BY <1>1, NoEngineRow DEF ProcessOK
<1>4. ProcessOK'
  BY <1>1, <1>2, <1>3 DEF ProcessOK, LinkInFlight
<1>5. StepOK'
  BY <1>1, <1>2 DEF StepOK, Dispatching, Activating, Looping
<1> QED BY <1>4, <1>5

\* A fresh process.
LEMMA DownThread ==
  ASSUME ThreadOK, NEW b \in BOOLEAN, own' = NewOwner(b), obs' = NoRow,
         pc' \in {"down", "booted", "main"}, pc' # "main" => ~b,
         disp' \in OrNoRow(Requests), UNCHANGED disk,
         engine' \in {engine, NoEngine}
  PROVE  ThreadOK'
<1> USE DEF ThreadOK, Steps
<1>1. /\ OwnerShape(own') /\ own'.ctl = "none" /\ own'.permit = NoRow
  BY NewOwnerShape
<1>2. engine' \in [live: BOOLEAN, body: OrNoRow(BodyRow)]
  BY NoEngineRow DEF ProcessOK
<1>3. ProcessOK'
  BY <1>1, <1>2 DEF ProcessOK, LinkInFlight
<1>4. StepOK'
  BY <1>1 DEF StepOK, Dispatching, Activating, Looping
<1> QED BY <1>3, <1>4

\* A poll that does not touch the controller.
LEMMA PolledThread ==
  ASSUME ThreadOK, Looping, OwnerShape(own)', own'.ctl = own.ctl,
         own'.blocked = own.blocked, own'.closeAfter = own.closeAfter,
         obs' = NoRow, ~(own'.permit # NoRow /\ own'.permit.inflight),
         pc' \in {"poll", "main"}, UNCHANGED <<disp, engine, disk>>
  PROVE  ThreadOK'
<1> USE DEF ThreadOK, Steps
<1>1. ProcessOK'
  BY DEF ProcessOK, LinkInFlight
<1>2. StepOK'
  BY DEF StepOK, Dispatching, Activating, Looping
<1> QED BY <1>1, <1>2

\* A tracked job is paused and its controller closed, or the worker dies.
LEMMA PauseThread ==
  ASSUME ThreadOK, Reaping, NEW fence, NEW recoverable, PauseTracked(fence, recoverable)
  PROVE  ThreadOK'
<1> USE DEF ThreadOK
<1>1. CASE CloseReaped(Idled) /\ UNCHANGED <<disp, disk>>
  BY <1>1, IdledShape, CloseReapedThread DEF ProcessOK
<1>2. CASE Die
  BY <1>2, DownThread DEF Die, OrNoRow
<1> QED BY <1>1, <1>2 DEF PauseTracked, Idled

\* The terminal observation persisted, the plan follows its row.
LEMMA TerminalFinalized ==
  ASSUME BaseInv, Reaped("terminal"), PlanCurrent, obs.res = "ok",
         FinalizeTerminal(own.plan.req),
         own' = [own EXCEPT !.plan.rev = @ + 1, !.work = "stage", !.pay = obs.pay]
  PROVE  /\ OwnerShape(own') /\ own'.ctl = own.ctl /\ own'.blocked = own.blocked
         /\ own'.closeAfter = own.closeAfter /\ own'.pub = own.pub /\ own'.permit = own.permit
         /\ own'.plan # NoRow /\ own'.plan.job = own.plan.job /\ own'.plan.req = own.plan.req
<1> USE DEF BaseInv
<1>1. own.plan # NoRow /\ own.plan.req \in Requests /\ own.plan.job \in Jobs
  BY Arguments DEF PlanCurrent
<1>2. receipt[own.plan.req].job = own.plan.job
  BY <1>1 DEF PlanOK
<1>3. Stored(own.plan.job) /\ CanMove(own.plan.job)
  BY <1>2 DEF FinalizeTerminal, TerminalOwner
<1>4. job[own.plan.job].rev = own.plan.rev /\ job[own.plan.job].rev < MaxRevision
  BY <1>3 DEF PlanCurrent, CanMove
<1>5. own.plan.rev + 1 \in Revisions
  BY <1>1, <1>3, <1>4, StoredIsRow, BoundsAssumption DEF StoreOK, JobRow, Revisions
<1>6. obs.pay \in Payloads
  BY DEF Reaped, Reaping, ObsDone, ProcessOK, Evidence
<1>7. own.ctl = "ready"
  BY DEF Reaped, ProcessOK, OwnerShape
<1> QED BY <1>1, <1>5, <1>6, <1>7, FinalizedShape DEF ProcessOK

\* A poll leaves the process state sound.
LEMMA PollThread ==
  ASSUME BaseInv, Poll
  PROVE  ThreadOK'
<1> USE DEF ThreadOK, BaseInv
<1>a. Looping => (LinkInFlight <=> obs # NoRow /\ obs.st = "link")
  BY DEF ProcessOK
<1>b. Reaping => ~LinkInFlight /\ Looping
  BY <1>a DEF Reaping, ObsDone
<1>1. CASE RetireAfterObserver
  <2>1. /\ Looping /\ ~ObsAlive /\ own' = Cleared(own) /\ obs' = NoRow /\ pc' = "main"
        /\ UNCHANGED <<disp, engine, disk>>
    BY <1>1 DEF RetireAfterObserver
  <2>2. OwnerShape(own') /\ own'.ctl = "none" /\ ~LinkInFlight'
    BY <2>1, <1>a, ClearedShape DEF ProcessOK, LinkInFlight, ObsAlive
  <2>3. ProcessOK'
    BY <2>1, <2>2 DEF ProcessOK, Steps
  <2>4. StepOK'
    BY <2>1, <2>2 DEF StepOK, Dispatching, Activating, Looping
  <2> QED BY <2>3, <2>4
<1>2. ASSUME NEW kind \in {"terminal", "stage", "prepare", "publish", "recover"},
             NEW j \in Jobs, NEW p \in OrNoRow(Payloads), Launch(kind, j, p),
             kind \in {"stage", "prepare"} => p \in Payloads
      PROVE  ThreadOK'
  <2> DEFINE o == [kind |-> kind, job |-> j, pay |-> p, st |-> "run", res |-> "none"]
  <2>1. /\ Looping /\ obs = NoRow /\ pc' = "main" /\ obs' = o
        /\ UNCHANGED <<disp, own, engine, disk>>
    BY <1>2 DEF Launch, NeedLaunch
  <2>2. o \in ObserverRow /\ o.st = "run" /\ Evidence(o)
    BY <1>2 DEF ObserverRow, ObserverStates, Evidence
  <2> HIDE DEF o
  <2>3. ~LinkInFlight'
    BY <2>1, <1>a DEF LinkInFlight
  <2>4. ProcessOK'
    BY <2>1, <2>2, <2>3 DEF ProcessOK, Steps
  <2>5. StepOK'
    BY <2>1 DEF StepOK, Dispatching, Activating, Looping
  <2> QED BY <2>4, <2>5
<1>3. CASE LaunchPreparation \/ LaunchTransfer
  <2>1. PICK kind \in {"terminal", "stage", "prepare"} :
          own.work = kind /\ Launch(kind, own.plan.job, own.pay)
    BY <1>3 DEF LaunchPreparation, LaunchTransfer
  <2>2. own.plan.job \in Jobs
    BY <2>1, Arguments DEF OwnerShape, ProcessOK
  <2>3. own.pay \in OrNoRow(Payloads) /\ (kind \in {"stage", "prepare"} => own.pay \in Payloads)
    BY <2>1 DEF OwnerShape, OwnerRow, ProcessOK
  <2> QED BY <2>1, <2>2, <2>3, <1>2
<1>4. CASE LaunchPublication
  <2>1. PICK kind \in {"publish", "recover"} :
          own.pub # NoRow /\ Launch(kind, own.pub.job, staged[own.pub.job])
    BY <1>4 DEF LaunchPublication, PubWaiting
  <2>2. own.pub.job \in Jobs
    BY <2>1, Arguments
  <2>3. staged[own.pub.job] \in OrNoRow(Payloads)
    BY <2>2 DEF StoreOK, TypeOK, OrNoRow
  <2> QED BY <2>1, <2>2, <2>3, <1>2
<1>5. CASE PollIdle
  <2>1. Looping /\ pc' = "main" /\ UNCHANGED <<disp, own, obs, engine, disk>>
    BY <1>5 DEF PollIdle, Looping
  <2>2. ProcessOK'
    BY <2>1 DEF ProcessOK, LinkInFlight, Steps
  <2>3. StepOK'
    BY <2>1 DEF StepOK, Dispatching, Activating, Looping
  <2> QED BY <2>2, <2>3
<1>c. ASSUME Reaping, CloseReaped(own), UNCHANGED <<disp, disk>>
      PROVE  ThreadOK'
  BY <1>b, <1>c, CloseReapedThread DEF ProcessOK, LinkInFlight
<1>d. ASSUME Die
      PROVE  ThreadOK'
  BY <1>d, DownThread DEF Die, OrNoRow
<1>6. CASE ReapTerminal
  <2>0. Reaping /\ own.work = "terminal"
    BY <1>6 DEF ReapTerminal, Reaped
  <2>1. CASE CloseReaped(own) /\ UNCHANGED <<disp, disk>>
    BY <2>0, <2>1, <1>c
  <2>2. CASE /\ PlanCurrent /\ obs.res = "ok" /\ FinalizeTerminal(own.plan.req)
             /\ own' = [own EXCEPT !.plan.rev = @ + 1, !.work = "stage", !.pay = obs.pay]
             /\ obs' = NoRow /\ pc' = "poll" /\ UNCHANGED <<disp, engine, disk>>
    <3>1. /\ OwnerShape(own') /\ own'.ctl = own.ctl /\ own'.blocked = own.blocked
          /\ own'.closeAfter = own.closeAfter /\ own'.permit = own.permit
      BY <1>6, <2>2, TerminalFinalized DEF ReapTerminal
    <3> QED BY <2>0, <2>2, <3>1, <1>b, PolledThread DEF LinkInFlight
  <2>3. CASE PauseTracked(own.plan, FALSE)
    BY <2>0, <2>3, PauseThread
  <2>4. CASE Die
    BY <2>4, <1>d
  <2> QED BY <1>6, <2>1, <2>2, <2>3, <2>4 DEF ReapTerminal, CloseWithoutPersist
<1>7. CASE ReapStage
  <2>0. Reaping /\ own.work = "stage"
    BY <1>7 DEF ReapStage, Reaped
  <2>1. CASE CloseReaped(own) /\ UNCHANGED <<disp, disk>>
    BY <2>0, <2>1, <1>c
  <2>2. CASE /\ own' = [own EXCEPT !.work = "prepare", !.cancel = FALSE]
             /\ obs' = NoRow /\ pc' = "poll" /\ UNCHANGED <<disp, engine, disk>>
    <3>1. /\ OwnerShape(own') /\ own'.ctl = own.ctl /\ own'.blocked = own.blocked
          /\ own'.closeAfter = own.closeAfter /\ own'.permit = own.permit
      BY <2>0, <2>2, StagedShape DEF ProcessOK
    <3> QED BY <2>0, <2>2, <3>1, <1>b, PolledThread DEF LinkInFlight
  <2>3. CASE PauseTracked(own.plan, FALSE)
    BY <2>0, <2>3, PauseThread
  <2> QED BY <1>7, <2>1, <2>2, <2>3 DEF ReapStage, CloseWithoutPersist
<1>8. CASE ReapPreparation
  <2>0. Reaping /\ own.work = "prepare"
    BY <1>8 DEF ReapPreparation, Reaped
  <2> DEFINE p == [job |-> own.plan.job, gen |-> own.plan.gen, rev |-> own.plan.rev,
                   rec |-> NoRow, stage |-> TRUE, seen |-> FALSE]
  <2>1. CASE /\ own' = [own EXCEPT !.work = "none", !.permit = FreshPermit, !.pub = p]
             /\ obs' = NoRow /\ pc' = "poll" /\ UNCHANGED <<disp, engine, disk>>
    <3>1. own.plan \in PlanRow
      BY <2>0, OwnerFields DEF ProcessOK, OwnerShape
    <3>2. p \in PublicationRow /\ p.stage /\ p.rec = NoRow /\ ~p.seen
      BY <3>1 DEF PlanRow, PublicationRow, OrNoRow
    <3> HIDE DEF p
    <3>3. /\ OwnerShape(own') /\ own'.ctl = own.ctl /\ own'.blocked = own.blocked
          /\ own'.closeAfter = own.closeAfter /\ own'.permit = FreshPermit
      BY <2>1, <3>2, ReservedShape DEF ProcessOK
    <3>4. ~FreshPermit.inflight
      BY DEF FreshPermit
    <3> QED BY <2>0, <2>1, <3>3, <3>4, <1>b, PolledThread
  <2>2. CASE PauseTracked(own.plan, FALSE)
    BY <2>0, <2>2, PauseThread
  <2> QED BY <1>8, <2>1, <2>2 DEF ReapPreparation
<1>9. CASE ReapRevokedPublication
  <2>1. /\ Reaping /\ own.pub # NoRow /\ ~PublicationValid
        /\ own' = [own EXCEPT !.pub.seen = TRUE]
        /\ obs' = NoRow /\ pc' = "poll" /\ UNCHANGED <<disp, engine, disk>>
    BY <1>9 DEF ReapRevokedPublication, ReapingPublication
  <2>2. /\ OwnerShape(own') /\ own'.ctl = own.ctl /\ own'.blocked = own.blocked
        /\ own'.closeAfter = own.closeAfter /\ own'.permit = own.permit
    BY <2>1, SeenShape DEF ProcessOK
  <2> QED BY <2>1, <2>2, <1>b, PolledThread DEF LinkInFlight
<1>10. CASE ReapPublished
  BY <1>10, PublicationDroppedShape, CloseReapedThread DEF ReapPublished, ProcessOK
<1>11. CASE ReapUnpublished
  <2>0. Reaping
    BY <1>11 DEF ReapUnpublished, ReapingPublication
  <2>1. CASE /\ own' = PublicationDropped
             /\ obs' = NoRow /\ pc' = "poll" /\ UNCHANGED <<disp, engine, disk>>
    <3>1. /\ OwnerShape(own') /\ own'.ctl = own.ctl /\ own'.blocked = own.blocked
          /\ own'.closeAfter = own.closeAfter /\ own'.permit = NoRow
      BY <2>1, PublicationDroppedShape DEF ProcessOK
    <3> QED BY <2>0, <2>1, <3>1, <1>b, PolledThread
  <2>2. CASE PauseTracked(own.pub, own.permit.attempted)
    BY <2>0, <2>2, PauseThread
  <2> QED BY <1>11, <2>1, <2>2 DEF ReapUnpublished
<1>12. CASE ReapVoid
  <2>1. /\ Reaping /\ own' = own /\ obs' = NoRow /\ pc' \in {"poll", "main"}
        /\ UNCHANGED <<disp, engine, disk>>
    BY <1>12 DEF ReapVoid
  <2> QED BY <2>1, <1>b, PolledThread DEF LinkInFlight, ProcessOK
<1> QED BY <1>1, <1>3, <1>4, <1>5, <1>6, <1>7, <1>8, <1>9, <1>10, <1>11, <1>12 DEF Poll

\* The observer, the engine and the file system leave it sound.
LEMMA ObserveThread ==
  ASSUME BaseInv, Observe \/ EngineStep \/ \E j \in Jobs : Tamper(j)
  PROVE  ThreadOK'
<1> USE DEF ThreadOK, BaseInv
<1>1. ASSUME UNCHANGED <<pc, disp, own, disk>>, UNCHANGED obs \/ UNCHANGED engine,
             obs' # NoRow => obs' \in ObserverRow /\ Evidence(obs'),
             LinkInFlight <=> obs' # NoRow /\ obs'.st = "link",
             obs' = NoRow => obs = NoRow,
             obs = NoRow => obs' = NoRow,
             engine' \in [live: BOOLEAN, body: OrNoRow(BodyRow)]
      PROVE  ThreadOK'
  <2>1. ProcessOK'
    BY <1>1 DEF ProcessOK, LinkInFlight
  <2>2. StepOK'
    BY <1>1 DEF StepOK, Dispatching, Activating, Looping
  <2> QED BY <2>1, <2>2
<1>2. ASSUME NEW res \in {"none", "ok", "fail", "stock"}, NEW p \in OrNoRow(Payloads),
             obs # NoRow, obs.st \in {"run", "verify", "link"}, Observed(res, p),
             obs.kind \in {"terminal", "stage", "prepare"} /\ res = "ok" => p \in Payloads
      PROVE  /\ obs' \in ObserverRow /\ Evidence(obs') /\ obs' # NoRow /\ obs'.st = "done"
             /\ obs'.kind = obs.kind /\ obs'.job = obs.job
  <2>1. obs \in ObserverRow
    BY <1>2 DEF ProcessOK
  <2>2. /\ obs' \in ObserverRow /\ obs'.st = "done" /\ obs'.res = res /\ obs'.pay = p
        /\ obs'.kind = obs.kind /\ obs'.job = obs.job
    BY <1>2, <2>1 DEF Observed, ObserverRow, ObserverStates
  <2> QED BY <1>2, <2>2, Records DEF Evidence
<1>3. CASE ObserveTerminal
  <2>1. /\ obs # NoRow /\ obs.st = "run" /\ UNCHANGED <<pc, disp, own, engine, disk>>
        /\ \/ Observed("none", NoRow)
           \/ Partial # NoRow /\ Observed("ok", Partial)
           \/ Observed("stock", NoRow)
    BY <1>3 DEF ObserveTerminal, Observing
  <2>2. Partial \in OrNoRow(Payloads)
    BY <2>1 DEF ProcessOK, Partial, ObserverRow, ObserverStates
  <2>3. obs' \in ObserverRow /\ Evidence(obs') /\ obs' # NoRow /\ obs'.st = "done"
    BY <2>1, <2>2, <1>2 DEF OrNoRow
  <2> QED BY <2>1, <2>3, <1>1 DEF ProcessOK
<1>4. CASE ObserveFiles
  <2>1. /\ obs # NoRow /\ obs.st = "run" /\ UNCHANGED <<pc, disp, own, engine, disk>>
        /\ Observed("ok", obs.pay) /\ obs.kind \in {"stage", "prepare", "recover"}
    BY <1>4 DEF ObserveFiles, Observing
  <2>2. obs.pay \in OrNoRow(Payloads) /\ (obs.kind \in {"stage", "prepare"} => obs.pay \in Payloads)
    BY <2>1 DEF ProcessOK, ObserverRow, ObserverStates, Evidence
  <2>3. obs' \in ObserverRow /\ Evidence(obs') /\ obs' # NoRow /\ obs'.st = "done"
    BY <2>1, <2>2, <1>2
  <2> QED BY <2>1, <2>3, <1>1 DEF ProcessOK
<1>5. CASE ObserveFail
  <2>1. /\ obs # NoRow /\ obs.st \in {"run", "verify"}
        /\ UNCHANGED <<pc, disp, own, engine, disk>> /\ Observed("fail", NoRow)
    BY <1>5 DEF ObserveFail, ObsAlive
  <2>2. obs' \in ObserverRow /\ Evidence(obs') /\ obs' # NoRow /\ obs'.st = "done"
    BY <2>1, <1>2 DEF OrNoRow
  <2> QED BY <2>1, <2>2, <1>1 DEF ProcessOK
<1>6. CASE PublishEnter
  <2> DEFINE o == [obs EXCEPT !.st = "link"]
  <2>1. /\ obs # NoRow /\ obs.kind = "publish" /\ obs.st = "run" /\ PermitOpen
        /\ own' = [own EXCEPT !.permit.attempted = TRUE, !.permit.inflight = TRUE]
        /\ obs' = o /\ UNCHANGED <<pc, disp, engine, disk>>
    BY <1>6 DEF PublishEnter, Observing
  <2>2. o \in ObserverRow /\ o.st = "link" /\ o.kind = "publish"
    BY <2>1 DEF ProcessOK, ObserverRow, ObserverStates
  <2> HIDE DEF o
  <2>3. own.permit # NoRow /\ own.pub # NoRow
    BY <2>1 DEF PermitOpen, ProcessOK, OwnerShape, Opened
  <2>4. /\ OwnerShape(own') /\ own'.ctl = own.ctl /\ own'.blocked = own.blocked
        /\ own'.closeAfter = own.closeAfter /\ own'.permit # NoRow /\ own'.permit.inflight
    <3> DEFINE q == [own.permit EXCEPT !.attempted = TRUE, !.inflight = TRUE]
    <3>1. own.permit \in PermitRow /\ own \in OwnerRow /\ OwnerShape(own)
      BY <2>3, OwnerFields DEF ProcessOK, OwnerShape
    <3>2. q \in PermitRow /\ q.attempted /\ q.inflight /\ q.revoked = own.permit.revoked
      BY <3>1 DEF PermitRow
    <3>3. own' = [own EXCEPT !.permit = q]
      BY <2>1, <3>1 DEF OwnerRow
    <3> HIDE DEF q
    <3> QED BY <2>3, <3>1, <3>2, <3>3, PermitShape, Records
  <2>5. ProcessOK'
    BY <2>1, <2>2, <2>4, Records DEF ProcessOK, LinkInFlight, Evidence
  <2>6. StepOK'
    BY <2>1, <2>2, <2>4, Records DEF StepOK, Dispatching, Activating, Looping
  <2> QED BY <2>5, <2>6
<1>7. CASE PublishLink
  <2>1. /\ obs # NoRow /\ obs.kind = "publish" /\ obs.st = "link"
        /\ own' = [own EXCEPT !.permit.inflight = FALSE] /\ UNCHANGED <<pc, disp, engine>>
        /\ \/ /\ Partial # NoRow /\ disk' = [disk EXCEPT !.final[obs.job] = Partial]
              /\ obs' = [obs EXCEPT !.st = "verify"]
           \/ Observed("fail", NoRow) /\ UNCHANGED disk
    BY <1>7 DEF PublishLink, Observing
  <2>2. LinkInFlight /\ OwnerShape(own) /\ obs \in ObserverRow
    BY <2>1 DEF ProcessOK
  <2>3. /\ OwnerShape(own') /\ own'.ctl = own.ctl /\ own'.blocked = own.blocked
        /\ own'.closeAfter = own.closeAfter /\ ~own'.permit.inflight
    <3>1. own.permit \in PermitRow /\ own \in OwnerRow /\ own.permit # NoRow
      BY <2>2, OwnerFields DEF OwnerShape, LinkInFlight
    <3> DEFINE q == [own.permit EXCEPT !.inflight = FALSE]
    <3>2. /\ q \in PermitRow /\ ~q.inflight /\ q.attempted = own.permit.attempted
          /\ q.revoked = own.permit.revoked
      BY <3>1 DEF PermitRow
    <3>3. own' = [own EXCEPT !.permit = q]
      BY <2>1, <3>1 DEF OwnerRow
    <3> HIDE DEF q
    <3> QED BY <2>2, <3>1, <3>2, <3>3, PermitShape
  <2>4. /\ obs' \in ObserverRow /\ Evidence(obs') /\ obs' # NoRow /\ obs'.st # "link"
    <3>1. CASE Observed("fail", NoRow)
      BY <2>1, <3>1, <1>2 DEF OrNoRow
    <3>2. CASE obs' = [obs EXCEPT !.st = "verify"]
      <4>1. obs' \in ObserverRow /\ obs'.st = "verify" /\ obs'.kind = "publish"
        BY <2>1, <2>2, <3>2 DEF ObserverRow, ObserverStates
      <4> QED BY <4>1, Records DEF Evidence
    <3> QED BY <2>1, <3>1, <3>2
  <2>5. disk' \in [partial: [Jobs -> OrNoRow(Payloads)],
                   final: [Jobs -> OrNoRow(Payloads \cup {Foreign})]]
    <3>1. Partial \in OrNoRow(Payloads)
      BY <2>2 DEF ProcessOK, Partial, ObserverRow, ObserverStates
    <3>2. disk' = disk \/ disk' = [disk EXCEPT !.final = [disk.final EXCEPT ![obs.job] = Partial]]
      BY <2>1
    <3> HIDE DEF Partial
    <3> QED BY <3>1, <3>2 DEF ProcessOK, OrNoRow
  <2>6. ProcessOK'
    BY <2>1, <2>3, <2>4, <2>5 DEF ProcessOK, LinkInFlight
  <2>7. StepOK'
    BY <2>1, <2>3, <2>4 DEF StepOK, Dispatching, Activating, Looping
  <2> QED BY <2>6, <2>7
<1>8. CASE PublishVerify
  <2>1. /\ obs # NoRow /\ obs.kind = "publish" /\ obs.st = "verify"
        /\ UNCHANGED <<pc, disp, own, engine, disk>> /\ Observed("ok", obs.pay)
    BY <1>8 DEF PublishVerify, Observing
  <2>2. obs.pay \in OrNoRow(Payloads)
    BY <2>1 DEF ProcessOK, ObserverRow, ObserverStates
  <2>3. obs' \in ObserverRow /\ Evidence(obs') /\ obs' # NoRow /\ obs'.st = "done"
    BY <2>1, <2>2, <1>2
  <2> QED BY <2>1, <2>3, <1>1 DEF ProcessOK
<1>9. CASE EngineStep
  <2>1. /\ UNCHANGED <<pc, disp, own, obs, disk>>
        /\ \/ /\ engine.body # NoRow
              /\ \E s \in {"complete", "error"} : engine' = [engine EXCEPT !.body.st = s]
           \/ engine' = NoEngine
    BY <1>9 DEF EngineStep
  <2>2. engine' \in [live: BOOLEAN, body: OrNoRow(BodyRow)]
    <3>1. CASE engine' = NoEngine
      BY <3>1, NoEngineRow
    <3>2. ASSUME NEW s \in {"complete", "error"}, engine.body # NoRow,
                 engine' = [engine EXCEPT !.body.st = s]
          PROVE  engine' \in [live: BOOLEAN, body: OrNoRow(BodyRow)]
      <4>1. engine.body \in BodyRow /\ engine \in [live: BOOLEAN, body: OrNoRow(BodyRow)]
        BY <3>2 DEF ProcessOK, OrNoRow
      <4>2. [engine.body EXCEPT !.st = s] \in BodyRow
        BY <4>1 DEF BodyRow
      <4>3. engine' = [engine EXCEPT !.body = [engine.body EXCEPT !.st = s]]
        BY <3>2
      <4> QED BY <4>1, <4>2, <4>3 DEF OrNoRow
    <3> QED BY <2>1, <3>1, <3>2
  <2> QED BY <2>1, <2>2, <1>1 DEF ProcessOK
<1>10. ASSUME NEW j \in Jobs, Tamper(j)
       PROVE  ThreadOK'
  <2>1. /\ UNCHANGED <<pc, disp, own, obs, engine>>
        /\ \/ disk' = [disk EXCEPT !.partial[j] = NoRow]
           \/ \E f \in {NoRow, Foreign} : disk' = [disk EXCEPT !.final[j] = f]
    BY <1>10 DEF Tamper
  <2>2. disk' \in [partial: [Jobs -> OrNoRow(Payloads)],
                   final: [Jobs -> OrNoRow(Payloads \cup {Foreign})]]
    <3>1. \/ disk' = [disk EXCEPT !.partial = [disk.partial EXCEPT ![j] = NoRow]]
          \/ \E f \in OrNoRow({Foreign}) :
               disk' = [disk EXCEPT !.final = [disk.final EXCEPT ![j] = f]]
      BY <2>1 DEF OrNoRow
    <3> QED BY <3>1 DEF ProcessOK, OrNoRow
  <2>3. ProcessOK'
    BY <2>1, <2>2 DEF ProcessOK, LinkInFlight
  <2>4. StepOK'
    BY <2>1 DEF StepOK, Dispatching, Activating, Looping
  <2> QED BY <2>3, <2>4
<1> QED BY <1>3, <1>4, <1>5, <1>6, <1>7, <1>8, <1>9, <1>10 DEF Observe

\* A shutdown, a crash and a start leave it sound.
LEMMA LifecycleThread ==
  ASSUME BaseInv, Lifecycle
  PROVE  ThreadOK'
<1> USE DEF ThreadOK, BaseInv
<1>1. CASE Shutdown
  <2>1. /\ pc' = "stopping" /\ own' = [own EXCEPT !.cancel = TRUE]
        /\ engine' \in {engine, NoEngine} /\ UNCHANGED <<disp, obs, disk>>
    BY <1>1 DEF Shutdown
  <2>2. /\ OwnerShape(own') /\ own'.permit = own.permit
    BY <2>1, CancelledShape DEF ProcessOK
  <2>3. ProcessOK'
    BY <2>1, <2>2, NoEngineRow DEF ProcessOK, LinkInFlight, Steps
  <2>4. StepOK'
    BY <2>1 DEF StepOK, Dispatching, Activating, Looping
  <2> QED BY <2>3, <2>4
<1>2. CASE ShutdownPersist
  <2>1. /\ ~ObsAlive /\ obs' = NoRow /\ pc' \in {"stopped", "down"}
        /\ own' = (IF pc' = "down" THEN NewOwner(FALSE) ELSE own)
        /\ UNCHANGED <<disp, engine, disk>>
    BY <1>2 DEF ShutdownPersist
  <2>2. OwnerShape(own') /\ ~LinkInFlight'
    BY <2>1, NewOwnerShape DEF ProcessOK, LinkInFlight, ObsAlive
  <2>3. ProcessOK'
    BY <2>1, <2>2 DEF ProcessOK, Steps
  <2>4. StepOK'
    BY <2>1 DEF StepOK, Dispatching, Activating, Looping
  <2> QED BY <2>3, <2>4
<1>3. CASE ShutdownClear
  <2>1. /\ pc = "stopped" /\ pc' = "down" /\ own' = NewOwner(FALSE)
        /\ UNCHANGED <<disp, obs, engine, disk>>
    BY <1>3 DEF ShutdownClear
  <2>2. ~LinkInFlight /\ OwnerShape(own') /\ own'.permit = NoRow
    BY <2>1, NewOwnerShape DEF StepOK, ProcessOK
  <2>3. ProcessOK'
    BY <2>1, <2>2 DEF ProcessOK, LinkInFlight, Steps
  <2>4. StepOK'
    BY <2>1 DEF StepOK, Dispatching, Activating, Looping
  <2> QED BY <2>3, <2>4
<1>4. CASE Crash
  BY <1>4, DownThread DEF Crash, OrNoRow
<1>5. CASE ColdStart
  <2>1. /\ pc = "down" /\ pc' = "booted" /\ own' = NewOwner(FALSE)
        /\ UNCHANGED <<disp, obs, engine, disk>>
    BY <1>5 DEF ColdStart
  <2>2. obs = NoRow
    BY <2>1 DEF StepOK
  <2> QED BY <2>1, <2>2, DownThread DEF ProcessOK
<1>6. CASE RecoverEngine
  <2>1. /\ pc = "booted" /\ pc' = "main" /\ own' \in {own, NewOwner(TRUE)}
        /\ engine' \in {engine, NoEngine} /\ UNCHANGED <<disp, obs, disk>>
    BY <1>6 DEF RecoverEngine
  <2>2. obs = NoRow /\ own = NewOwner(FALSE)
    BY <2>1 DEF StepOK
  <2> QED BY <2>1, <2>2, DownThread DEF ProcessOK
<1> QED BY <1>1, <1>2, <1>3, <1>4, <1>5, <1>6 DEF Lifecycle, Stop

-----------------------------------------------------------------------------
(* How one step moves the owner's plan, publication and permit.            *)

Replaced == own' = Cleared(own) \/ own' = NewOwner(FALSE) \/ own' = NewOwner(TRUE)

\* A plan is made by resume, and leaves with its controller or its process.
PlanMoves ==
  \/ own.plan = NoRow /\ own'.plan = NoRow
  \/ /\ own.plan # NoRow /\ own'.plan # NoRow
     /\ own'.plan.job = own.plan.job /\ own'.plan.req = own.plan.req
  \/ Replaced
  \/ DispatchResume

\* A publication is that of the prepared plan or of an accepted recovery.
PublicationMoves == own'.pub # NoRow =>
  \/ /\ own.pub # NoRow /\ own'.pub.job = own.pub.job
     /\ own.pub.seen => own'.pub.seen
  \/ /\ ReapPreparation /\ own.plan # NoRow
     /\ own'.pub.job = own.plan.job /\ ~own'.pub.seen
  \/ /\ own.pub = NoRow
     /\ \E r \in Requests, j \in Jobs : ServeRecovery(r, j) /\ own'.pub.job = j

\* A permit is opened by the preparation only, and entered by the observer only.
PermitMoves ==
  /\ Opened(own') => Opened(own) \/ ReapPreparation
  /\ LinkInFlight' => LinkInFlight \/ PublishEnter

OwnerMoves == PlanMoves /\ PublicationMoves /\ PermitMoves

\* The owner's plan, publication and permit are left alone.
LEMMA OwnerRests ==
  ASSUME own'.plan = own.plan, own'.pub = own.pub, own'.permit = own.permit
  PROVE  OwnerMoves
  BY DEF OwnerMoves, PlanMoves, PublicationMoves, PermitMoves, Opened, LinkInFlight

\* The owner's publication is given up, its plan kept.
LEMMA OwnerYields ==
  ASSUME own'.plan = own.plan, ~Opened(own'), LinkInFlight' => LinkInFlight,
         own'.pub # NoRow => /\ own.pub # NoRow /\ own'.pub.job = own.pub.job
                             /\ own.pub.seen => own'.pub.seen
  PROVE  OwnerMoves
  BY DEF OwnerMoves, PlanMoves, PublicationMoves, PermitMoves

LEMMA OwnerReplaced ==
  ASSUME OwnerShape(own), Replaced
  PROVE  OwnerMoves
<1>1. PlanMoves
  BY DEF PlanMoves
<1>2. \/ own'.pub = own.pub /\ own'.permit = own.permit
      \/ own'.pub = NoRow /\ own'.permit = NoRow
  BY ClearedShape, NewOwnerShape DEF Replaced
<1>3. PublicationMoves /\ PermitMoves
  BY <1>2 DEF PublicationMoves, PermitMoves, Opened, LinkInFlight
<1> QED BY <1>1, <1>3 DEF OwnerMoves

LEMMA ServeMoves ==
  ASSUME BaseInv, Serve
  PROVE  OwnerMoves
<1>0. OwnerShape(own)
  BY DEF BaseInv, ProcessOK
<1>1. CASE own' = own
  BY <1>1, OwnerRests
<1>2. CASE RefuseInFlight
  <2>1. /\ own'.plan = own.plan /\ own'.pub = own.pub /\ ~Opened(own')
        /\ LinkInFlight' = LinkInFlight
    BY <1>0, <1>2, RevokedShape DEF RefuseInFlight, LinkInFlight
  <2> QED BY <2>1, OwnerYields
<1>3. ASSUME ~LinkInFlight, CloseOwned([Withdrawn(own) EXCEPT !.pub = NoRow])
      PROVE  OwnerMoves
  <2>1. own' = Dropped(own) \/ own' = Closing(Dropped(own), ObsAlive)
    BY <1>3 DEF CloseOwned, Closing, Dropped
  <2>2. /\ OwnerShape(Dropped(own)) /\ ~Opened(Dropped(own))
        /\ Dropped(own).plan = own.plan /\ Dropped(own).pub = NoRow
        /\ ~(Dropped(own).permit # NoRow /\ Dropped(own).permit.inflight)
    BY <1>0, <1>3, DroppedShape DEF LinkInFlight
  <2>3. /\ own'.plan = own.plan /\ own'.pub = NoRow /\ own'.permit = Dropped(own).permit
    <3>1. ObsAlive \in BOOLEAN
      BY DEF ObsAlive
    <3>2. CASE own' = Closing(Dropped(own), ObsAlive)
      BY <2>2, <3>1, <3>2, ClosingShape
    <3> QED BY <2>1, <2>2, <3>2
  <2>4. ~Opened(own') /\ ~LinkInFlight'
    BY <2>2, <2>3 DEF Opened, LinkInFlight
  <2> QED BY <2>3, <2>4, OwnerYields
<1>4. CASE ContainmentFails
  <2>1. own' = Withdrawn(own) \/ own' = Stuck(Withdrawn(own))
    <3>1. CASE own.ctl = "none"
      BY <1>4, <3>1 DEF ContainmentFails
    <3>2. CASE own.ctl # "none"
      BY <1>4, <3>2 DEF ContainmentFails, Stuck
    <3> QED BY <3>1, <3>2
  <2>2. /\ OwnerShape(Withdrawn(own)) /\ ~Opened(Withdrawn(own))
        /\ Withdrawn(own).plan = own.plan
        /\ (Withdrawn(own).pub = NoRow) = (own.pub = NoRow)
        /\ own.pub # NoRow => /\ Withdrawn(own).pub.job = own.pub.job
                              /\ Withdrawn(own).pub.seen = own.pub.seen
        /\ ~(Withdrawn(own).permit # NoRow /\ Withdrawn(own).permit.inflight)
    BY <1>0, <1>4, WithdrawnShape DEF ContainmentFails, LinkInFlight
  <2>3. /\ own'.plan = own.plan /\ own'.pub = Withdrawn(own).pub
        /\ own'.permit = Withdrawn(own).permit
    BY <2>1, <2>2, StuckShape
  <2>4. ~Opened(own') /\ ~LinkInFlight'
    BY <2>2, <2>3 DEF Opened, LinkInFlight
  <2> QED BY <2>2, <2>3, <2>4, OwnerYields
<1>5. CASE ActivateReserve
  BY <1>1, <1>5 DEF ActivateReserve
<1>6. CASE ActivateDiscard
  BY <1>0, <1>6, OwnerReplaced DEF ActivateDiscard, Replaced
<1>7. ASSUME NEW r \in Requests, NEW j \in Jobs, ServeRecovery(r, j)
      PROVE  OwnerMoves
  <2> DEFINE p == [job |-> j, gen |-> job[j].gen, rev |-> job[j].rev,
                   rec |-> r, stage |-> FALSE, seen |-> FALSE]
  <2>1. \/ own.pub = NoRow /\ own' = [own EXCEPT !.cancel = FALSE, !.pub = p]
        \/ own' = own
    BY <1>7 DEF ServeRecovery
  <2>2. p.job = j
    OBVIOUS
  <2> HIDE DEF p
  <2>3. CASE own.pub = NoRow /\ own' = [own EXCEPT !.cancel = FALSE, !.pub = p]
    <3>1. /\ own'.plan = own.plan /\ own'.pub = p /\ own'.permit = own.permit
      BY <1>0, <2>3 DEF OwnerShape, OwnerRow
    <3> QED BY <1>7, <2>2, <2>3, <3>1
            DEF OwnerMoves, PlanMoves, PublicationMoves, PermitMoves, Opened, LinkInFlight
  <2> QED BY <1>1, <2>1, <2>3
<1>8. ASSUME NEW j \in Jobs, NEW a \in Actions, ServeContainedControl(j, a)
      PROVE  OwnerMoves
  BY <1>2, <1>3, <1>8 DEF ServeContainedControl
<1>9. CASE ServeGatePause
  BY <1>2, <1>3, <1>4, <1>9 DEF ServeGatePause
<1> QED BY <1>1, <1>5, <1>6, <1>7, <1>8, <1>9
        DEF Serve, ServeAdd, ServeControl, ServeGate, ServeDispatchRefused, ServeDispatch,
            ServeReplay, Served

LEMMA ContinueMoves ==
  ASSUME BaseInv, Continue
  PROVE  OwnerMoves
<1>0. OwnerShape(own)
  BY DEF BaseInv, ProcessOK
<1>1. CASE own' = own
  BY <1>1, OwnerRests
<1>2. CASE ActivateReady
  BY <1>0, <1>2, OwnerRests DEF ActivateReady, OwnerShape, OwnerRow
<1>3. CASE DispatchResume
  <2>1. own'.pub = own.pub /\ own'.permit = own.permit
    BY <1>0, <1>3 DEF DispatchResume, OwnerShape, OwnerRow
  <2> QED BY <1>3, <2>1
          DEF OwnerMoves, PlanMoves, PublicationMoves, PermitMoves, Opened, LinkInFlight
<1>4. CASE DispatchFail
  <2>1. own' = ClosedOwner(own) \/ own' = Stuck(own)
    BY <1>4 DEF DispatchFail, Stuck
  <2>2. own'.plan = own.plan /\ own'.pub = own.pub /\ own'.permit = own.permit
    BY <1>0, <2>1, ClosedShape, StuckShape
  <2> QED BY <2>2, OwnerRests
<1>5. CASE Retire
  BY <1>0, <1>5, OwnerReplaced DEF Retire, Replaced
<1> QED BY <1>1, <1>2, <1>3, <1>4, <1>5
        DEF Continue, ActivateLaunch, ActivateBind, ActivateFail, DispatchAdd, DispatchAdvance,
            DispatchFinish, ServeRecoveryRefused

LEMMA PollMoves ==
  ASSUME BaseInv, Poll
  PROVE  OwnerMoves
<1>0. OwnerShape(own) /\ (Reaping => ~LinkInFlight)
  BY DEF BaseInv, ProcessOK, Reaping, ObsDone
<1>1. CASE own' = own
  BY <1>1, OwnerRests
<1>2. CASE RetireAfterObserver \/ Die
  BY <1>0, <1>2, OwnerReplaced DEF RetireAfterObserver, Die, Replaced
<1>3. CASE CloseReaped(own)
  <2>1. own'.plan = own.plan /\ own'.pub = own.pub /\ own'.permit = own.permit
    BY <1>0, <1>3, ClosedShape DEF CloseReaped
  <2> QED BY <2>1, OwnerRests
<1>4. CASE CloseReaped(Idled) \/ CloseReaped(PublicationDropped) \/ own' = PublicationDropped
  <2>1. own'.plan = own.plan /\ own'.pub = NoRow /\ own'.permit = NoRow
    BY <1>0, <1>4, ClosedShape, IdledShape, PublicationDroppedShape DEF CloseReaped
  <2> QED BY <2>1, OwnerYields DEF Opened, LinkInFlight
<1>5. ASSUME NEW fence, NEW recoverable, PauseTracked(fence, recoverable)
      PROVE  OwnerMoves
  BY <1>2, <1>4, <1>5 DEF PauseTracked, Idled
<1>6. CASE ReapTerminal
  <2>1. ASSUME PlanCurrent, obs.res = "ok", FinalizeTerminal(own.plan.req),
               own' = [own EXCEPT !.plan.rev = @ + 1, !.work = "stage", !.pay = obs.pay]
        PROVE  OwnerMoves
    <3>1. /\ own'.pub = own.pub /\ own'.permit = own.permit /\ own.plan # NoRow
          /\ own'.plan # NoRow /\ own'.plan.job = own.plan.job /\ own'.plan.req = own.plan.req
      BY <1>6, <2>1, TerminalFinalized DEF ReapTerminal, PlanCurrent
    <3> QED BY <3>1
            DEF OwnerMoves, PlanMoves, PublicationMoves, PermitMoves, Opened, LinkInFlight
  <2> QED BY <1>2, <1>3, <1>5, <1>6, <2>1 DEF ReapTerminal, CloseWithoutPersist
<1>7. CASE ReapStage
  <2>1. ASSUME own' = [own EXCEPT !.work = "prepare", !.cancel = FALSE]
        PROVE  OwnerMoves
    BY <1>0, <2>1, OwnerRests DEF OwnerShape, OwnerRow
  <2> QED BY <1>3, <1>5, <1>7, <2>1 DEF ReapStage, CloseWithoutPersist
<1>8. CASE ReapPreparation
  <2> DEFINE p == [job |-> own.plan.job, gen |-> own.plan.gen, rev |-> own.plan.rev,
                   rec |-> NoRow, stage |-> TRUE, seen |-> FALSE]
  <2>1. ASSUME own' = [own EXCEPT !.work = "none", !.permit = FreshPermit, !.pub = p]
        PROVE  OwnerMoves
    <3>1. p.job = own.plan.job /\ ~p.seen
      OBVIOUS
    <3> HIDE DEF p
    <3>2. own'.plan = own.plan /\ own'.pub = p /\ own'.permit = FreshPermit
      BY <1>0, <2>1 DEF OwnerShape, OwnerRow
    <3>3. ~LinkInFlight' /\ own.plan # NoRow
      BY <1>0, <1>8, <3>2 DEF LinkInFlight, FreshPermit, ReapPreparation, Reaped, OwnerShape
    <3> QED BY <1>8, <3>1, <3>2, <3>3
            DEF OwnerMoves, PlanMoves, PublicationMoves, PermitMoves
  <2> QED BY <1>5, <1>8, <2>1 DEF ReapPreparation
<1>9. CASE ReapRevokedPublication
  <2>1. /\ own'.plan = own.plan /\ own'.permit = own.permit
        /\ own'.pub # NoRow /\ own'.pub.job = own.pub.job /\ own'.pub.seen
        /\ own.pub # NoRow
    BY <1>0, <1>9, SeenShape DEF ReapRevokedPublication, ReapingPublication
  <2> QED BY <2>1
          DEF OwnerMoves, PlanMoves, PublicationMoves, PermitMoves, Opened, LinkInFlight
<1>10. CASE ReapPublished
  BY <1>4, <1>10 DEF ReapPublished
<1>11. CASE ReapUnpublished
  BY <1>4, <1>5, <1>11 DEF ReapUnpublished
<1> QED BY <1>1, <1>2, <1>6, <1>7, <1>8, <1>9, <1>10, <1>11
        DEF Poll, LaunchPreparation, LaunchPublication, LaunchTransfer, Launch, PollIdle, ReapVoid

LEMMA ObserveMoves ==
  ASSUME BaseInv, Observe \/ EngineStep \/ \E j \in Jobs : Tamper(j)
  PROVE  OwnerMoves
<1>0. own \in OwnerRow /\ OwnerShape(own)
  BY DEF BaseInv, ProcessOK, OwnerShape
<1>1. CASE own' = own
  BY <1>1, OwnerRests
<1>2. CASE PublishEnter
  <2>1. /\ PermitOpen /\ own' = [own EXCEPT !.permit.attempted = TRUE, !.permit.inflight = TRUE]
    BY <1>2 DEF PublishEnter
  <2>2. Opened(own)
    BY <2>1 DEF PermitOpen, Opened
  <2>3. own'.plan = own.plan /\ own'.pub = own.pub
    BY <1>0, <2>1 DEF OwnerRow
  <2> QED BY <1>2, <2>2, <2>3
          DEF OwnerMoves, PlanMoves, PublicationMoves, PermitMoves
<1>3. CASE PublishLink
  <2>1. own' = [own EXCEPT !.permit.inflight = FALSE] /\ LinkInFlight
    BY <1>3 DEF PublishLink, Observing, BaseInv, ProcessOK
  <2>2. own'.plan = own.plan /\ own'.pub = own.pub /\ (Opened(own') => Opened(own))
    <3>1. own.permit \in PermitRow
      BY <1>0, <2>1, OwnerFields DEF LinkInFlight
    <3> DEFINE q == [own.permit EXCEPT !.inflight = FALSE]
    <3>2. /\ q.revoked = own.permit.revoked /\ q.attempted = own.permit.attempted
          /\ q # NoRow
      <4>1. q \in PermitRow /\ q.revoked = own.permit.revoked /\ q.attempted = own.permit.attempted
        BY <3>1 DEF PermitRow
      <4> QED BY <4>1, Records
    <3>3. own' = [own EXCEPT !.permit = q]
      BY <1>0, <2>1 DEF OwnerRow
    <3> HIDE DEF q
    <3>4. own'.plan = own.plan /\ own'.pub = own.pub /\ own'.permit = q
      BY <1>0, <3>3 DEF OwnerRow
    <3> QED BY <2>1, <3>2, <3>4 DEF Opened, LinkInFlight
  <2> QED BY <2>1, <2>2 DEF OwnerMoves, PlanMoves, PublicationMoves, PermitMoves
<1> QED BY <1>1, <1>2, <1>3
        DEF Observe, ObserveTerminal, ObserveFiles, ObserveFail, PublishVerify, EngineStep, Tamper

LEMMA LifecycleMoves ==
  ASSUME BaseInv, Lifecycle
  PROVE  OwnerMoves
<1>0. OwnerShape(own)
  BY DEF BaseInv, ProcessOK
<1>1. CASE own' = own
  BY <1>1, OwnerRests
<1>2. CASE Shutdown
  BY <1>0, <1>2, CancelledShape, OwnerRests DEF Shutdown
<1>3. CASE own' = NewOwner(FALSE) \/ own' = NewOwner(TRUE)
  BY <1>0, <1>3, OwnerReplaced DEF Replaced
<1> QED BY <1>1, <1>2, <1>3
        DEF Lifecycle, Stop, ShutdownPersist, ShutdownClear, Crash, ColdStart, RecoverEngine

LEMMA OwnerStep ==
  ASSUME BaseInv, [Next]_vars
  PROVE  ThreadOK' /\ OwnerMoves
<1>1. CASE UNCHANGED vars
  <2>1. ThreadOK'
    BY <1>1 DEF vars, ThreadOK, BaseInv, ProcessOK, StepOK, LinkInFlight, Looping
  <2> QED BY <1>1, <2>1, OwnerRests DEF vars
<1>2. CASE Serve
  BY <1>2, ServeThread, ServeMoves
<1>3. CASE Continue
  BY <1>3, ContinueThread, ContinueMoves
<1>4. CASE Poll
  BY <1>4, PollThread, PollMoves
<1>5. CASE Observe \/ EngineStep \/ \E j \in Jobs : Tamper(j)
  BY <1>5, ObserveThread, ObserveMoves
<1>6. CASE Lifecycle
  BY <1>6, LifecycleThread, LifecycleMoves
<1> QED BY <1>1, <1>2, <1>3, <1>4, <1>5, <1>6 DEF Next

-----------------------------------------------------------------------------
(* The plan and the dispatch stay with their receipt.                      *)

LEMMA PlanStep ==
  ASSUME BaseInv, [Next]_vars
  PROVE  PlanOK'
<1> USE DEF BaseInv
<1>1. OwnerMoves /\ [StoreNext]_storeVars
  BY OwnerStep, StoreStep
<1>2. CASE own'.plan = NoRow
  BY <1>2 DEF PlanOK
<1>3. CASE own.plan # NoRow /\ own'.plan.job = own.plan.job /\ own'.plan.req = own.plan.req
  <2>1. own.plan.req \in Requests
    BY <1>3, Arguments
  <2> QED BY <1>1, <1>3, <2>1, ReceiptStays DEF PlanOK, StoreOK
<1>4. CASE DispatchResume
  <2>1. /\ pc = "advanced" /\ receipt' = receipt
        /\ own' = [own EXCEPT !.work = "terminal",
             !.plan = [job |-> receipt[disp].job, req |-> disp,
                       gen |-> job[receipt[disp].job].gen, rev |-> job[receipt[disp].job].rev]]
    BY <1>4 DEF DispatchResume, storeVars
  <2>2. receipt[disp] # NoRow
    BY <2>1 DEF DispatchOK, Dispatching, Pending
  <2>3. own'.plan.req = disp /\ own'.plan.job = receipt[disp].job
    BY <2>1 DEF ProcessOK, OwnerShape, OwnerRow
  <2> QED BY <2>1, <2>2, <2>3 DEF PlanOK
<1>5. CASE Replaced
  <2>1. Cleared(own).plan = NoRow
    BY ClearedShape DEF ProcessOK
  <2> QED BY <1>2, <1>5, <2>1 DEF Replaced, NewOwner
<1> QED BY <1>1, <1>2, <1>3, <1>4, <1>5 DEF OwnerMoves, PlanMoves

\* The row of the dispatch's job, after its own transaction.
LEMMA DispatchStep ==
  ASSUME BaseInv, [Next]_vars
  PROVE  DispatchOK'
<1> USE DEF BaseInv
<1>1. CASE pc' \notin Dispatching
  BY <1>1 DEF DispatchOK
<1>2. ASSUME pc \in Dispatching, UNCHANGED <<storeVars, pc, disp, own, obs>>,
             \/ engine' = engine \/ ~engine'.live
             \/ engine.body # NoRow /\ engine'.body # NoRow /\ engine'.body.job = engine.body.job
                 /\ engine.live
      PROVE  DispatchOK'
  BY <1>2 DEF DispatchOK, storeVars, Pending, Stored, AtRow, Fence
<1>3. CASE UNCHANGED vars
  BY <1>1, <1>2, <1>3 DEF vars, storeVars
<1>4. ASSUME NEW r \in Requests, NEW j \in Jobs, ServeDispatch(r, j)
      PROVE  DispatchOK'
  <2>1. /\ AdmitDispatch(r, j, TRUE, TRUE) /\ own.ctl = "ready" /\ own.plan = NoRow
        /\ obs = NoRow /\ pc' = "resolved" /\ disp' = r /\ UNCHANGED <<own, obs, engine>>
    BY <1>4 DEF ServeDispatch, ControllerReady, LaneFree
  <2>2. /\ gate' = gate /\ job'[j] = Moved(j, "resolving")
        /\ receipt'[r] = Receipt(j, "pending", Fence(Moved(j, "resolving")))
        /\ CanMove(j) /\ Stored(j)
    BY <2>1 DEF AdmitDispatch, StoreOK, TypeOK
  <2>3. gate = "running"
    <3>1. DispatchVerdict(j, TRUE, TRUE, TRUE) = "plan"
      BY <2>1 DEF AdmitDispatch
    <3> QED BY <3>1 DEF DispatchVerdict
  <2>4. Stored(j)' /\ receipt'[r] # NoRow
    <3>1. [StoreNext]_storeVars
      BY StoreStep
    <3>2. /\ Receipt(j, "pending", Fence(Moved(j, "resolving"))) \in ReceiptRow
      BY <2>2, MovedIsRow, ReceiptIsRow DEF StoreOK, JobStates, ActiveStates, BodyStates
    <3> QED BY <2>2, <3>1, <3>2, StoredStays, NoRowAssumption DEF StoreOK
  <2>5. Moved(j, "resolving").state = "resolving"
    BY <2>2, StoredIsRow DEF Moved, StoreOK, JobRow
  <2> QED BY <2>1, <2>2, <2>3, <2>4, <2>5
          DEF DispatchOK, Pending, AtRow, Receipt, Fence, Dispatching, Stored
<1>5. CASE Serve
  <2>1. CASE pc' \in {"poll", "withdraw", "retire", "unrecover", "fenced", "activate"}
    BY <1>1, <2>1 DEF Dispatching
  <2>2. \/ pc' \in {"poll", "withdraw", "retire", "unrecover", "fenced", "activate"}
        \/ \E r \in Requests, j \in Jobs : ServeDispatch(r, j)
    BY <1>5 DEF Serve, ServeAdd, ServeControl, ServeContainedControl, ServeGate, ServeGatePause,
         ActivateReserve, ActivateDiscard, ServeDispatchRefused, ServeRecovery, ServeReplay,
         Served, RefuseInFlight, CloseOwned, ContainmentFails
  <2> QED BY <1>4, <2>1, <2>2
<1>6. CASE DispatchAdd
  <2>1. /\ pc = "resolved" /\ pc' = "added" /\ UNCHANGED <<storeVars, disp, own, obs>>
        /\ engine' = [engine EXCEPT !.body =
             [job |-> receipt[disp].job, gen |-> receipt[disp].at.gen, st |-> "paused"]]
    BY <1>6 DEF DispatchAdd
  <2>2. DispatchOK /\ Pending(disp) /\ disp \in Requests
    BY <2>1 DEF DispatchOK, Dispatching, StepOK
  <2>3. engine'.body # NoRow /\ engine'.body.job = receipt[disp].job
    <3> DEFINE b == [job |-> receipt[disp].job, gen |-> receipt[disp].at.gen, st |-> "paused"]
    <3>1. b \in BodyRow /\ b.job = receipt[disp].job
      BY <2>2, PresentIsReceiptRow DEF Pending, StoreOK, BodyRow, FenceRow
    <3>2. engine' = [engine EXCEPT !.body = b]
      BY <2>1
    <3> HIDE DEF b
    <3>3. engine'.body = b
      BY <3>2 DEF ProcessOK
    <3> QED BY <3>1, <3>3, Records
  <2> QED BY <2>1, <2>2, <2>3 DEF DispatchOK, Dispatching, storeVars, Pending, Stored, AtRow, Fence
<1>7. CASE DispatchAdvance
  <2>1. /\ pc = "added" /\ pc' = "advanced" /\ AdvanceToDownloading(disp)
        /\ UNCHANGED <<disp, own, obs, engine>>
    BY <1>7 DEF DispatchAdvance
  <2> DEFINE j == receipt[disp].job
  <2>2. /\ DispatchOK /\ Pending(disp) /\ disp \in Requests /\ Stored(j) /\ receipt[disp] # NoRow
    BY <2>1 DEF DispatchOK, Dispatching, StepOK, Pending
  <2>3. /\ j \in Jobs /\ receipt[disp] \in ReceiptRow
    BY <2>2, PresentIsReceiptRow DEF StoreOK
  <2>4. /\ gate' = gate /\ job'[j] = Moved(j, "downloading") /\ CanMove(j)
        /\ receipt' = [receipt EXCEPT ![disp].at = Fence(Moved(j, "downloading"))]
    BY <2>1, <2>3 DEF AdvanceToDownloading, StoreOK, TypeOK
  <2> HIDE DEF j
  <2>5. /\ receipt'[disp].at = Fence(Moved(j, "downloading"))
        /\ receipt'[disp].status = receipt[disp].status
        /\ receipt'[disp].job = receipt[disp].job
    BY <2>2, <2>3, <2>4 DEF StoreOK, TypeOK, ReceiptRow
  <2>6. receipt'[disp] # NoRow /\ job'[j] # NoRow
    <3>1. [StoreNext]_storeVars /\ TypeOK /\ EligibleIsCurrent
      BY StoreStep DEF StoreOK
    <3>2. job'[j] # NoRow
      BY <2>2, <2>3, <3>1, StoredStays DEF Stored
    <3> QED BY <2>2, <3>1, <3>2, ReceiptStays
  <2>7. Moved(j, "downloading").state = "downloading"
    BY <2>2, <2>3, StoredIsRow DEF Moved, StoreOK, JobRow
  <2> QED BY <2>1, <2>2, <2>4, <2>5, <2>6, <2>7
          DEF DispatchOK, Dispatching, Pending, AtRow, Fence, Stored, j
<1>8. CASE DispatchResume
  <2>1. /\ pc = "advanced" /\ pc' = "resumed" /\ UNCHANGED <<storeVars, disp, obs>>
    BY <1>8 DEF DispatchResume
  <2> DEFINE j == receipt[disp].job
             p == [job |-> j, req |-> disp, gen |-> job[j].gen, rev |-> job[j].rev]
  <2>2. DispatchOK /\ Pending(disp) /\ disp \in Requests /\ Stored(j)
    BY <2>1 DEF DispatchOK, Dispatching, StepOK
  <2>3. own' = [own EXCEPT !.work = "terminal", !.plan = p] /\ own.ctl = "ready"
    BY <1>8, <2>1, <2>2 DEF DispatchResume, DispatchOK, Dispatching
  <2>4. p \in PlanRow /\ p.req = disp
    BY <2>2, PresentIsReceiptRow, StoredIsRow DEF Pending, StoreOK, PlanRow, JobRow
  <2> HIDE DEF p
  <2>5. own'.plan # NoRow /\ own'.plan.req = disp /\ own'.ctl = "ready"
    BY <2>3, <2>4, PlannedShape, Records DEF ProcessOK
  <2> QED BY <2>1, <2>2, <2>5 DEF DispatchOK, Dispatching, storeVars, Pending, Stored, AtRow, Fence
<1>9. CASE Continue
  <2>1. CASE pc' \in {"fenced", "bound", "poll", "retire"}
    BY <1>1, <2>1 DEF Dispatching
  <2>2. \/ pc' \in {"fenced", "bound", "poll", "retire"}
        \/ DispatchAdd \/ DispatchAdvance \/ DispatchResume
    BY <1>9 DEF Continue, ActivateLaunch, ActivateBind, ActivateReady, ActivateFail,
         DispatchFinish, DispatchFail, ServeRecoveryRefused, Retire
  <2> QED BY <1>6, <1>7, <1>8, <2>1, <2>2
<1>10. CASE Poll
  <2>1. pc' \in {"main", "poll", "retire", "down"}
    BY <1>10 DEF Poll, RetireAfterObserver, LaunchPreparation, LaunchPublication, LaunchTransfer,
         Launch, PollIdle, ReapVoid, ReapTerminal, ReapStage, ReapPreparation,
         ReapRevokedPublication, ReapPublished, ReapUnpublished, PauseTracked,
         CloseWithoutPersist, CloseReaped, Die
  <2> QED BY <1>1, <2>1 DEF Dispatching
<1>11. CASE Observe
  <2>1. obs # NoRow /\ pc' = pc
    BY <1>11 DEF Observe, ObserveTerminal, ObserveFiles, ObserveFail, PublishEnter, PublishLink,
         PublishVerify, Observing, ObsAlive
  <2> QED BY <1>1, <2>1 DEF DispatchOK
<1>12. CASE EngineStep
  <2>1. /\ engine.live /\ UNCHANGED <<storeVars, pc, disp, own, obs>>
        /\ \/ /\ engine.body # NoRow
              /\ \E s \in {"complete", "error"} : engine' = [engine EXCEPT !.body.st = s]
           \/ engine' = NoEngine
    BY <1>12 DEF EngineStep
  <2>2. CASE engine' = NoEngine
    BY <1>1, <1>2, <2>1, <2>2 DEF NoEngine
  <2>3. ASSUME NEW s \in {"complete", "error"}, engine.body # NoRow,
               engine' = [engine EXCEPT !.body.st = s]
        PROVE  engine'.body # NoRow /\ engine'.body.job = engine.body.job
    <3> DEFINE b == [engine.body EXCEPT !.st = s]
    <3>1. engine.body \in BodyRow /\ engine \in [live: BOOLEAN, body: OrNoRow(BodyRow)]
      BY <2>3 DEF ProcessOK, OrNoRow
    <3>2. b \in BodyRow /\ b.job = engine.body.job
      BY <3>1 DEF BodyRow
    <3>3. engine' = [engine EXCEPT !.body = b]
      BY <2>3
    <3> HIDE DEF b
    <3> QED BY <3>1, <3>2, <3>3, Records
  <2> QED BY <1>1, <1>2, <2>1, <2>2, <2>3
<1>13. ASSUME NEW j \in Jobs, Tamper(j)
       PROVE  DispatchOK'
  BY <1>1, <1>2, <1>13 DEF Tamper
<1>14. CASE Lifecycle
  <2>1. pc' \in {"main", "booted", "down", "stopped", "stopping"}
    BY <1>14 DEF Lifecycle, Stop, Shutdown, ShutdownPersist, ShutdownClear, Crash, ColdStart,
         RecoverEngine
  <2> QED BY <1>1, <2>1 DEF Dispatching
<1> QED BY <1>3, <1>5, <1>9, <1>10, <1>11, <1>12, <1>13, <1>14 DEF Next

LEMMA BaseInit == Init => BaseInv
<1> SUFFICES ASSUME Init PROVE BaseInv
  OBVIOUS
<1>1. TypeOK
  BY TypeInit DEF Init
<1>2. EligibleIsCurrent /\ AttemptIsStaged
  BY DEF Init, StoreInit, EligibleIsCurrent, AttemptIsStaged, Eligible
<1>3. ProcessOK
  BY NewOwnerShape, NoEngineRow DEF Init, ProcessOK, Steps, OrNoRow, LinkInFlight
<1>4. StepOK /\ PlanOK /\ DispatchOK
  BY NewOwnerShape DEF Init, StepOK, PlanOK, DispatchOK, Dispatching, Activating
<1> QED BY <1>1, <1>2, <1>3, <1>4 DEF BaseInv, StoreOK

LEMMA BaseStep == BaseInv /\ [Next]_vars => BaseInv'
  BY StoreKept, OwnerStep, PlanStep, DispatchStep DEF BaseInv, ThreadOK

LEMMA BaseHolds == Spec => []BaseInv
  BY BaseInit, BaseStep, PTL DEF Spec

(***************************************************************************)
(* Whatever the worker, its observer, its engine and its users do, every   *)
(* step is one transaction of the store or none: all that holds of every   *)
(* run of the store holds of every run of the worker.                      *)
(***************************************************************************)
THEOREM WorkerKeepsStore == Spec => StoreSpec
<1>1. Init => StoreInit
  BY DEF Init
<1>2. BaseInv /\ [Next]_vars => [StoreNext]_storeVars
  BY StoreStep
<1> QED BY <1>1, <1>2, BaseHolds, PTL DEF Spec, StoreSpec

(***************************************************************************)
(* The worker's own types, for every value of the constants.               *)
(***************************************************************************)
THEOREM WorkerTypes == Spec => []WorkerTypeOK
<1>1. BaseInv => WorkerTypeOK
  BY DEF BaseInv, StoreOK, ProcessOK, OwnerShape, WorkerTypeOK, Steps, Dispatching, Activating,
         OrNoRow
<1> QED BY <1>1, BaseHolds, PTL

-----------------------------------------------------------------------------
(* The engine and its claim.                                               *)

EngineOK ==
  /\ EngineIsClaimed
  /\ pc = "fenced" => claim.kind # "none"
  /\ own.ctl = "closed" => ~engine.live
  /\ pc \in {"stopping", "stopped"} /\ own.ctl # "none" => ~engine.live

\* The engine, its controller and its claim are left alone.
LEMMA EngineRests ==
  ASSUME EngineOK, claim' = claim, engine'.live = engine.live, own'.ctl = own.ctl,
         pc' \in {"fenced", "stopping", "stopped"} => pc' = pc
  PROVE  EngineOK'
  BY DEF EngineOK, EngineIsClaimed

LEMMA EngineGone ==
  ASSUME ~engine'.live, pc' # "fenced"
  PROVE  EngineOK'
  BY DEF EngineOK, EngineIsClaimed

LEMMA ServeEngine ==
  ASSUME BaseInv, EngineOK, Serve
  PROVE  EngineOK'
<1>0. OwnerShape(own)
  BY DEF BaseInv, ProcessOK
<1>1. CASE claim' = claim /\ UNCHANGED <<own, engine>> /\ pc' \in {"poll", "unrecover", "resolved"}
  BY <1>1, EngineRests
<1>2. ASSUME claim' = claim, ~LinkInFlight,
             CloseOwned([Withdrawn(own) EXCEPT !.pub = NoRow])
      PROVE  EngineOK'
  <2>1. CASE own.ctl = "none"
    <3>1. own' = Dropped(own) /\ engine' = engine /\ pc' = "poll"
      BY <1>2, <2>1 DEF CloseOwned, Dropped
    <3>2. Dropped(own).ctl = own.ctl
      BY <1>0, <1>2, DroppedShape DEF LinkInFlight
    <3> QED BY <1>2, <3>1, <3>2, EngineRests
  <2>2. CASE own.ctl # "none"
    <3>1. engine' = NoEngine /\ pc' \in {"withdraw", "poll", "retire"}
      BY <1>2, <2>2 DEF CloseOwned, StoppedEngine
    <3> QED BY <3>1, EngineGone DEF NoEngine
  <2> QED BY <2>1, <2>2
<1>3. CASE RefuseInFlight
  <2>1. claim' = claim /\ engine' = engine /\ own'.ctl = own.ctl /\ pc' = "poll"
    BY <1>0, <1>3, RevokedShape DEF RefuseInFlight, storeVars
  <2> QED BY <2>1, EngineRests
<1>4. CASE ContainmentFails
  <2>1. CASE own.ctl = "none"
    <3>1. /\ own' = Withdrawn(own) /\ engine' = engine /\ pc' = "poll" /\ claim' = claim
          /\ ~LinkInFlight
      BY <1>4, <2>1 DEF ContainmentFails, storeVars
    <3>2. Withdrawn(own).ctl = own.ctl
      BY <1>0, <3>1, WithdrawnShape DEF LinkInFlight
    <3> QED BY <3>1, <3>2, EngineRests
  <2>2. CASE own.ctl # "none"
    BY <1>4, <2>2, EngineGone DEF ContainmentFails, NoEngine
  <2> QED BY <2>1, <2>2
<1>5. CASE ActivateReserve
  <2>1. /\ claim'.kind = "fence" /\ pc' = "fenced" /\ UNCHANGED <<own, engine>>
    BY <1>5 DEF ActivateReserve, AdvanceClaim, ClaimOrder
  <2> QED BY <2>1 DEF EngineOK, EngineIsClaimed
<1>6. CASE ActivateDiscard
  BY <1>6, EngineGone DEF ActivateDiscard
<1>7. ASSUME NEW j \in Jobs, NEW a \in Actions, ServeContainedControl(j, a)
      PROVE  EngineOK'
  BY <1>2, <1>3, <1>7 DEF ServeContainedControl, JobControl
<1>8. CASE ServeGatePause
  BY <1>2, <1>3, <1>4, <1>8 DEF ServeGatePause, SetGateContained
<1>9. CASE \E j \in Jobs : ServeAdd(j)
  BY <1>1, <1>9 DEF ServeAdd, JobAdd, Served
<1>10. CASE \E j \in Jobs, a \in Actions : ServeControl(j, a)
  BY <1>1, <1>10 DEF ServeControl, JobControl, Served
<1>11. CASE \E g \in {"paused", "running"} : ServeGate(g)
  BY <1>1, <1>11 DEF ServeGate, SetGate, Served
<1>12. CASE \E r \in Requests, j \in Jobs : ServeDispatchRefused(r, j) \/ ServeDispatch(r, j)
  BY <1>1, <1>12 DEF ServeDispatchRefused, RefuseDispatch, Served, ServeDispatch, AdmitDispatch
<1>13. ASSUME NEW r \in Requests, NEW j \in Jobs, ServeRecovery(r, j)
       PROVE  EngineOK'
  <2>1. /\ claim' = claim /\ engine' = engine /\ own'.ctl = own.ctl
        /\ pc' \in {"poll", "unrecover"}
    BY <1>0, <1>13 DEF ServeRecovery, AdmitRecovery, OwnerShape, OwnerRow
  <2> QED BY <2>1, EngineRests
<1>14. CASE \E r \in Requests : ServeReplay(r)
  BY <1>1, <1>14 DEF ServeReplay, ReplayPending, Served
<1> QED BY <1>5, <1>6, <1>7, <1>8, <1>9, <1>10, <1>11, <1>12, <1>13, <1>14 DEF Serve

LEMMA ContinueEngine ==
  ASSUME BaseInv, EngineOK, Continue
  PROVE  EngineOK'
<1>0. OwnerShape(own)
  BY DEF BaseInv, ProcessOK
<1>1. CASE ActivateLaunch
  <2>1. pc = "fenced" /\ pc' = pc /\ own' = own /\ claim' = claim
    BY <1>1 DEF ActivateLaunch, storeVars
  <2>2. own.ctl = "none"
    BY <2>1 DEF BaseInv, StepOK, Activating
  <2> QED BY <2>1, <2>2 DEF EngineOK, EngineIsClaimed
<1>2. CASE ActivateBind
  <2>1. /\ pc' = "bound" /\ own' = own /\ engine' = engine
        /\ claim.kind # "none" /\ claim.kind # "ready" /\ claim'.kind = ClaimOrder[claim.kind]
    BY <1>2 DEF ActivateBind, AdvanceClaim, EngineOK
  <2>2. claim'.kind # "none"
    BY <2>1 DEF ClaimOrder, BaseInv, StoreOK, TypeOK
  <2> QED BY <2>1, <2>2 DEF EngineOK, EngineIsClaimed
<1>3. CASE ActivateReady
  <2>1. /\ pc' = "poll" /\ engine' = engine /\ own'.ctl = "ready"
        /\ claim.kind # "ready" /\ claim'.kind = ClaimOrder[claim.kind]
    BY <1>0, <1>3 DEF ActivateReady, AdvanceClaim, OwnerShape, OwnerRow
  <2>2. claim'.kind # "none"
    BY <2>1 DEF ClaimOrder, BaseInv, StoreOK, TypeOK
  <2> QED BY <2>1, <2>2 DEF EngineOK, EngineIsClaimed
<1>4. CASE ActivateFail \/ DispatchFail
  BY <1>4, EngineGone DEF ActivateFail, DispatchFail, NoEngine
<1>5. CASE DispatchAdd
  <2>1. /\ claim' = claim /\ own' = own /\ pc' = "added" /\ engine'.live = engine.live
    BY <1>5 DEF DispatchAdd, storeVars, BaseInv, ProcessOK
  <2> QED BY <2>1, EngineRests
<1>6. CASE DispatchAdvance \/ DispatchFinish
  BY <1>6, EngineRests DEF DispatchAdvance, DispatchFinish, AdvanceToDownloading, FinishDispatch
<1>7. CASE DispatchResume
  <2>1. /\ claim' = claim /\ pc' = "resumed" /\ engine'.live = engine.live /\ own'.ctl = own.ctl
    BY <1>0, <1>7 DEF DispatchResume, storeVars, BaseInv, ProcessOK, OwnerShape, OwnerRow
  <2> QED BY <2>1, EngineRests
<1>8. CASE ServeRecoveryRefused
  BY <1>8, EngineRests DEF ServeRecoveryRefused, AbortRecovery
<1>9. CASE Retire
  <2>1. ~engine.live
    BY <1>9 DEF Retire, BaseInv, StepOK, EngineOK
  <2> QED BY <1>9, <2>1, EngineGone DEF Retire
<1> QED BY <1>1, <1>2, <1>3, <1>4, <1>5, <1>6, <1>7, <1>8, <1>9 DEF Continue

\* A poll closes the engine or leaves it and its claim alone.
LEMMA CloseReapedEngine ==
  ASSUME EngineOK, NEW o, o.ctl = own.ctl, CloseReaped(o), claim' = claim
  PROVE  EngineOK'
<1>1. CASE own.ctl = "none"
  BY <1>1, EngineRests DEF CloseReaped
<1>2. CASE own.ctl # "none"
  BY <1>2, EngineGone DEF CloseReaped, NoEngine
<1> QED BY <1>1, <1>2

LEMMA PauseEngine ==
  ASSUME EngineOK, OwnerShape(own), NEW fence, NEW recoverable, PauseTracked(fence, recoverable)
  PROVE  EngineOK'
<1>1. CASE Die
  BY <1>1, EngineGone DEF Die, NoEngine
<1>2. CASE CloseReaped(Idled) /\ PauseActive(fence.job, recoverable)
  BY <1>2, IdledShape, CloseReapedEngine DEF PauseActive
<1> QED BY <1>1, <1>2 DEF PauseTracked, Idled

LEMMA PollEngine ==
  ASSUME BaseInv, EngineOK, Poll
  PROVE  EngineOK'
<1>0. OwnerShape(own)
  BY DEF BaseInv, ProcessOK
<1>1. CASE claim' = claim /\ UNCHANGED engine /\ own'.ctl = own.ctl /\ pc' \in {"poll", "main"}
  BY <1>1, EngineRests
<1>2. CASE RetireAfterObserver
  <2>1. ~engine.live
    BY <1>0, <1>2 DEF RetireAfterObserver, OwnerShape, EngineOK
  <2> QED BY <1>2, <2>1, EngineGone DEF RetireAfterObserver
<1>3. CASE CloseReaped(own) /\ claim' = claim
  BY <1>3, CloseReapedEngine
<1>4. CASE Die
  BY <1>4, EngineGone DEF Die, NoEngine
<1>5. CASE LaunchPreparation \/ LaunchPublication \/ LaunchTransfer \/ PollIdle \/ ReapVoid
  BY <1>1, <1>5 DEF LaunchPreparation, LaunchPublication, LaunchTransfer, Launch, PollIdle,
                    ReapVoid, storeVars
<1>6. CASE ReapTerminal
  <2>1. ASSUME own' = [own EXCEPT !.plan.rev = @ + 1, !.work = "stage", !.pay = obs.pay]
        PROVE  own'.ctl = own.ctl
    BY <1>0, <2>1 DEF OwnerShape, OwnerRow
  <2> QED BY <1>0, <1>1, <1>3, <1>4, <1>6, <2>1, PauseEngine
          DEF ReapTerminal, CloseWithoutPersist, FinalizeTerminal, FailTerminal, storeVars
<1>7. CASE ReapStage
  <2>1. ASSUME own' = [own EXCEPT !.work = "prepare", !.cancel = FALSE]
        PROVE  own'.ctl = own.ctl
    BY <1>0, <2>1 DEF OwnerShape, OwnerRow
  <2> QED BY <1>0, <1>1, <1>3, <1>7, <2>1, PauseEngine
          DEF ReapStage, CloseWithoutPersist, BindStaged, storeVars
<1>8. CASE ReapPreparation
  <2>1. CASE PauseTracked(own.plan, FALSE)
    BY <1>0, <2>1, PauseEngine
  <2>2. CASE ~PauseTracked(own.plan, FALSE)
    <3>1. own'.ctl = own.ctl /\ UNCHANGED engine /\ pc' = "poll" /\ claim' = claim
      BY <1>0, <1>8, <2>2 DEF ReapPreparation, ReservePublication, OwnerShape, OwnerRow
    <3> QED BY <1>1, <3>1
  <2> QED BY <2>1, <2>2
<1>9. CASE ReapRevokedPublication
  <2>1. own'.ctl = own.ctl
    BY <1>0, <1>9 DEF ReapRevokedPublication, OwnerShape, OwnerRow
  <2> QED BY <1>1, <1>9, <2>1 DEF ReapRevokedPublication, storeVars
<1>10. CASE ReapPublished
  BY <1>0, <1>10, PublicationDroppedShape, CloseReapedEngine
     DEF ReapPublished, CompletePublication
<1>11. CASE ReapUnpublished
  <2>1. CASE PauseTracked(own.pub, own.permit.attempted)
    BY <1>0, <2>1, PauseEngine
  <2>2. CASE ~PauseTracked(own.pub, own.permit.attempted)
    <3>1. /\ own' = PublicationDropped /\ UNCHANGED engine /\ pc' = "poll" /\ claim' = claim
      BY <1>11, <2>2 DEF ReapUnpublished, AbortRecovery
    <3> QED BY <1>0, <1>1, <3>1, PublicationDroppedShape
  <2> QED BY <2>1, <2>2
<1> QED BY <1>2, <1>5, <1>6, <1>7, <1>8, <1>9, <1>10, <1>11 DEF Poll

LEMMA LifecycleEngine ==
  ASSUME BaseInv, EngineOK, Lifecycle
  PROVE  EngineOK'
<1>0. OwnerShape(own)
  BY DEF BaseInv, ProcessOK
<1>1. CASE Shutdown
  <2>1. own'.ctl = own.ctl
    BY <1>0, <1>1 DEF Shutdown, OwnerShape, OwnerRow
  <2> QED BY <1>1, <2>1 DEF Shutdown, storeVars, EngineOK, EngineIsClaimed, NoEngine
<1>2. CASE ShutdownPersist
  <2>1. /\ claim' = claim /\ engine' = engine /\ pc = "stopping" /\ pc' \in {"stopped", "down"}
        /\ pc' = "stopped" => own' = own
        /\ pc' = "down" => own' = NewOwner(FALSE)
    BY <1>2 DEF ShutdownPersist, AbortRecovery, PauseActive, storeVars
  <2> QED BY <2>1 DEF EngineOK, EngineIsClaimed, NewOwner
<1>3. CASE ShutdownClear
  <2>1. /\ engine' = engine /\ pc = "stopped" /\ pc' = "down" /\ own' = NewOwner(FALSE)
        /\ own.ctl = "none" => claim' = claim
        /\ claim' = claim \/ own.ctl # "none"
    BY <1>3 DEF ShutdownClear, storeVars
  <2> QED BY <2>1 DEF EngineOK, EngineIsClaimed, NewOwner
<1>4. CASE Crash
  BY <1>4 DEF Crash, storeVars, EngineOK, EngineIsClaimed, NewOwner
<1>5. CASE ColdStart
  BY <1>5 DEF ColdStart, RecoverCold, EngineOK, EngineIsClaimed, NewOwner
<1>6. CASE RecoverEngine
  <2>1. own.ctl = "none"
    BY <1>6 DEF RecoverEngine, BaseInv, StepOK, NewOwner
  <2> QED BY <1>6, <2>1
          DEF RecoverEngine, ClearClaim, EngineOK, EngineIsClaimed, NewOwner, NoEngine, storeVars
<1> QED BY <1>1, <1>2, <1>3, <1>4, <1>5, <1>6 DEF Lifecycle, Stop

LEMMA EngineStepKeeps ==
  ASSUME BaseInv, EngineOK, [Next]_vars
  PROVE  EngineOK'
<1>1. CASE UNCHANGED vars
  BY <1>1, EngineRests DEF vars
<1>2. CASE EngineStep
  <2>1. CASE engine' = NoEngine
    <3>1. claim' = claim /\ own' = own /\ pc' = pc
      BY <1>2 DEF EngineStep, storeVars
    <3> QED BY <2>1, <3>1 DEF EngineOK, EngineIsClaimed, NoEngine
  <2>2. CASE engine' # NoEngine
    <3>1. /\ engine'.live = engine.live /\ claim' = claim /\ own' = own /\ pc' = pc
      BY <1>2, <2>2 DEF EngineStep, storeVars, BaseInv, ProcessOK
    <3> QED BY <3>1, EngineRests
  <2> QED BY <2>1, <2>2
<1>3. CASE Observe
  <2>1. /\ claim' = claim /\ engine' = engine /\ pc' = pc
    BY <1>3 DEF Observe, ObserveTerminal, ObserveFiles, ObserveFail, PublishEnter, PublishLink,
                PublishVerify, storeVars
  <2>2. own'.ctl = own.ctl
    BY <1>3 DEF Observe, ObserveTerminal, ObserveFiles, ObserveFail, PublishEnter, PublishLink,
                PublishVerify, BaseInv, ProcessOK, OwnerShape, OwnerRow
  <2> QED BY <2>1, <2>2, EngineRests
<1>4. CASE \E j \in Jobs : Tamper(j)
  BY <1>4, EngineRests DEF Tamper, storeVars
<1> QED BY <1>1, <1>2, <1>3, <1>4, ServeEngine, ContinueEngine, PollEngine, LifecycleEngine
        DEF Next

LEMMA EngineHolds == Spec => []EngineOK
<1>1. Init => EngineOK
  BY DEF Init, EngineOK, EngineIsClaimed, NoEngine, NewOwner
<1>2. BaseInv /\ EngineOK /\ [Next]_vars => EngineOK'
  BY EngineStepKeeps
<1> QED BY <1>1, <1>2, BaseHolds, PTL DEF Spec

(***************************************************************************)
(* No engine runs without its durable claim, across every crash between    *)
(* launching, binding and clearing: a successor always finds the trace.    *)
(***************************************************************************)
THEOREM EngineClaimed == Spec => []EngineIsClaimed
  BY EngineHolds, PTL DEF EngineOK

-----------------------------------------------------------------------------
(* The body and the plan.                                                  *)

Ended == {"stopping", "stopped", "down", "booted"}
BodyActive == engine.body # NoRow /\ engine.body.st = "active"

\* An owned engine transfers a body only for the plan's job, which may run.
BodyOK == pc \notin Ended /\ ~own.blocked /\ engine.live =>
  \/ /\ own.ctl = "ready"
     /\ BodyActive =>
          /\ own.plan # NoRow /\ own.plan.job = engine.body.job
          /\ job[engine.body.job].state \notin {"paused", "removed"} /\ gate = "running"
  \/ own.ctl = "none" /\ pc \in {"fenced", "bound"} /\ engine.body = NoRow

\* The plan's job is not stopped.
PlanGoesOn ==
  own.plan # NoRow => /\ own'.plan # NoRow /\ own'.plan.job = own.plan.job
                      /\ job[own.plan.job].state \notin {"paused", "removed"}
                           => job'[own.plan.job].state \notin {"paused", "removed"}
                      /\ gate = "running" => gate' = "running"

LEMMA BodyRests ==
  ASSUME BodyOK, PlanGoesOn, own'.ctl = own.ctl, own'.blocked = own.blocked, engine' = engine,
         pc \in {"fenced", "bound"} \cup Ended => pc' = pc
  PROVE  BodyOK'
  BY DEF BodyOK, PlanGoesOn, BodyActive

LEMMA BodyGone ==
  ASSUME ~engine'.live
  PROVE  BodyOK'
  BY DEF BodyOK

\* Without a controller, the main loop owns no engine.
LEMMA BodyAbsent ==
  ASSUME BodyOK, Looping, own.ctl = "none", own'.blocked = own.blocked, engine' = engine
  PROVE  BodyOK'
  BY DEF BodyOK, Looping, Ended

\* A control that does not stop a job leaves it running.
LEMMA ControlledGoesOn ==
  ASSUME NEW row \in JobRow, NEW a \in {"resume", "start_now"},
         row.state \notin {"paused", "removed"}
  PROVE  Controlled(row, a).state \notin {"paused", "removed"}
<1>1. CASE a = "resume" BY <1>1 DEF Controlled, JobRow
<1>2. CASE a = "start_now" BY <1>2 DEF Controlled, JobRow
<1> QED BY <1>1, <1>2

LEMMA ServeControlBody ==
  ASSUME BaseInv, NEW j \in Jobs, NEW a \in Actions, ServeControl(j, a)
  PROVE  PlanGoesOn
<1>1. /\ own' = own /\ gate' = gate /\ JobControl(j, a, FALSE, FALSE)
      /\ j # TrackedJob \/ a \in {"resume", "start_now"}
  BY DEF ServeControl, Served, JobControl
<1>2. job[j] \in JobRow
  BY <1>1, StoredIsRow DEF JobControl, Open, BaseInv, StoreOK
<1>3. ASSUME own.plan # NoRow, job[own.plan.job].state \notin {"paused", "removed"}
      PROVE  job'[own.plan.job].state \notin {"paused", "removed"}
  <2>1. own.plan.job \in Jobs /\ TrackedJob = own.plan.job
    BY <1>3, Arguments DEF BaseInv, TrackedJob
  <2>2. CASE j # own.plan.job
    <3>1. job' = job \/ job' = [job EXCEPT ![j] = [Controlled(job[j], a) EXCEPT !.rev = @ + 1]]
      BY <1>1 DEF JobControl
    <3>2. job'[own.plan.job] = job[own.plan.job]
      BY <2>1, <2>2, <3>1 DEF BaseInv, StoreOK, TypeOK
    <3> QED BY <1>3, <3>2
  <2>3. CASE j = own.plan.job /\ job' # job
    <3>1. a \in {"resume", "start_now"}
      BY <1>1, <2>1, <2>3
    <3>2. job'[j] = [Controlled(job[j], a) EXCEPT !.rev = @ + 1]
      BY <1>1, <2>3 DEF JobControl, BaseInv, StoreOK, TypeOK
    <3>3. Controlled(job[j], a) \in JobRow
      BY <1>2, ControlledTyped
    <3>4. job'[j].state = Controlled(job[j], a).state
      BY <3>2, <3>3 DEF JobRow
    <3> QED BY <1>2, <1>3, <2>3, <3>1, <3>4, ControlledGoesOn
  <2>4. job' = job => job'[own.plan.job] = job[own.plan.job]
    OBVIOUS
  <2> QED BY <1>3, <2>2, <2>3, <2>4
<1> QED BY <1>1, <1>3 DEF PlanGoesOn

LEMMA ServeBody ==
  ASSUME BaseInv, BodyOK, Serve
  PROVE  BodyOK'
<1>0. OwnerShape(own)
  BY DEF BaseInv, ProcessOK
<1>1. ASSUME PlanGoesOn, Served
      PROVE  BodyOK'
  BY <1>1, BodyRests DEF Served, Serving, Ended
<1>2. ASSUME Serving, ~LinkInFlight, CloseOwned([Withdrawn(own) EXCEPT !.pub = NoRow])
      PROVE  BodyOK'
  <2>1. CASE own.ctl = "none"
    <3>1. own' = Dropped(own) /\ engine' = engine
      BY <1>2, <2>1 DEF CloseOwned, Dropped
    <3>2. Dropped(own).blocked = own.blocked
      BY <1>0, <1>2, DroppedShape DEF LinkInFlight
    <3> QED BY <1>2, <2>1, <3>1, <3>2, BodyAbsent DEF Looping, Serving
  <2>2. CASE own.ctl # "none"
    BY <1>2, <2>2, BodyGone DEF CloseOwned, StoppedEngine, NoEngine
  <2> QED BY <2>1, <2>2
<1>3. CASE RefuseInFlight /\ Serving
  <2>1. /\ own'.plan = own.plan /\ own'.ctl = own.ctl /\ own'.blocked = own.blocked
        /\ engine' = engine /\ job' = job /\ gate' = gate
    BY <1>0, <1>3, RevokedShape DEF RefuseInFlight, storeVars
  <2> QED BY <1>3, <2>1, BodyRests DEF PlanGoesOn, Serving, Ended
<1>4. CASE ContainmentFails /\ Serving
  <2>1. CASE own.ctl = "none"
    <3>1. /\ own' = Withdrawn(own) /\ engine' = engine /\ ~LinkInFlight
      BY <1>4, <2>1 DEF ContainmentFails
    <3>2. Withdrawn(own).blocked = own.blocked
      BY <1>0, <3>1, WithdrawnShape DEF LinkInFlight
    <3> QED BY <1>4, <2>1, <3>1, <3>2, BodyAbsent DEF Looping, Serving
  <2>2. CASE own.ctl # "none"
    BY <1>4, <2>2, BodyGone DEF ContainmentFails, NoEngine
  <2> QED BY <2>1, <2>2
<1>5. CASE ActivateReserve
  <2>1. own.ctl = "none" /\ ~own.blocked /\ pc \in {"main", "activate"}
    BY <1>5 DEF ActivateReserve, BaseInv, StepOK, Activating, Serving
  <2>2. ~engine.live
    BY <2>1 DEF BodyOK, Ended
  <2> QED BY <1>5, <2>2, BodyGone DEF ActivateReserve
<1>6. CASE ActivateDiscard
  BY <1>6, BodyGone DEF ActivateDiscard
<1>7. ASSUME NEW j \in Jobs, NEW a \in Actions, ServeContainedControl(j, a)
      PROVE  BodyOK'
  BY <1>2, <1>3, <1>7 DEF ServeContainedControl
<1>8. CASE ServeGatePause
  BY <1>2, <1>3, <1>4, <1>8 DEF ServeGatePause
<1>9. ASSUME NEW j \in Jobs, ServeAdd(j)
      PROVE  BodyOK'
  <2>1. PlanGoesOn
    BY <1>9, Arguments DEF ServeAdd, JobAdd, Served, PlanGoesOn, BaseInv, StoreOK, TypeOK
  <2> QED BY <1>1, <1>9, <2>1 DEF ServeAdd
<1>10. ASSUME NEW j \in Jobs, NEW a \in Actions, ServeControl(j, a)
       PROVE  BodyOK'
  BY <1>1, <1>10, ServeControlBody DEF ServeControl
<1>11. ASSUME NEW g \in {"paused", "running"}, ServeGate(g)
       PROVE  BodyOK'
  <2>1. PlanGoesOn
    <3>1. own.plan # NoRow => g = "running"
      BY <1>11, Arguments, WorkerAssumption DEF ServeGate, TrackedJob, BaseInv
    <3> QED BY <1>11, <3>1 DEF ServeGate, SetGate, Served, PlanGoesOn
  <2> QED BY <1>1, <1>11, <2>1 DEF ServeGate
<1>12. ASSUME NEW r \in Requests, NEW j \in Jobs, ServeDispatchRefused(r, j)
       PROVE  BodyOK'
  <2>1. PlanGoesOn
    BY <1>12 DEF ServeDispatchRefused, RefuseDispatch, Served, PlanGoesOn
  <2> QED BY <1>1, <1>12, <2>1 DEF ServeDispatchRefused
<1>13. ASSUME NEW r \in Requests, NEW j \in Jobs, ServeDispatch(r, j)
       PROVE  BodyOK'
  <2>1. PlanGoesOn
    BY <1>13 DEF ServeDispatch, ControllerReady, PlanGoesOn
  <2> QED BY <1>13, <2>1, BodyRests DEF ServeDispatch, Serving, Ended
<1>14. ASSUME NEW r \in Requests, NEW j \in Jobs, ServeRecovery(r, j)
       PROVE  BodyOK'
  <2>1. /\ own'.plan = own.plan /\ own'.ctl = own.ctl /\ own'.blocked = own.blocked
        /\ engine' = engine /\ job' = job /\ gate' = gate /\ Serving
    BY <1>0, <1>14 DEF ServeRecovery, AdmitRecovery, OwnerShape, OwnerRow
  <2> QED BY <2>1, BodyRests DEF PlanGoesOn, Serving, Ended
<1>15. ASSUME NEW r \in Requests, ServeReplay(r)
       PROVE  BodyOK'
  BY <1>1, <1>15 DEF ServeReplay, ReplayPending, Served, PlanGoesOn
<1> QED BY <1>5, <1>6, <1>7, <1>8, <1>9, <1>10, <1>11, <1>12, <1>13, <1>14, <1>15 DEF Serve

LEMMA ContinueBody ==
  ASSUME BaseInv, EngineOK, BodyOK, Continue
  PROVE  BodyOK'
<1>0. OwnerShape(own)
  BY DEF BaseInv, ProcessOK
<1>1. CASE ActivateLaunch
  <2>1. /\ pc = "fenced" /\ pc' = pc /\ own' = own /\ engine'.body = NoRow /\ own.ctl = "none"
    BY <1>1 DEF ActivateLaunch, NoEngine, BaseInv, StepOK, Activating
  <2> QED BY <2>1 DEF BodyOK
<1>2. CASE ActivateBind
  <2>1. /\ pc = "fenced" /\ pc' = "bound" /\ own' = own /\ engine' = engine /\ own.ctl = "none"
    BY <1>2 DEF ActivateBind, BaseInv, StepOK, Activating
  <2> QED BY <2>1 DEF BodyOK, Ended
<1>3. CASE ActivateReady
  <2>1. /\ pc = "bound" /\ pc' = "poll" /\ engine' = engine /\ own.ctl = "none" /\ ~own.blocked
        /\ own'.ctl = "ready"
    BY <1>0, <1>3 DEF ActivateReady, BaseInv, StepOK, Activating, OwnerShape, OwnerRow
  <2> QED BY <2>1 DEF BodyOK, BodyActive, Ended
<1>4. CASE ActivateFail \/ DispatchFail
  BY <1>4, BodyGone DEF ActivateFail, DispatchFail, NoEngine
<1>5. CASE DispatchAdd
  <2> DEFINE b == [job |-> receipt[disp].job, gen |-> receipt[disp].at.gen, st |-> "paused"]
  <2>1. /\ own' = own /\ engine' = [engine EXCEPT !.body = b] /\ own.ctl = "ready"
    BY <1>5 DEF DispatchAdd, BaseInv, DispatchOK, Dispatching
  <2>2. b.st = "paused"
    OBVIOUS
  <2> HIDE DEF b
  <2>3. engine'.body = b
    BY <2>1 DEF BaseInv, ProcessOK
  <2> QED BY <2>1, <2>2, <2>3 DEF BodyOK, BodyActive
<1>6. CASE DispatchAdvance
  <2>1. own.plan = NoRow /\ UNCHANGED <<own, engine>> /\ pc = "added"
    BY <1>6 DEF DispatchAdvance, BaseInv, DispatchOK, Dispatching
  <2> QED BY <2>1, BodyRests DEF PlanGoesOn, Ended
<1>7. CASE DispatchResume
  <2> DEFINE p == [job |-> receipt[disp].job, req |-> disp,
                   gen |-> job[receipt[disp].job].gen, rev |-> job[receipt[disp].job].rev]
  <2>1. /\ pc = "advanced" /\ engine.live /\ UNCHANGED storeVars
        /\ own' = [own EXCEPT !.work = "terminal", !.plan = p]
        /\ engine' = [engine EXCEPT !.body.st = "active"]
    BY <1>7 DEF DispatchResume
  <2>2. /\ gate = "running" /\ own.ctl = "ready" /\ receipt[disp].at.state = "downloading"
        /\ receipt[disp].at = Fence(job[receipt[disp].job])
        /\ engine.body # NoRow /\ engine.body.job = receipt[disp].job
        /\ Pending(disp) /\ disp \in Requests /\ Stored(receipt[disp].job)
    BY <2>1 DEF BaseInv, StepOK, DispatchOK, Dispatching, AtRow
  <2>3. job[receipt[disp].job].state = "downloading"
    BY <2>2 DEF Fence
  <2>4. p \in PlanRow /\ p.job = receipt[disp].job
    BY <2>2, PresentIsReceiptRow, StoredIsRow
       DEF Pending, BaseInv, StoreOK, PlanRow, JobRow
  <2> HIDE DEF p
  <2>5. own'.plan = p /\ own'.ctl = "ready" /\ p # NoRow
    BY <1>0, <2>1, <2>2, <2>4, Records DEF OwnerShape, OwnerRow
  <2>6. engine'.body.job = receipt[disp].job
    <3>1. engine \in [live: BOOLEAN, body: OrNoRow(BodyRow)] /\ engine.body \in BodyRow
      BY <2>2 DEF BaseInv, ProcessOK, OrNoRow
    <3>2. engine'.body = [engine.body EXCEPT !.st = "active"]
      BY <2>1, <3>1
    <3> QED BY <2>2, <3>1, <3>2 DEF BodyRow
  <2> QED BY <2>1, <2>2, <2>3, <2>4, <2>5, <2>6 DEF BodyOK, storeVars
<1>8. CASE DispatchFinish
  BY <1>8, BodyRests DEF DispatchFinish, FinishDispatch, PlanGoesOn, Ended
<1>9. CASE ServeRecoveryRefused
  BY <1>9, BodyRests DEF ServeRecoveryRefused, AbortRecovery, PlanGoesOn, Ended
<1>10. CASE Retire
  <2>1. ~engine.live
    BY <1>10 DEF Retire, BaseInv, StepOK, EngineOK
  <2> QED BY <1>10, <2>1, BodyGone DEF Retire
<1> QED BY <1>1, <1>2, <1>3, <1>4, <1>5, <1>6, <1>7, <1>8, <1>9, <1>10 DEF Continue

LEMMA CloseReapedBody ==
  ASSUME BodyOK, Looping, NEW o, o.blocked = own.blocked, CloseReaped(o)
  PROVE  BodyOK'
<1>1. CASE own.ctl = "none"
  BY <1>1, BodyAbsent DEF CloseReaped
<1>2. CASE own.ctl # "none"
  BY <1>2, BodyGone DEF CloseReaped, NoEngine
<1> QED BY <1>1, <1>2

LEMMA PauseBody ==
  ASSUME BodyOK, OwnerShape(own), Looping, NEW fence, NEW recoverable,
         PauseTracked(fence, recoverable)
  PROVE  BodyOK'
<1>1. CASE Die
  BY <1>1, BodyGone DEF Die, NoEngine
<1>2. CASE CloseReaped(Idled)
  BY <1>2, IdledShape, CloseReapedBody
<1> QED BY <1>1, <1>2 DEF PauseTracked, Idled

LEMMA PollBody ==
  ASSUME BaseInv, EngineOK, BodyOK, Poll
  PROVE  BodyOK'
<1>0. OwnerShape(own)
  BY DEF BaseInv, ProcessOK
<1>a. Looping => pc \notin {"fenced", "bound"} \cup Ended
  BY DEF Looping, Ended
<1>1. ASSUME Looping, UNCHANGED <<job, gate, engine>>, own'.plan = own.plan,
             own'.ctl = own.ctl, own'.blocked = own.blocked
      PROVE  BodyOK'
  BY <1>1, <1>a, BodyRests DEF PlanGoesOn
<1>2. CASE RetireAfterObserver
  <2>1. ~engine.live
    BY <1>0, <1>2 DEF RetireAfterObserver, OwnerShape, EngineOK
  <2> QED BY <1>2, <2>1, BodyGone DEF RetireAfterObserver
<1>3. CASE LaunchPreparation \/ LaunchPublication \/ LaunchTransfer \/ PollIdle \/ ReapVoid
  BY <1>1, <1>3 DEF LaunchPreparation, LaunchPublication, LaunchTransfer, Launch, PollIdle,
                    ReapVoid, Reaping, Looping, storeVars
<1>4. CASE Die
  BY <1>4, BodyGone DEF Die, NoEngine
<1>5. CASE CloseReaped(own) /\ Reaping
  BY <1>5, CloseReapedBody DEF Reaping
<1>6. CASE ReapTerminal
  <2>0. Reaping /\ Looping
    BY <1>6 DEF ReapTerminal, Reaped, Reaping
  <2>1. ASSUME PlanCurrent, obs.res = "ok", FinalizeTerminal(own.plan.req), engine' = engine,
               own' = [own EXCEPT !.plan.rev = @ + 1, !.work = "stage", !.pay = obs.pay]
        PROVE  BodyOK'
    <3>1. /\ own'.ctl = own.ctl /\ own'.blocked = own.blocked
          /\ own'.plan # NoRow /\ own'.plan.job = own.plan.job
      BY <1>6, <2>1, TerminalFinalized DEF ReapTerminal
    <3>2. own.plan.req \in Requests /\ receipt[own.plan.req].job = own.plan.job
          /\ own.plan.job \in Jobs
      BY <2>1, Arguments DEF PlanCurrent, BaseInv, PlanOK
    <3>3. /\ job'[own.plan.job] = Moved(own.plan.job, "finalizing") /\ gate' = gate
          /\ job[own.plan.job] \in JobRow
      BY <2>1, <3>2, StoredIsRow DEF FinalizeTerminal, TerminalOwner, BaseInv, StoreOK, TypeOK
    <3>4. job'[own.plan.job].state = "finalizing"
      BY <3>3 DEF Moved, JobRow
    <3> QED BY <2>0, <2>1, <3>1, <3>3, <3>4, <1>a, BodyRests DEF PlanGoesOn
  <2> QED BY <1>0, <1>4, <1>5, <1>6, <2>0, <2>1, PauseBody
          DEF ReapTerminal, CloseWithoutPersist
<1>7. CASE ReapStage
  <2>0. Reaping /\ Looping
    BY <1>7 DEF ReapStage, Reaped, Reaping
  <2>1. ASSUME own' = [own EXCEPT !.work = "prepare", !.cancel = FALSE]
        PROVE  own'.ctl = own.ctl /\ own'.plan = own.plan /\ own'.blocked = own.blocked
    BY <1>0, <2>1 DEF OwnerShape, OwnerRow
  <2> QED BY <1>0, <1>1, <1>5, <1>7, <2>0, <2>1, PauseBody
          DEF ReapStage, CloseWithoutPersist, BindStaged
<1>8. CASE ReapPreparation
  <2>0. Looping
    BY <1>8 DEF ReapPreparation, Reaped, Reaping
  <2>1. CASE PauseTracked(own.plan, FALSE)
    BY <1>0, <2>0, <2>1, PauseBody
  <2>2. CASE ~PauseTracked(own.plan, FALSE)
    <3>1. /\ own'.ctl = own.ctl /\ own'.plan = own.plan /\ own'.blocked = own.blocked
          /\ UNCHANGED <<job, gate, engine>>
      BY <1>0, <1>8, <2>2 DEF ReapPreparation, ReservePublication, OwnerShape, OwnerRow
    <3> QED BY <1>1, <2>0, <3>1
  <2> QED BY <2>1, <2>2
<1>9. CASE ReapRevokedPublication
  <2>1. /\ own'.ctl = own.ctl /\ own'.plan = own.plan /\ own'.blocked = own.blocked
        /\ UNCHANGED <<job, gate, engine>> /\ Looping
    BY <1>0, <1>9
       DEF ReapRevokedPublication, ReapingPublication, Reaping, storeVars, OwnerShape, OwnerRow
  <2> QED BY <1>1, <2>1
<1>10. CASE ReapPublished
  BY <1>0, <1>10, PublicationDroppedShape, CloseReapedBody
     DEF ReapPublished, ReapingPublication, Reaping
<1>11. CASE ReapUnpublished
  <2>0. Looping
    BY <1>11 DEF ReapUnpublished, ReapingPublication, Reaping
  <2>1. CASE PauseTracked(own.pub, own.permit.attempted)
    BY <1>0, <2>0, <2>1, PauseBody
  <2>2. CASE ~PauseTracked(own.pub, own.permit.attempted)
    <3>1. own' = PublicationDropped /\ UNCHANGED <<job, gate, engine>>
      BY <1>11, <2>2 DEF ReapUnpublished, AbortRecovery
    <3> QED BY <1>0, <1>1, <2>0, <3>1, PublicationDroppedShape
  <2> QED BY <2>1, <2>2
<1> QED BY <1>2, <1>3, <1>6, <1>7, <1>8, <1>9, <1>10, <1>11 DEF Poll

LEMMA BodyStep ==
  ASSUME BaseInv, EngineOK, BodyOK, [Next]_vars
  PROVE  BodyOK'
<1>0. OwnerShape(own)
  BY DEF BaseInv, ProcessOK
<1>1. ASSUME UNCHANGED <<job, gate, engine, pc>>, own'.plan = own.plan,
             own'.ctl = own.ctl, own'.blocked = own.blocked
      PROVE  BodyOK'
  BY <1>1, BodyRests DEF PlanGoesOn
<1>2. CASE UNCHANGED vars
  BY <1>1, <1>2 DEF vars
<1>3. CASE Observe
  <2>1. UNCHANGED <<job, gate, engine, pc>>
    BY <1>3 DEF Observe, ObserveTerminal, ObserveFiles, ObserveFail, PublishEnter, PublishLink,
                PublishVerify, storeVars
  <2>2. own'.ctl = own.ctl /\ own'.plan = own.plan /\ own'.blocked = own.blocked
    BY <1>0, <1>3 DEF Observe, ObserveTerminal, ObserveFiles, ObserveFail, PublishEnter,
                PublishLink, PublishVerify, OwnerShape, OwnerRow
  <2> QED BY <1>1, <2>1, <2>2
<1>4. CASE \E j \in Jobs : Tamper(j)
  BY <1>1, <1>4 DEF Tamper, storeVars
<1>5. CASE EngineStep
  <2>1. CASE engine' = NoEngine
    BY <2>1, BodyGone DEF NoEngine
  <2>2. CASE engine' # NoEngine
    <3>1. PICK s \in {"complete", "error"} :
            engine.body # NoRow /\ engine' = [engine EXCEPT !.body.st = s]
      BY <1>5, <2>2 DEF EngineStep
    <3>2. /\ engine.body \in BodyRow /\ engine \in [live: BOOLEAN, body: OrNoRow(BodyRow)]
          /\ pc' = pc /\ own' = own
      BY <1>5, <3>1 DEF EngineStep, BaseInv, ProcessOK, OrNoRow
    <3>3. engine'.body = [engine.body EXCEPT !.st = s] /\ engine'.live = engine.live
      BY <3>1, <3>2
    <3>4. engine'.body.st # "active"
      BY <3>2, <3>3 DEF BodyRow
    <3> QED BY <3>1, <3>2, <3>3, <3>4 DEF BodyOK, BodyActive
  <2> QED BY <2>1, <2>2
<1>6. CASE Lifecycle
  <2>1. CASE pc' \in Ended
    BY <2>1 DEF BodyOK
  <2>2. CASE RecoverEngine
    <3>1. ~engine'.live \/ own'.blocked
      BY <2>2 DEF RecoverEngine, EngineOK, EngineIsClaimed, NoEngine, NewOwner
    <3> QED BY <3>1 DEF BodyOK
  <2> QED BY <1>6, <2>1, <2>2
          DEF Lifecycle, Stop, Shutdown, ShutdownPersist, ShutdownClear, Crash, ColdStart, Ended
<1> QED BY <1>2, <1>3, <1>4, <1>5, <1>6, ServeBody, ContinueBody, PollBody DEF Next

LEMMA BodyHolds == Spec => []BodyOK
<1>1. Init => BodyOK
  BY DEF Init, BodyOK, NoEngine
<1>2. BaseInv /\ EngineOK /\ BodyOK /\ [Next]_vars => BodyOK'
  BY BodyStep
<1> QED BY <1>1, <1>2, BaseHolds, EngineHolds, PTL DEF Spec

(***************************************************************************)
(* Once a pause, a removal or a queue pause is acknowledged and the worker *)
(* is back in its main loop, its engine transfers no body for the job: for *)
(* any number of jobs and requests, and whoever shares the observer lane.  *)
(***************************************************************************)
THEOREM NoBodyLeft == Spec => []NoBodyAfterPause
<1>1. BodyOK => NoBodyAfterPause
  BY DEF BodyOK, BodyActive, NoBodyAfterPause, Looping, Ended
<1> QED BY <1>1, BodyHolds, PTL

-----------------------------------------------------------------------------
(* The observer, the closing controller and the lane.                      *)

\* An observer thread keeps its kind and job until it is joined.
ObserverMoves == obs' # NoRow =>
  \/ obs # NoRow /\ obs'.kind = obs.kind /\ obs'.job = obs.job
  \/ own' = own /\ (LaunchPreparation \/ LaunchPublication \/ LaunchTransfer)

\* The work of a transfer begins with resume.
WorkMoves == own'.work # "none" => own.work # "none" \/ DispatchResume

\* A closed controller that waits for its observer has dropped its publication.
AfterOK == own.closeAfter /\ ~own.blocked =>
  own.pub = NoRow /\ (pc # "stopped" => obs # NoRow)

LEMMA ServeObserver ==
  ASSUME BaseInv, Serve
  PROVE  ObserverMoves /\ WorkMoves /\ (AfterOK => AfterOK')
<1>0. OwnerShape(own)
  BY DEF BaseInv, ProcessOK
<1>p. pc # "stopped"
  BY DEF Serve, ServeAdd, ServeControl, ServeContainedControl, ServeGate, ServeGatePause,
         ActivateReserve, ActivateDiscard, ServeDispatchRefused, ServeDispatch, ServeRecovery,
         ServeReplay, Served, Serving
<1>1. ASSUME obs' = obs, own'.work = own.work, own'.closeAfter = own.closeAfter,
             own'.blocked = own.blocked, own'.pub = own.pub
      PROVE  ObserverMoves /\ WorkMoves /\ (AfterOK => AfterOK')
  BY <1>1, <1>p DEF ObserverMoves, WorkMoves, AfterOK
<1>2. CASE own' = own /\ obs' = obs
  BY <1>1, <1>2
<1>3. CASE RefuseInFlight
  BY <1>0, <1>1, <1>3, RevokedShape DEF RefuseInFlight
<1>4. ASSUME ~LinkInFlight, CloseOwned([Withdrawn(own) EXCEPT !.pub = NoRow])
      PROVE  ObserverMoves /\ WorkMoves /\ (AfterOK => AfterOK')
  <2>0. /\ OwnerShape(Dropped(own)) /\ Dropped(own).closeAfter = own.closeAfter
        /\ own.work = "none" => Dropped(own).work = "none"
    BY <1>0, <1>4, DroppedShape DEF LinkInFlight
  <2>1. CASE own.ctl = "none"
    <3>1. own' = Dropped(own) /\ obs' = obs
      BY <1>4, <2>1 DEF CloseOwned, Dropped
    <3>2. ~own'.closeAfter /\ own'.work = "none"
      BY <1>0, <2>0, <2>1, <3>1 DEF OwnerShape
    <3> QED BY <3>1, <3>2 DEF ObserverMoves, WorkMoves, AfterOK
  <2>2. CASE own.ctl # "none"
    <3>0. ObsAlive \in BOOLEAN
      BY DEF ObsAlive
    <3>1. /\ own' = Closing(Dropped(own), ObsAlive)
          /\ obs' = (IF ObsAlive THEN obs ELSE NoRow)
      BY <1>4, <2>2 DEF CloseOwned, Closing, Dropped
    <3>2. own'.work = "none" /\ own'.closeAfter = ObsAlive /\ own'.pub = NoRow
      BY <1>0, <1>4, <2>0, <3>0, <3>1, ClosingShape, DroppedShape DEF LinkInFlight
    <3> QED BY <3>1, <3>2 DEF ObserverMoves, WorkMoves, AfterOK, ObsAlive
  <2> QED BY <2>1, <2>2
<1>5. CASE ContainmentFails
  <2>0. /\ OwnerShape(Withdrawn(own)) /\ Withdrawn(own).closeAfter = own.closeAfter
        /\ own.work = "none" => Withdrawn(own).work = "none"
    BY <1>0, <1>5, WithdrawnShape DEF ContainmentFails, LinkInFlight
  <2>1. CASE own.ctl = "none"
    <3>1. own' = Withdrawn(own) /\ obs' = obs
      BY <1>5, <2>1 DEF ContainmentFails
    <3>2. ~own'.closeAfter /\ own'.work = "none"
      BY <1>0, <2>0, <2>1, <3>1 DEF OwnerShape
    <3> QED BY <3>1, <3>2 DEF ObserverMoves, WorkMoves, AfterOK
  <2>2. CASE own.ctl # "none"
    <3>1. own' = Stuck(Withdrawn(own)) /\ obs' \in {obs, NoRow}
      BY <1>5, <2>2 DEF ContainmentFails, Stuck
    <3>2. own'.work = "none" /\ own'.blocked
      BY <2>0, <3>1, StuckShape
    <3> QED BY <3>1, <3>2 DEF ObserverMoves, WorkMoves, AfterOK
  <2> QED BY <2>1, <2>2
<1>6. CASE ActivateReserve
  BY <1>2, <1>6 DEF ActivateReserve
<1>7. CASE ActivateDiscard
  BY <1>0, <1>7, ClearedShape DEF ActivateDiscard, ObserverMoves, WorkMoves, AfterOK
<1>8. ASSUME NEW r \in Requests, NEW j \in Jobs, ServeRecovery(r, j)
      PROVE  ObserverMoves /\ WorkMoves /\ (AfterOK => AfterOK')
  <2>1. CASE obs # NoRow
    BY <1>2, <1>8, <2>1 DEF ServeRecovery, LaneFree
  <2>2. CASE obs = NoRow
    <3>1. obs' = NoRow
      BY <1>8, <2>2 DEF ServeRecovery
    <3>2. own'.work = own.work /\ own'.closeAfter = own.closeAfter /\ own'.blocked = own.blocked
      BY <1>0, <1>8 DEF ServeRecovery, OwnerShape, OwnerRow
    <3> QED BY <1>p, <2>2, <3>1, <3>2 DEF ObserverMoves, WorkMoves, AfterOK
  <2> QED BY <2>1, <2>2
<1>9. ASSUME NEW j \in Jobs, NEW a \in Actions, ServeContainedControl(j, a)
      PROVE  ObserverMoves /\ WorkMoves /\ (AfterOK => AfterOK')
  BY <1>3, <1>4, <1>9 DEF ServeContainedControl
<1>10. CASE ServeGatePause
  BY <1>3, <1>4, <1>5, <1>10 DEF ServeGatePause
<1> QED BY <1>2, <1>6, <1>7, <1>8, <1>9, <1>10
        DEF Serve, ServeAdd, ServeControl, ServeGate, ServeDispatchRefused, ServeDispatch,
            ServeReplay, Served

LEMMA ContinueObserver ==
  ASSUME BaseInv, Continue
  PROVE  ObserverMoves /\ WorkMoves /\ (AfterOK => AfterOK')
<1>0. OwnerShape(own)
  BY DEF BaseInv, ProcessOK
<1>1. CASE own' = own /\ obs' = obs /\ pc # "stopped"
  BY <1>1 DEF ObserverMoves, WorkMoves, AfterOK
<1>2. CASE ActivateReady
  <2>1. own.ctl = "none" /\ obs' = obs
    BY <1>2 DEF ActivateReady, BaseInv, StepOK, Activating
  <2>2. own'.work = own.work /\ own'.closeAfter = own.closeAfter
    BY <1>0, <1>2 DEF ActivateReady, OwnerShape, OwnerRow
  <2> QED BY <1>0, <2>1, <2>2 DEF ObserverMoves, WorkMoves, AfterOK, OwnerShape
<1>3. CASE DispatchResume
  <2>1. own.ctl = "ready" /\ obs' = obs
    BY <1>3 DEF DispatchResume, BaseInv, DispatchOK, Dispatching
  <2>2. own'.closeAfter = own.closeAfter
    BY <1>0, <1>3 DEF DispatchResume, OwnerShape, OwnerRow
  <2> QED BY <1>0, <1>3, <2>1, <2>2 DEF ObserverMoves, WorkMoves, AfterOK, OwnerShape
<1>4. CASE DispatchFail
  <2>1. own.ctl = "ready" /\ obs' = obs /\ own' \in {ClosedOwner(own), Stuck(own)}
    BY <1>4 DEF DispatchFail, BaseInv, DispatchOK, Dispatching, Stuck
  <2>2. own'.work = "none" /\ own'.closeAfter = own.closeAfter
    BY <1>0, <2>1, ClosedShape, StuckShape
  <2> QED BY <1>0, <2>1, <2>2 DEF ObserverMoves, WorkMoves, AfterOK, OwnerShape
<1>5. CASE Retire
  BY <1>0, <1>5, ClearedShape DEF Retire, ObserverMoves, WorkMoves, AfterOK
<1> QED BY <1>1, <1>2, <1>3, <1>4, <1>5
        DEF Continue, ActivateLaunch, ActivateBind, ActivateFail, DispatchAdd, DispatchAdvance,
            DispatchFinish, ServeRecoveryRefused

LEMMA PollObserver ==
  ASSUME BaseInv, Poll
  PROVE  ObserverMoves /\ WorkMoves /\ (AfterOK => AfterOK')
<1>0. OwnerShape(own)
  BY DEF BaseInv, ProcessOK
<1>1. CASE RetireAfterObserver
  BY <1>0, <1>1, ClearedShape DEF RetireAfterObserver, ObserverMoves, WorkMoves, AfterOK
<1>2. CASE PollIdle
  BY <1>2 DEF PollIdle, ObserverMoves, WorkMoves, AfterOK
<1>3. CASE LaunchPreparation \/ LaunchPublication \/ LaunchTransfer
  BY <1>3 DEF LaunchPreparation, LaunchPublication, LaunchTransfer, Launch, NeedLaunch,
              ObserverMoves, WorkMoves, AfterOK
<1>4. ASSUME obs' = NoRow, ~own'.closeAfter, own'.work # "none" => own.work # "none"
      PROVE  ObserverMoves /\ WorkMoves /\ (AfterOK => AfterOK')
  BY <1>4 DEF ObserverMoves, WorkMoves, AfterOK
<1>5. CASE Die
  BY <1>4, <1>5, NewOwnerShape DEF Die
<1>6. ASSUME Reaping, NEW o, OwnerShape(o), o.closeAfter = own.closeAfter,
             o.work # "none" => own.work # "none", CloseReaped(o)
      PROVE  ObserverMoves /\ WorkMoves /\ (AfterOK => AfterOK')
  BY <1>4, <1>6, ClosedShape DEF CloseReaped, Reaping
<1>7. ASSUME Reaping, NEW fence, NEW recoverable, PauseTracked(fence, recoverable)
      PROVE  ObserverMoves /\ WorkMoves /\ (AfterOK => AfterOK')
  BY <1>0, <1>5, <1>6, <1>7, IdledShape DEF PauseTracked, Idled
<1>8. CASE ReapVoid
  BY <1>4, <1>8 DEF ReapVoid, Reaping
<1>9. CASE ReapTerminal
  <2>0. Reaping /\ own.work = "terminal"
    BY <1>9 DEF ReapTerminal, Reaped
  <2>1. ASSUME obs' = NoRow,
               own' = [own EXCEPT !.plan.rev = @ + 1, !.work = "stage", !.pay = obs.pay]
        PROVE  ~own'.closeAfter
    BY <1>0, <2>0, <2>1 DEF Reaping, OwnerShape, OwnerRow
  <2> QED BY <1>0, <1>4, <1>5, <1>6, <1>7, <1>9, <2>0, <2>1 DEF ReapTerminal, CloseWithoutPersist
<1>10. CASE ReapStage
  <2>0. Reaping /\ own.work = "stage"
    BY <1>10 DEF ReapStage, Reaped
  <2>1. ASSUME obs' = NoRow, own' = [own EXCEPT !.work = "prepare", !.cancel = FALSE]
        PROVE  ~own'.closeAfter
    BY <1>0, <2>0, <2>1 DEF Reaping, OwnerShape, OwnerRow
  <2> QED BY <1>0, <1>4, <1>6, <1>7, <1>10, <2>0, <2>1 DEF ReapStage, CloseWithoutPersist
<1>11. CASE ReapPreparation
  <2>0. Reaping
    BY <1>11 DEF ReapPreparation, Reaped
  <2>1. CASE PauseTracked(own.plan, FALSE)
    BY <1>7, <2>0, <2>1
  <2>2. CASE ~PauseTracked(own.plan, FALSE)
    <3>1. obs' = NoRow /\ ~own'.closeAfter /\ own'.work = "none"
      BY <1>0, <1>11, <2>0, <2>2 DEF ReapPreparation, Reaping, OwnerShape, OwnerRow
    <3> QED BY <1>4, <3>1
  <2> QED BY <2>1, <2>2
<1>12. CASE ReapRevokedPublication
  <2>1. obs' = NoRow /\ ~own'.closeAfter /\ own'.work = own.work
    BY <1>0, <1>12 DEF ReapRevokedPublication, ReapingPublication, Reaping, OwnerShape, OwnerRow
  <2> QED BY <1>4, <2>1
<1>13. CASE ReapPublished
  BY <1>0, <1>6, <1>13, PublicationDroppedShape DEF ReapPublished, ReapingPublication
<1>14. CASE ReapUnpublished
  <2>0. Reaping
    BY <1>14 DEF ReapUnpublished, ReapingPublication
  <2>1. CASE PauseTracked(own.pub, own.permit.attempted)
    BY <1>7, <2>0, <2>1
  <2>2. CASE ~PauseTracked(own.pub, own.permit.attempted)
    <3>1. own' = PublicationDropped /\ obs' = NoRow
      BY <1>14, <2>2 DEF ReapUnpublished
    <3> QED BY <1>0, <1>4, <2>0, <3>1, PublicationDroppedShape DEF Reaping
  <2> QED BY <2>1, <2>2
<1> QED BY <1>1, <1>2, <1>3, <1>8, <1>9, <1>10, <1>11, <1>12, <1>13, <1>14 DEF Poll

LEMMA LifecycleObserver ==
  ASSUME BaseInv, Lifecycle
  PROVE  ObserverMoves /\ WorkMoves /\ (AfterOK => AfterOK')
<1>0. OwnerShape(own)
  BY DEF BaseInv, ProcessOK
<1>1. CASE Shutdown
  <2>1. /\ own'.work = own.work /\ own'.pub = own.pub /\ own'.blocked = own.blocked
        /\ own'.closeAfter = own.closeAfter /\ obs' = obs /\ pc # "stopped"
    BY <1>0, <1>1, CancelledShape DEF Shutdown, Looping
  <2> QED BY <2>1 DEF ObserverMoves, WorkMoves, AfterOK
<1>2. ASSUME obs' = NoRow, own' = own, pc' = "stopped", pc # "stopped"
      PROVE  ObserverMoves /\ WorkMoves /\ (AfterOK => AfterOK')
  BY <1>2 DEF ObserverMoves, WorkMoves, AfterOK
<1>3. ASSUME obs' = NoRow, own' = NewOwner(FALSE) \/ own' = NewOwner(TRUE)
      PROVE  ObserverMoves /\ WorkMoves /\ (AfterOK => AfterOK')
  BY <1>3, NewOwnerShape DEF ObserverMoves, WorkMoves, AfterOK
<1>4. CASE ShutdownPersist
  BY <1>2, <1>3, <1>4 DEF ShutdownPersist
<1>5. CASE ShutdownClear \/ ColdStart \/ RecoverEngine
  <2>1. obs' = NoRow
    BY <1>5 DEF ShutdownClear, ColdStart, RecoverEngine, BaseInv, StepOK
  <2>2. own' = NewOwner(FALSE) \/ own' = NewOwner(TRUE)
    BY <1>5 DEF ShutdownClear, ColdStart, RecoverEngine, BaseInv, StepOK
  <2> QED BY <1>3, <2>1, <2>2
<1>6. CASE Crash
  BY <1>3, <1>6 DEF Crash
<1> QED BY <1>1, <1>4, <1>5, <1>6 DEF Lifecycle, Stop

\* The thread itself keeps its kind and its job until it is done.
LEMMA ThreadGoesOn ==
  ASSUME BaseInv, Observe
  PROVE  obs # NoRow /\ obs' # NoRow /\ obs'.kind = obs.kind /\ obs'.job = obs.job
<1>1. obs # NoRow /\ obs \in ObserverRow /\ obs.pay \in OrNoRow(Payloads)
  BY DEF Observe, ObserveTerminal, ObserveFiles, ObserveFail, PublishEnter, PublishLink,
         PublishVerify, Observing, ObsAlive, BaseInv, ProcessOK, ObserverRow, ObserverStates
<1>2. Partial \in OrNoRow(Payloads)
  BY <1>1 DEF BaseInv, ProcessOK, Partial, ObserverRow, ObserverStates
<1>3. \/ \E res \in {"none", "ok", "fail", "stock"}, p \in OrNoRow(Payloads) : Observed(res, p)
      \/ \E s \in {"link", "verify"} : obs.kind = "publish" /\ obs' = [obs EXCEPT !.st = s]
  BY <1>1, <1>2 DEF Observe, ObserveTerminal, ObserveFiles, ObserveFail, PublishEnter,
                    PublishLink, PublishVerify, Observing, OrNoRow
<1>4. ASSUME NEW res \in {"none", "ok", "fail", "stock"}, NEW p \in OrNoRow(Payloads),
             Observed(res, p)
      PROVE  obs' \in ObserverRow /\ obs'.kind = obs.kind /\ obs'.job = obs.job
  BY <1>1, <1>4 DEF Observed, ObserverRow, ObserverStates
<1>5. ASSUME NEW s \in {"link", "verify"}, obs.kind = "publish", obs' = [obs EXCEPT !.st = s]
      PROVE  obs' \in ObserverRow /\ obs'.kind = obs.kind /\ obs'.job = obs.job
  BY <1>1, <1>5 DEF ObserverRow, ObserverStates
<1> QED BY <1>1, <1>3, <1>4, <1>5, Records

LEMMA EnvironmentObserver ==
  ASSUME BaseInv, Observe \/ EngineStep \/ \E j \in Jobs : Tamper(j)
  PROVE  ObserverMoves /\ WorkMoves /\ (AfterOK => AfterOK')
<1>0. OwnerShape(own)
  BY DEF BaseInv, ProcessOK
<1>1. CASE EngineStep \/ \E j \in Jobs : Tamper(j)
  BY <1>1 DEF EngineStep, Tamper, ObserverMoves, WorkMoves, AfterOK
<1>2. CASE Observe
  <2>1. /\ own'.work = own.work /\ own'.closeAfter = own.closeAfter
        /\ own'.pub = own.pub /\ own'.blocked = own.blocked
    BY <1>0, <1>2 DEF Observe, ObserveTerminal, ObserveFiles, ObserveFail, PublishEnter,
                      PublishLink, PublishVerify, OwnerShape, OwnerRow
  <2>2. pc' = pc
    BY <1>2 DEF Observe, ObserveTerminal, ObserveFiles, ObserveFail, PublishEnter,
                PublishLink, PublishVerify
  <2>3. obs # NoRow /\ obs' # NoRow /\ obs'.kind = obs.kind /\ obs'.job = obs.job
    BY <1>2, ThreadGoesOn
  <2> QED BY <2>1, <2>2, <2>3 DEF ObserverMoves, WorkMoves, AfterOK
<1> QED BY <1>1, <1>2

\* A publication's observer is of the publication's job.
ObservedPub == obs # NoRow /\ obs.kind \in {"publish", "recover"} /\ own.pub # NoRow =>
  obs.job = own.pub.job

LEMMA MovesStep ==
  ASSUME BaseInv, [Next]_vars
  PROVE  ObserverMoves /\ WorkMoves /\ (AfterOK => AfterOK')
<1>1. CASE UNCHANGED vars
  BY <1>1 DEF vars, ObserverMoves, WorkMoves, AfterOK
<1> QED BY <1>1, ServeObserver, ContinueObserver, PollObserver, LifecycleObserver,
           EnvironmentObserver DEF Next

LEMMA ObservedStep ==
  ASSUME BaseInv, ObservedPub, [Next]_vars
  PROVE  ObservedPub'
<1>1. ObserverMoves /\ OwnerMoves
  BY MovesStep, OwnerStep
<1>2. SUFFICES ASSUME obs' # NoRow, obs'.kind \in {"publish", "recover"}, own'.pub # NoRow
               PROVE  obs'.job = own'.pub.job
  BY DEF ObservedPub
<1>3. CASE own' = own /\ (LaunchPreparation \/ LaunchPublication \/ LaunchTransfer)
  <2>1. CASE LaunchPublication
    BY <1>3, <2>1 DEF LaunchPublication, Launch
  <2>2. CASE LaunchPreparation
    BY <1>2, <2>2 DEF LaunchPreparation, Launch
  <2>3. CASE LaunchTransfer
    BY <1>2, <2>3 DEF LaunchTransfer, Launch
  <2> QED BY <1>3, <2>1, <2>2, <2>3
<1>4. CASE obs # NoRow /\ obs'.kind = obs.kind /\ obs'.job = obs.job
  <2>1. CASE own.pub # NoRow /\ own'.pub.job = own.pub.job
    BY <1>2, <1>4, <2>1 DEF ObservedPub
  <2>2. CASE ReapPreparation /\ ~own'.pub.seen
    <3>1. obs' = NoRow
      BY <2>2 DEF ReapPreparation, PauseTracked, CloseReaped, Die
    <3> QED BY <1>2, <3>1
  <2>3. ASSUME own.pub = NoRow, NEW r \in Requests, NEW j \in Jobs, ServeRecovery(r, j)
        PROVE  FALSE
    BY <1>2, <1>4, <2>3 DEF ServeRecovery, LaneFree
  <2> QED BY <1>1, <1>2, <2>1, <2>2, <2>3 DEF OwnerMoves, PublicationMoves
<1> QED BY <1>1, <1>2, <1>3, <1>4 DEF ObserverMoves

LEMMA MovesHold == Spec => [](AfterOK /\ ObservedPub)
<1>1. Init => AfterOK /\ ObservedPub
  BY DEF Init, AfterOK, ObservedPub, NewOwner
<1>2. BaseInv /\ AfterOK /\ ObservedPub /\ [Next]_vars => AfterOK' /\ ObservedPub'
  BY MovesStep, ObservedStep
<1> QED BY <1>1, <1>2, BaseHolds, PTL DEF Spec

\* With a lane of its own, a poll launches whatever can be launched: back at
\* "main" with no observer, nothing waits for one, and a publication that no
\* command has voided waits for no transfer.
Quiet == pc = "main" /\ obs = NoRow /\ ~own.closeAfter /\ ~own.blocked =>
  own.work = "none" /\ ~PubWaiting
LaneOK ==
  /\ Quiet
  /\ pc \in Dispatching => ~PubWaiting
  /\ own.work # "none" /\ own.pub # NoRow => own.pub.seen

\* How the thread comes to its main loop and to a dispatch.
LEMMA ServePc ==
  ASSUME Serve
  PROVE  /\ pc' # "main"
         /\ pc' \in Dispatching => own' = own /\ pc = "main" /\ ControllerReady
<1>1. CASE pc' = "poll"
  BY <1>1 DEF Dispatching
<1>2. ASSUME NEW o, CloseOwned(o)
      PROVE  pc' \in {"poll", "withdraw", "retire"}
  BY <1>2 DEF CloseOwned
<1>3. ASSUME NEW j \in Jobs, NEW a \in Actions, ServeContainedControl(j, a)
      PROVE  pc' \in {"poll", "withdraw", "retire"}
  BY <1>2, <1>3 DEF ServeContainedControl, RefuseInFlight
<1>4. CASE ServeGatePause
  <2>1. pc' \in {"poll", "withdraw", "retire"}
    BY <1>2, <1>4 DEF ServeGatePause, RefuseInFlight, ContainmentFails
  <2> QED BY <2>1 DEF Dispatching
<1>5. CASE ActivateReserve \/ ActivateDiscard
  BY <1>5 DEF ActivateReserve, ActivateDiscard, Dispatching
<1>6. ASSUME NEW r \in Requests, NEW j \in Jobs, ServeRecovery(r, j)
      PROVE  pc' \in {"poll", "unrecover"}
  BY <1>6 DEF ServeRecovery
<1>7. CASE \E r \in Requests, j \in Jobs : ServeDispatch(r, j)
  BY <1>7 DEF ServeDispatch, Serving
<1> QED BY <1>1, <1>3, <1>4, <1>5, <1>6, <1>7
        DEF Serve, ServeAdd, ServeControl, ServeGate, ServeDispatchRefused,
            ServeReplay, Served, Dispatching

LEMMA ContinuePc ==
  ASSUME Continue
  PROVE  /\ pc' # "main"
         /\ pc' \in Dispatching => pc \in Dispatching /\ (own' = own \/ DispatchResume)
  BY DEF Continue, ActivateLaunch, ActivateBind, ActivateReady, ActivateFail, DispatchAdd,
         DispatchAdvance, DispatchResume, DispatchFinish, DispatchFail, ServeRecoveryRefused,
         Retire, Dispatching

LEMMA PollPc ==
  ASSUME Poll
  PROVE  /\ pc' \notin Dispatching
         /\ pc' = "main" => \/ RetireAfterObserver \/ PollIdle
                            \/ LaunchPreparation \/ LaunchPublication \/ LaunchTransfer
<1>1. ASSUME NEW o, CloseReaped(o)
      PROVE  pc' \in {"poll", "retire"}
  BY <1>1 DEF CloseReaped
<1>2. ASSUME NEW fence, NEW recoverable, PauseTracked(fence, recoverable)
      PROVE  pc' \in {"poll", "retire", "down"}
  BY <1>1, <1>2 DEF PauseTracked, Die
<1>3. CASE RetireAfterObserver \/ PollIdle
  BY <1>3 DEF RetireAfterObserver, PollIdle, Dispatching
<1>4. CASE LaunchPreparation \/ LaunchPublication \/ LaunchTransfer
  <2>1. pc' = "main"
    BY <1>4 DEF LaunchPreparation, LaunchPublication, LaunchTransfer, Launch
  <2> QED BY <1>4, <2>1 DEF Dispatching
<1>5. CASE ReapVoid \/ ReapTerminal \/ ReapStage \/ ReapPreparation
             \/ ReapRevokedPublication \/ ReapPublished \/ ReapUnpublished
  <2>1. pc' \in {"poll", "retire", "down"}
    BY <1>1, <1>2, <1>5 DEF ReapVoid, ReapTerminal, ReapStage, ReapPreparation,
       ReapRevokedPublication, ReapPublished, ReapUnpublished, CloseWithoutPersist, Die
  <2> QED BY <2>1 DEF Dispatching
<1> QED BY <1>3, <1>4, <1>5 DEF Poll

\* A launch leaves an observer.
LEMMA LaunchObserves ==
  ASSUME BaseInv, LaunchPreparation \/ LaunchPublication \/ LaunchTransfer
  PROVE  obs' # NoRow /\ own' = own
<1>1. ASSUME NEW kind \in {"terminal", "stage", "prepare", "publish", "recover"},
             NEW j \in Jobs, NEW p \in OrNoRow(Payloads), Launch(kind, j, p)
      PROVE  obs' # NoRow /\ own' = own
  <2> DEFINE o == [kind |-> kind, job |-> j, pay |-> p, st |-> "run", res |-> "none"]
  <2>1. obs' = o /\ own' = own
    BY <1>1 DEF Launch
  <2>2. o \in ObserverRow
    BY <1>1 DEF ObserverRow, ObserverStates
  <2> QED BY <2>1, <2>2, Records
<1>2. CASE LaunchPreparation \/ LaunchTransfer
  <2>1. PICK kind \in {"terminal", "stage", "prepare"} :
          own.work = kind /\ Launch(kind, own.plan.job, own.pay)
    BY <1>2 DEF LaunchPreparation, LaunchTransfer
  <2>2. own.plan.job \in Jobs
    BY <2>1, Arguments DEF OwnerShape, ProcessOK, BaseInv
  <2>3. own.pay \in OrNoRow(Payloads)
    BY DEF OwnerShape, OwnerRow, ProcessOK, BaseInv
  <2> QED BY <1>1, <2>1, <2>2, <2>3
<1>3. CASE LaunchPublication
  <2>1. PICK kind \in {"publish", "recover"} :
          own.pub # NoRow /\ Launch(kind, own.pub.job, staged[own.pub.job])
    BY <1>3 DEF LaunchPublication, PubWaiting
  <2>2. own.pub.job \in Jobs
    BY <2>1, Arguments DEF BaseInv
  <2>3. staged[own.pub.job] \in OrNoRow(Payloads)
    BY <2>2 DEF BaseInv, StoreOK, TypeOK, OrNoRow
  <2> QED BY <1>1, <2>1, <2>2, <2>3
<1> QED BY <1>2, <1>3

LEMMA QuietStep ==
  ASSUME ~SharedLane, BaseInv, AfterOK, LaneOK, [Next]_vars
  PROVE  Quiet'
<1>0. OwnerShape(own)
  BY DEF BaseInv, ProcessOK
<1>1. SUFFICES ASSUME pc' = "main", obs' = NoRow, ~own'.closeAfter, ~own'.blocked
               PROVE  own'.work = "none" /\ ~PubWaiting'
  BY DEF Quiet
<1>2. CASE pc' = pc /\ own' = own /\ obs' = obs
  BY <1>1, <1>2 DEF LaneOK, Quiet, PubWaiting
<1>3. CASE RetireAfterObserver
  <2>1. own' = Cleared(own) /\ own.closeAfter
    BY <1>3 DEF RetireAfterObserver
  <2>2. own'.work = "none" /\ own'.pub = own.pub /\ own'.blocked = own.blocked
    BY <1>0, <2>1, ClearedShape
  <2> QED BY <1>1, <2>1, <2>2 DEF AfterOK, PubWaiting
<1>4. CASE PollIdle
  <2>1. own' = own /\ obs = NoRow /\ ~own.closeAfter /\ ~NeedLaunch
    BY <1>1, <1>4 DEF PollIdle
  <2>2. own.work \in {"none", "terminal", "stage", "prepare"} /\ (own.work # "none" => own.ctl = "ready")
    BY <1>0 DEF OwnerShape, OwnerRow
  <2> QED BY <2>1, <2>2 DEF NeedLaunch, PubWaiting
<1>5. CASE LaunchPreparation \/ LaunchPublication \/ LaunchTransfer
  BY <1>1, <1>5, LaunchObserves
<1>6. CASE Observe
  BY <1>1, <1>6, ThreadGoesOn
<1>7. CASE Lifecycle
  <2>1. own' = NewOwner(FALSE) \/ own' = NewOwner(TRUE)
    BY <1>1, <1>7 DEF Lifecycle, Stop, Shutdown, ShutdownPersist, ShutdownClear, Crash,
                      ColdStart, RecoverEngine, BaseInv, StepOK
  <2> QED BY <2>1, NewOwnerShape DEF PubWaiting
<1> QED BY <1>1, <1>2, <1>3, <1>4, <1>5, <1>6, <1>7, ServePc, ContinuePc, PollPc
        DEF Next, vars, EngineStep, Tamper

LEMMA LaneStep ==
  ASSUME ~SharedLane, BaseInv, AfterOK, LaneOK, [Next]_vars
  PROVE  LaneOK'
<1>0. OwnerShape(own) /\ OwnerMoves /\ WorkMoves
  BY OwnerStep, MovesStep DEF BaseInv, ProcessOK
<1>1. ASSUME pc' \in Dispatching
      PROVE  ~PubWaiting'
  <2>1. CASE Serve
    <3>1. pc = "main" /\ obs = NoRow /\ ~own.blocked /\ own.ctl = "ready" /\ own' = own
      BY <1>1, <2>1, ServePc DEF ControllerReady, LaneFree
    <3> QED BY <1>0, <3>1 DEF LaneOK, Quiet, OwnerShape, PubWaiting
  <2>2. CASE Continue
    <3>1. pc \in Dispatching /\ (own' = own \/ DispatchResume)
      BY <1>1, <2>2, ContinuePc
    <3>2. own'.pub = own.pub
      BY <1>0, <3>1 DEF DispatchResume, OwnerShape, OwnerRow
    <3> QED BY <3>1, <3>2 DEF LaneOK, PubWaiting
  <2>3. CASE UNCHANGED vars \/ EngineStep \/ \E j \in Jobs : Tamper(j)
    BY <1>1, <2>3 DEF vars, EngineStep, Tamper, LaneOK, PubWaiting
  <2>4. CASE Observe
    <3>1. pc' = pc
      BY <2>4 DEF Observe, ObserveTerminal, ObserveFiles, ObserveFail, PublishEnter,
                  PublishLink, PublishVerify
    <3> QED BY <1>1, <2>4, <3>1, ThreadGoesOn DEF BaseInv, DispatchOK
  <2>5. CASE Lifecycle
    BY <1>1, <2>5 DEF Lifecycle, Stop, Shutdown, ShutdownPersist, ShutdownClear, Crash,
                      ColdStart, RecoverEngine, Dispatching
  <2> QED BY <1>1, <2>1, <2>2, <2>3, <2>4, <2>5, PollPc DEF Next
<1>2. ASSUME own'.work # "none", own'.pub # NoRow
      PROVE  own'.pub.seen
  <2>1. CASE DispatchResume
    <3>1. pc \in Dispatching /\ own'.pub = own.pub
      BY <1>0, <2>1 DEF DispatchResume, Dispatching, OwnerShape, OwnerRow
    <3> QED BY <1>2, <3>1 DEF LaneOK, PubWaiting
  <2>2. CASE own.work # "none"
    <3>1. CASE ReapPreparation
      <4>1. CASE PauseTracked(own.plan, FALSE)
        <5>1. own' \in {Idled, ClosedOwner(Idled), NewOwner(FALSE)}
          BY <4>1 DEF PauseTracked, Die, CloseReaped, Idled
        <5>2. OwnerShape(Idled) /\ Idled.work = "none"
          BY <1>0, IdledShape
        <5>3. ClosedOwner(Idled).work = "none" /\ NewOwner(FALSE).work = "none"
          BY <5>2, ClosedShape DEF NewOwner
        <5> QED BY <1>2, <5>1, <5>2, <5>3
      <4>2. CASE ~PauseTracked(own.plan, FALSE)
        BY <1>0, <1>2, <3>1, <4>2 DEF ReapPreparation, OwnerShape, OwnerRow
      <4> QED BY <4>1, <4>2
    <3>2. ASSUME NEW r \in Requests, NEW j \in Jobs, ServeRecovery(r, j), own.pub = NoRow
          PROVE  FALSE
      <4>1. pc = "main" /\ obs = NoRow
        BY <1>2, <3>2 DEF ServeRecovery, Serving, LaneFree
      <4> QED BY <1>0, <2>2, <4>1 DEF LaneOK, Quiet, OwnerShape
    <3>3. CASE own.pub # NoRow /\ (own.pub.seen => own'.pub.seen)
      BY <2>2, <3>3 DEF LaneOK
    <3> QED BY <1>0, <1>2, <3>1, <3>2, <3>3 DEF OwnerMoves, PublicationMoves
  <2> QED BY <1>0, <1>2, <2>1, <2>2 DEF WorkMoves
<1> QED BY <1>1, <1>2, QuietStep DEF LaneOK

-----------------------------------------------------------------------------
(* The final name and the job: while a permit is open or its link() is in  *)
(* the kernel, the publication is that of the plan, and its job goes on.   *)

Ceased == {"paused", "removed", "completed"}
GoesOn(j) == Stored(j) /\ job[j].state \notin Ceased
LinkOpen == Opened(own) \/ LinkInFlight
LinkOK == LinkOpen /\ pc # "stopped" =>
  /\ own.ctl = "ready" /\ own.plan # NoRow /\ own.plan.job = own.pub.job
  /\ GoesOn(own.plan.job)

\* The step keeps the controller, and the plan's job goes on; or the link is off.
LinkGoesOn ==
  \/ /\ own'.ctl = "ready"
     /\ job'[own.plan.job] # NoRow /\ job'[own.plan.job].state \notin Ceased
  \/ ~LinkOpen'

\* A control that stops nothing puts the job back to the queue, if anything.
LEMMA ControlledState ==
  ASSUME NEW row \in JobRow, NEW a \in {"resume", "start_now"}
  PROVE  Controlled(row, a).state \in {row.state, "queued"}
<1>1. CASE a = "resume" BY <1>1 DEF Controlled, JobRow
<1>2. CASE a = "start_now" BY <1>2 DEF Controlled, JobRow
<1> QED BY <1>1, <1>2

\* What an open link tells of the owner.
LEMMA LinkOwner ==
  ASSUME BaseInv, LaneOK, LinkOK, LinkOpen, pc # "stopped"
  PROVE  /\ own.ctl = "ready" /\ ~own.closeAfter /\ ~own.blocked
         /\ own.plan # NoRow /\ own.pub # NoRow /\ own.plan.job = own.pub.job
         /\ own.plan.job \in Jobs /\ TrackedJob = own.plan.job
         /\ GoesOn(own.plan.job) /\ job[own.plan.job] \in JobRow
         /\ pc \notin Dispatching /\ pc \notin Activating
         /\ pc \notin {"retire", "withdraw", "down", "booted"}
         /\ pc = "main" /\ obs = NoRow => FALSE
         /\ own.work # "none" => LinkInFlight
<1>0. OwnerShape(own) /\ (LinkInFlight => obs # NoRow /\ obs.st = "link")
  BY DEF BaseInv, ProcessOK
<1>1. /\ own.ctl = "ready" /\ ~own.closeAfter /\ ~own.blocked
      /\ own.plan # NoRow /\ own.pub # NoRow /\ own.plan.job = own.pub.job
      /\ GoesOn(own.plan.job)
  BY <1>0 DEF LinkOK, LinkOpen, LinkInFlight, OwnerShape
<1>2. own.plan.job \in Jobs /\ TrackedJob = own.plan.job
  BY <1>1, Arguments DEF BaseInv, TrackedJob
<1>3. job[own.plan.job] \in JobRow
  BY <1>1, <1>2, StoredIsRow DEF GoesOn, BaseInv, StoreOK
<1>4. PubWaiting \/ LinkInFlight
  BY <1>0 DEF LinkOpen, OwnerShape, PubWaiting
<1>5. pc \notin Dispatching
  BY <1>0, <1>4 DEF LaneOK, BaseInv, DispatchOK
<1>6. pc \notin Activating /\ pc \notin {"retire", "withdraw", "down", "booted"}
  BY <1>1 DEF BaseInv, StepOK, NewOwner
<1>7. ~(pc = "main" /\ obs = NoRow)
  BY <1>0, <1>1, <1>4 DEF LaneOK, Quiet
<1>8. own.work # "none" => LinkInFlight
  BY <1>1, <1>4 DEF LaneOK, PubWaiting
<1> QED BY <1>1, <1>2, <1>3, <1>5, <1>6, <1>7, <1>8

LEMMA ServeLink ==
  ASSUME BaseInv, LaneOK, LinkOK, LinkOpen, Serve
  PROVE  LinkGoesOn
<1>0. OwnerShape(own)
  BY DEF BaseInv, ProcessOK
<1>p. pc # "stopped"
  BY DEF Serve, ServeAdd, ServeControl, ServeContainedControl, ServeGate, ServeGatePause,
         ActivateReserve, ActivateDiscard, ServeDispatchRefused, ServeDispatch, ServeRecovery,
         ServeReplay, Served, Serving
<1> DEFINE i == own.plan.job
<1>k. /\ own.ctl = "ready" /\ i \in Jobs /\ TrackedJob = i
      /\ GoesOn(i) /\ job[i] \in JobRow
      /\ pc \notin Activating
      /\ pc = "main" /\ obs = NoRow => FALSE
  BY <1>p, LinkOwner
<1> HIDE DEF i
<1>1. ASSUME own'.ctl = own.ctl, job'[i] = job[i]
      PROVE  LinkGoesOn
  BY <1>1, <1>k DEF LinkGoesOn, GoesOn, Stored, i
<1>2. CASE RefuseInFlight
  BY <1>0, <1>1, <1>2, RevokedShape DEF RefuseInFlight, storeVars
<1>3. ASSUME ~LinkInFlight, CloseOwned([Withdrawn(own) EXCEPT !.pub = NoRow])
      PROVE  LinkGoesOn
  <2>1. own' = Closing(Dropped(own), ObsAlive)
    BY <1>3, <1>k DEF CloseOwned, Closing, Dropped
  <2>2. ObsAlive \in BOOLEAN
    BY DEF ObsAlive
  <2>3. /\ OwnerShape(Dropped(own)) /\ ~Opened(Dropped(own))
        /\ ~(Dropped(own).permit # NoRow /\ Dropped(own).permit.inflight)
    BY <1>0, <1>3, DroppedShape DEF LinkInFlight
  <2>4. own'.permit = Dropped(own).permit
    BY <2>1, <2>2, <2>3, ClosingShape
  <2> QED BY <2>3, <2>4 DEF LinkGoesOn, LinkOpen, LinkInFlight, Opened
<1>4. CASE ContainmentFails
  <2>1. own' = Stuck(Withdrawn(own)) /\ ~LinkInFlight
    BY <1>4, <1>k DEF ContainmentFails, Stuck
  <2>2. /\ OwnerShape(Withdrawn(own)) /\ ~Opened(Withdrawn(own))
        /\ ~(Withdrawn(own).permit # NoRow /\ Withdrawn(own).permit.inflight)
    BY <1>0, <2>1, WithdrawnShape DEF LinkInFlight
  <2>3. own'.permit = Withdrawn(own).permit
    BY <2>1, <2>2, StuckShape
  <2> QED BY <2>2, <2>3 DEF LinkGoesOn, LinkOpen, LinkInFlight, Opened
<1>5. ASSUME NEW j \in Jobs, ServeAdd(j)
      PROVE  LinkGoesOn
  BY <1>1, <1>5, <1>k DEF ServeAdd, JobAdd, Served, GoesOn, BaseInv, StoreOK, TypeOK
<1>6. ASSUME NEW j \in Jobs, NEW a \in Actions, ServeControl(j, a)
      PROVE  LinkGoesOn
  <2>1. /\ own' = own /\ JobControl(j, a, FALSE, FALSE)
        /\ j # i \/ a \in {"resume", "start_now"}
    BY <1>6, <1>k DEF ServeControl, Served
  <2>2. job' = job \/ job' = [job EXCEPT ![j] = [Controlled(job[j], a) EXCEPT !.rev = @ + 1]]
    BY <2>1 DEF JobControl
  <2>3. CASE job'[i] = job[i]
    BY <1>1, <2>1, <2>3
  <2>4. CASE job'[i] # job[i]
    <3>1. /\ j = i /\ a \in {"resume", "start_now"}
          /\ job'[i] = [Controlled(job[i], a) EXCEPT !.rev = @ + 1]
      BY <1>k, <2>1, <2>2, <2>4 DEF BaseInv, StoreOK, TypeOK
    <3>2. Controlled(job[i], a) \in JobRow /\ Controlled(job[i], a).state \in {job[i].state, "queued"}
      BY <1>k, <3>1, ControlledTyped, ControlledState
    <3>3. job'[i].state = Controlled(job[i], a).state
      BY <3>1, <3>2 DEF JobRow
    <3>4. job'[i] # NoRow
      <4>1. TypeOK /\ [StoreNext]_storeVars
        BY StoreStep DEF BaseInv, StoreOK, Next
      <4>2. \A k \in Jobs : Stored(k) => job'[k] # NoRow
        BY <4>1, StoredStays DEF Stored
      <4> QED BY <1>k, <4>2 DEF GoesOn
    <3> QED BY <1>k, <2>1, <3>2, <3>3, <3>4 DEF LinkGoesOn, GoesOn, Ceased, i
  <2> QED BY <2>3, <2>4
<1>7. ASSUME NEW j \in Jobs, NEW a \in Actions, ServeContainedControl(j, a)
      PROVE  LinkGoesOn
  BY <1>2, <1>3, <1>7 DEF ServeContainedControl
<1>8. CASE ServeGatePause
  BY <1>2, <1>3, <1>4, <1>8 DEF ServeGatePause
<1>9. ASSUME NEW r \in Requests, NEW j \in Jobs, ServeRecovery(r, j)
      PROVE  LinkGoesOn
  BY <1>0, <1>1, <1>9 DEF ServeRecovery, AdmitRecovery, OwnerShape, OwnerRow
<1>10. CASE ActivateReserve \/ ActivateDiscard \/ \E r \in Requests, j \in Jobs : ServeDispatch(r, j)
  BY <1>10, <1>k DEF ActivateReserve, ActivateDiscard, ServeDispatch, ControllerReady, LaneFree,
                     Serving, Activating
<1>11. ASSUME NEW g \in {"paused", "running"}, ServeGate(g)
       PROVE  LinkGoesOn
  BY <1>1, <1>11 DEF ServeGate, SetGate, Served
<1>12. ASSUME NEW r \in Requests, NEW j \in Jobs, ServeDispatchRefused(r, j)
       PROVE  LinkGoesOn
  BY <1>1, <1>12 DEF ServeDispatchRefused, RefuseDispatch, Served
<1>13. ASSUME NEW r \in Requests, ServeReplay(r)
       PROVE  LinkGoesOn
  BY <1>1, <1>13 DEF ServeReplay, ReplayPending, Served
<1> QED BY <1>5, <1>6, <1>7, <1>8, <1>9, <1>10, <1>11, <1>12, <1>13 DEF Serve

\* The owner's controller and the job's row are left alone.
LEMMA LinkRests ==
  ASSUME LinkOK, LinkOpen, pc # "stopped", own'.ctl = own.ctl, job' = job
  PROVE  LinkGoesOn
  BY DEF LinkOK, LinkGoesOn, GoesOn, Stored

LEMMA ContinueLink ==
  ASSUME BaseInv, LaneOK, LinkOK, LinkOpen, Continue
  PROVE  LinkGoesOn
<1>p. pc # "stopped"
  BY DEF Continue, ActivateLaunch, ActivateBind, ActivateReady, ActivateFail, DispatchAdd,
         DispatchAdvance, DispatchResume, DispatchFinish, DispatchFail, ServeRecoveryRefused,
         Retire
<1>1. pc \notin Dispatching /\ pc \notin Activating /\ pc # "retire"
  BY <1>p, LinkOwner
<1>2. CASE ServeRecoveryRefused
  BY <1>p, <1>2, LinkRests DEF ServeRecoveryRefused, AbortRecovery
<1> QED BY <1>1, <1>2
        DEF Continue, ActivateLaunch, ActivateBind, ActivateReady, ActivateFail, DispatchAdd,
            DispatchAdvance, DispatchResume, DispatchFinish, DispatchFail, Retire,
            Dispatching, Activating

\* A poll that pauses the tracked job gives its permit up.
LEMMA PauseLink ==
  ASSUME OwnerShape(own), NEW fence, NEW recoverable, PauseTracked(fence, recoverable)
  PROVE  ~LinkOpen'
<1>1. own' \in {Idled, ClosedOwner(Idled), NewOwner(FALSE)}
  BY DEF PauseTracked, Die, CloseReaped, Idled
<1>2. OwnerShape(Idled) /\ Idled.permit = NoRow
  BY IdledShape
<1>3. ClosedOwner(Idled).permit = NoRow /\ NewOwner(FALSE).permit = NoRow
  BY <1>2, ClosedShape DEF NewOwner
<1> QED BY <1>1, <1>2, <1>3 DEF LinkOpen, Opened, LinkInFlight

LEMMA PollLink ==
  ASSUME BaseInv, LaneOK, LinkOK, LinkOpen, Poll
  PROVE  LinkGoesOn
<1>0. OwnerShape(own) /\ (Reaping => ~LinkInFlight)
  BY DEF BaseInv, ProcessOK, Reaping, ObsDone
<1>p. pc \in {"main", "poll"}
  BY DEF Poll, RetireAfterObserver, LaunchPreparation, LaunchPublication, LaunchTransfer, Launch,
         PollIdle, ReapVoid, ReapTerminal, ReapStage, ReapPreparation, ReapRevokedPublication,
         ReapPublished, ReapUnpublished, ReapingPublication, Reaped, Reaping, Looping
<1>q. own.ctl = "ready" /\ ~own.closeAfter /\ (own.work # "none" => LinkInFlight)
  BY <1>p, LinkOwner
<1>1. CASE RetireAfterObserver
  BY <1>1, <1>q DEF RetireAfterObserver
<1>2. CASE LaunchPreparation \/ LaunchPublication \/ LaunchTransfer \/ PollIdle \/ ReapVoid
  BY <1>2, <1>p, LinkRests DEF LaunchPreparation, LaunchPublication, LaunchTransfer, Launch,
                               PollIdle, ReapVoid, storeVars
<1>3. CASE ReapTerminal \/ ReapStage \/ ReapPreparation
  BY <1>0, <1>3, <1>q DEF ReapTerminal, ReapStage, ReapPreparation, Reaped
<1>4. CASE ReapRevokedPublication
  <2>1. own'.ctl = own.ctl /\ job' = job
    BY <1>0, <1>4, SeenShape DEF ReapRevokedPublication, ReapingPublication, storeVars
  <2> QED BY <1>p, <2>1, LinkRests
<1>5. CASE ReapPublished
  <2>1. own' \in {PublicationDropped, ClosedOwner(PublicationDropped)}
    BY <1>5 DEF ReapPublished, CloseReaped
  <2>2. OwnerShape(PublicationDropped) /\ PublicationDropped.permit = NoRow
    BY <1>0, PublicationDroppedShape
  <2>3. own'.permit = NoRow
    BY <2>1, <2>2, ClosedShape
  <2> QED BY <2>3 DEF LinkGoesOn, LinkOpen, Opened, LinkInFlight
<1>6. CASE ReapUnpublished
  <2>1. CASE PauseTracked(own.pub, own.permit.attempted)
    BY <1>0, <2>1, PauseLink DEF LinkGoesOn
  <2>2. CASE ~PauseTracked(own.pub, own.permit.attempted)
    <3>1. own' = PublicationDropped
      BY <1>6, <2>2 DEF ReapUnpublished
    <3> QED BY <1>0, <3>1, PublicationDroppedShape DEF LinkGoesOn, LinkOpen, Opened, LinkInFlight
  <2> QED BY <2>1, <2>2
<1> QED BY <1>1, <1>2, <1>3, <1>4, <1>5, <1>6 DEF Poll

LEMMA LifecycleLink ==
  ASSUME BaseInv, LaneOK, LinkOK, LinkOpen, Lifecycle, pc # "stopped", pc' # "stopped"
  PROVE  LinkGoesOn
<1>0. OwnerShape(own)
  BY DEF BaseInv, ProcessOK
<1>1. CASE Shutdown
  <2>1. own'.ctl = own.ctl /\ job' = job
    BY <1>0, <1>1, CancelledShape DEF Shutdown, storeVars
  <2> QED BY <2>1, LinkRests
<1>2. CASE own' = NewOwner(FALSE) \/ own' = NewOwner(TRUE)
  BY <1>2, NewOwnerShape DEF LinkGoesOn, LinkOpen, Opened, LinkInFlight
<1>3. CASE RecoverEngine
  BY <1>2, <1>3 DEF RecoverEngine, BaseInv, StepOK
<1> QED BY <1>1, <1>2, <1>3
        DEF Lifecycle, Stop, ShutdownPersist, ShutdownClear, Crash, ColdStart

LEMMA LinkKept ==
  ASSUME BaseInv, LaneOK, LinkOK, LinkOpen, [Next]_vars, pc # "stopped", pc' # "stopped"
  PROVE  LinkGoesOn
<1>1. CASE Observe \/ EngineStep \/ \E j \in Jobs : Tamper(j)
  <2>1. job' = job
    BY <1>1 DEF Observe, ObserveTerminal, ObserveFiles, ObserveFail, PublishEnter, PublishLink,
                PublishVerify, EngineStep, Tamper, storeVars
  <2>2. own'.ctl = own.ctl
    BY <1>1 DEF Observe, ObserveTerminal, ObserveFiles, ObserveFail, PublishEnter, PublishLink,
                PublishVerify, EngineStep, Tamper, BaseInv, ProcessOK, OwnerShape, OwnerRow
  <2> QED BY <2>1, <2>2, LinkRests
<1>2. CASE UNCHANGED vars
  BY <1>2, LinkRests DEF vars
<1> QED BY <1>1, <1>2, ServeLink, ContinueLink, PollLink, LifecycleLink DEF Next

\* The reserved publication is of a finalizing job.
LEMMA PreparationLink ==
  ASSUME BaseInv, ReapPreparation, LinkOpen'
  PROVE  /\ own'.ctl = "ready" /\ own'.plan = own.plan /\ own.plan # NoRow
         /\ own'.pub.job = own.plan.job /\ GoesOn(own.plan.job) /\ job' = job
<1>0. OwnerShape(own)
  BY DEF BaseInv, ProcessOK
<1>1. ~PauseTracked(own.plan, FALSE)
  BY <1>0, PauseLink
<1> DEFINE p == [job |-> own.plan.job, gen |-> own.plan.gen, rev |-> own.plan.rev,
                 rec |-> NoRow, stage |-> TRUE, seen |-> FALSE]
<1>2. /\ ReservePublication(own.plan.req, obs.pay) /\ own.work = "prepare"
      /\ own' = [own EXCEPT !.work = "none", !.permit = FreshPermit, !.pub = p]
  BY <1>1 DEF ReapPreparation, Reaped
<1>3. p.job = own.plan.job
  OBVIOUS
<1> HIDE DEF p
<1>4. own'.ctl = own.ctl /\ own'.plan = own.plan /\ own'.pub = p
  BY <1>0, <1>2 DEF OwnerShape, OwnerRow
<1>5. own.plan # NoRow /\ own.ctl = "ready"
  BY <1>0, <1>2 DEF OwnerShape
<1>6. receipt[own.plan.req].job = own.plan.job
  BY <1>5 DEF BaseInv, PlanOK
<1>7. Stored(own.plan.job) /\ job[own.plan.job].state = "finalizing" /\ job' = job
  BY <1>2, <1>6 DEF ReservePublication, StageAuthority, Finalized, Fence
<1> QED BY <1>3, <1>4, <1>5, <1>7 DEF GoesOn, Ceased

\* A worker that has persisted its shutdown only clears its claim, or is killed.
LEMMA StoppedStays ==
  ASSUME BaseInv, [Next]_vars, pc = "stopped"
  PROVE  pc' = "stopped" \/ own' = NewOwner(FALSE)
<1>1. obs = NoRow
  BY DEF BaseInv, StepOK
<1>2. ~Serve
  BY DEF Serve, ServeAdd, ServeControl, ServeContainedControl, ServeGate, ServeGatePause,
         ActivateReserve, ActivateDiscard, ServeDispatchRefused, ServeDispatch, ServeRecovery,
         ServeReplay, Served, Serving
<1>3. ~Continue
  BY DEF Continue, ActivateLaunch, ActivateBind, ActivateReady, ActivateFail, DispatchAdd,
         DispatchAdvance, DispatchResume, DispatchFinish, DispatchFail, ServeRecoveryRefused,
         Retire
<1>4. ~Poll
  BY DEF Poll, RetireAfterObserver, LaunchPreparation, LaunchPublication, LaunchTransfer, Launch,
         PollIdle, ReapVoid, ReapTerminal, ReapStage, ReapPreparation, ReapRevokedPublication,
         ReapPublished, ReapUnpublished, ReapingPublication, Reaped, Reaping, Looping
<1>5. ~Observe
  BY <1>1, ThreadGoesOn
<1>6. CASE Lifecycle
  BY <1>6 DEF Lifecycle, Stop, Shutdown, ShutdownPersist, ShutdownClear, Crash, ColdStart,
              RecoverEngine, Looping
<1>7. CASE UNCHANGED vars \/ EngineStep \/ \E j \in Jobs : Tamper(j)
  BY <1>7 DEF vars, EngineStep, Tamper
<1> QED BY <1>2, <1>3, <1>4, <1>5, <1>6, <1>7 DEF Next

LEMMA LinkStep ==
  ASSUME ~SharedLane, BaseInv, LaneOK, LinkOK, [Next]_vars
  PROVE  LinkOK'
<1>1. SUFFICES ASSUME LinkOpen', pc' # "stopped"
               PROVE  /\ own'.ctl = "ready" /\ own'.plan # NoRow /\ own'.plan.job = own'.pub.job
                      /\ job'[own'.plan.job] # NoRow
                      /\ job'[own'.plan.job].state \notin Ceased
  BY DEF LinkOK, GoesOn, Stored
<1>2. ThreadOK' /\ OwnerMoves
  BY OwnerStep
<1>3. OwnerShape(own') /\ own'.pub # NoRow
  BY <1>1, <1>2 DEF ThreadOK, ProcessOK, LinkOpen, LinkInFlight, OwnerShape
<1>4. CASE ReapPreparation
  BY <1>1, <1>4, PreparationLink DEF GoesOn, Stored
<1>5. CASE ~ReapPreparation
  <2>1. LinkOpen
    <3>1. PublishEnter => Opened(own)
      BY DEF PublishEnter, PermitOpen, Opened
    <3> QED BY <1>1, <1>2, <1>5, <3>1 DEF OwnerMoves, PermitMoves, LinkOpen
  <2>2. pc # "stopped"
    <3>1. own' # NewOwner(FALSE)
      BY <1>3 DEF NewOwner
    <3> QED BY <1>1, <3>1, StoppedStays
  <2>3. LinkGoesOn
    BY <1>1, <2>1, <2>2, LinkKept
  <2>4. /\ own.ctl = "ready" /\ own.plan # NoRow /\ own.pub # NoRow
        /\ own.plan.job = own.pub.job
    BY <2>1, <2>2, LinkOwner
  <2>5. own'.ctl = "ready"
    BY <1>1, <2>3 DEF LinkGoesOn
  <2>6. own'.pub.job = own.pub.job
    BY <1>2, <1>3, <1>5, <2>4 DEF OwnerMoves, PublicationMoves
  <2>7. own'.plan # NoRow /\ own'.plan.job = own.plan.job
    <3>1. CASE Replaced
      <4>1. own'.ctl = "none"
        <5>1. Cleared(own).ctl = "none"
          BY ClearedShape DEF BaseInv, ProcessOK
        <5>2. NewOwner(TRUE).ctl = "none" /\ NewOwner(FALSE).ctl = "none"
          BY DEF NewOwner
        <5> QED BY <3>1, <5>1, <5>2 DEF Replaced
      <4> QED BY <2>5, <4>1
    <3>2. CASE DispatchResume
      <4>1. pc \in Dispatching
        BY <3>2 DEF DispatchResume, Dispatching
      <4> QED BY <2>1, <2>2, <4>1, LinkOwner
    <3> QED BY <1>2, <2>4, <3>1, <3>2 DEF OwnerMoves, PlanMoves
  <2> QED BY <1>1, <2>3, <2>4, <2>5, <2>6, <2>7 DEF LinkGoesOn
<1> QED BY <1>4, <1>5

LEMMA LinkHolds ==
  ASSUME ~SharedLane
  PROVE  Spec => [](LaneOK /\ LinkOK)
<1>1. Init => LaneOK /\ LinkOK
  <2>1. Init => LaneOK
    BY DEF Init, LaneOK, Quiet, PubWaiting, NewOwner, Dispatching
  <2>2. Init => LinkOK
    BY DEF Init, LinkOK, LinkOpen, Opened, LinkInFlight, NewOwner
  <2> QED BY <2>1, <2>2
<1>2. BaseInv /\ AfterOK /\ LaneOK /\ LinkOK /\ [Next]_vars => LaneOK' /\ LinkOK'
  BY LaneStep, LinkStep
<1> QED BY <1>1, <1>2, BaseHolds, MovesHold, PTL DEF Spec

\* Only the observer's link() creates a final file, of the job it publishes.
LEMMA FinalAppears ==
  ASSUME BaseInv, [Next]_vars, NEW j \in Jobs, disk'.final[j] # disk.final[j]
  PROVE  \/ /\ PublishLink /\ j = obs.job /\ disk.final[j] = NoRow
            /\ disk' = [disk EXCEPT !.final[obs.job] = Partial]
         \/ /\ disk'.final[j] \in {NoRow, Foreign} /\ UNCHANGED <<storeVars, own, obs>>
            /\ disk' = [disk EXCEPT !.final[j] = disk'.final[j]]
<1>0. disk \in [partial: [Jobs -> OrNoRow(Payloads)],
                final: [Jobs -> OrNoRow(Payloads \cup {Foreign})]]
  BY DEF BaseInv, ProcessOK
<1>1. CASE disk' = disk
  BY <1>1
<1>2. CASE PublishLink
  BY <1>0, <1>1, <1>2 DEF PublishLink, Final
<1>3. ASSUME NEW k \in Jobs, Tamper(k)
      PROVE  /\ disk'.final[j] \in {NoRow, Foreign} /\ UNCHANGED <<storeVars, own, obs>>
             /\ disk' = [disk EXCEPT !.final[j] = disk'.final[j]]
  <2>1. PICK f \in {NoRow, Foreign} : disk' = [disk EXCEPT !.final[k] = f]
    BY <1>0, <1>3 DEF Tamper
  <2>2. k = j
    BY <1>0, <2>1
  <2>3. disk'.final[j] = f
    BY <1>0, <2>1, <2>2
  <2> QED BY <1>3, <2>1, <2>2, <2>3 DEF Tamper
<1>4. CASE DispatchResume
  <2>1. disk'.final = disk.final
    BY <1>0, <1>4 DEF DispatchResume
  <2> QED BY <2>1
<1>5. CASE Serve
  <2>1. disk' = disk
    BY <1>5 DEF Serve, ServeAdd, ServeControl, ServeContainedControl, ServeGate, ServeGatePause,
         ActivateReserve, ActivateDiscard, ServeDispatchRefused, ServeDispatch, ServeRecovery,
         ServeReplay, Served, RefuseInFlight, ContainmentFails
  <2> QED BY <1>1, <2>1
<1>6. CASE Continue
  BY <1>1, <1>4, <1>6 DEF Continue, ActivateLaunch, ActivateBind, ActivateReady, ActivateFail,
     DispatchAdd, DispatchAdvance, DispatchFinish, DispatchFail, ServeRecoveryRefused, Retire
<1>7. CASE Poll
  <2>1. disk' = disk
    BY <1>7 DEF Poll, RetireAfterObserver, LaunchPreparation, LaunchPublication, LaunchTransfer,
       Launch, PollIdle, ReapVoid, ReapTerminal, ReapStage, ReapPreparation,
       ReapRevokedPublication, ReapPublished, ReapUnpublished, PauseTracked, Die,
       CloseWithoutPersist
  <2> QED BY <1>1, <2>1
<1>8. CASE Lifecycle
  BY <1>1, <1>8 DEF Lifecycle, Stop, Shutdown, ShutdownPersist, ShutdownClear, Crash, ColdStart,
     RecoverEngine
<1>9. CASE Observe
  BY <1>1, <1>2, <1>9 DEF Observe, ObserveTerminal, ObserveFiles, ObserveFail, PublishEnter,
     PublishVerify
<1>10. CASE EngineStep \/ UNCHANGED vars
  BY <1>1, <1>10 DEF EngineStep, vars
<1> QED BY <1>3, <1>5, <1>6, <1>7, <1>8, <1>9, <1>10 DEF Next

\* The job a link() publishes has not been stopped.
LEMMA LinkedGoesOn ==
  ASSUME BaseInv, ObservedPub, LaneOK, LinkOK, PublishLink
  PROVE  own.pub # NoRow /\ obs.job = own.pub.job /\ obs.job \in Jobs /\ GoesOn(obs.job)
<1>1. obs # NoRow /\ obs.kind = "publish" /\ obs.st = "link"
  BY DEF PublishLink, Observing
<1>2. LinkOpen /\ pc # "stopped"
  BY <1>1 DEF BaseInv, ProcessOK, StepOK, LinkOpen
<1> QED BY <1>1, <1>2, LinkOwner DEF ObservedPub

(***************************************************************************)
(* A command that stops a job closes the race with the observer's link():  *)
(* the final name is never created for a paused or removed job, whatever   *)
(* the interleaving of commands, observer, engine and file system.  The    *)
(* hypothesis is that no other owner takes the observer lane: with a       *)
(* shared lane the property is false (README, disagreement 12).            *)
(***************************************************************************)
THEOREM LinkYields ==
  ASSUME ~SharedLane
  PROVE  Spec => NoLinkAfterStop
<1>1. ASSUME BaseInv, ObservedPub, LaneOK, LinkOK, [Next]_vars, NEW j \in Jobs,
             disk.final[j] = NoRow, disk'.final[j] \in Payloads
      PROVE  job[j].state \notin {"paused", "removed"}
  <2>1. PublishLink /\ j = obs.job
    BY <1>1, FinalAppears, NoRowAssumption, WorkerAssumption
  <2> QED BY <1>1, <2>1, LinkedGoesOn DEF GoesOn, Ceased
<1>2. BaseInv /\ ObservedPub /\ LaneOK /\ LinkOK /\ [Next]_vars =>
        [\A j \in Jobs : disk.final[j] = NoRow /\ disk'.final[j] \in Payloads =>
           job[j].state \notin {"paused", "removed"}]_vars
  BY <1>1
<1> QED BY <1>2, BaseHolds, MovesHold, LinkHolds, PTL DEF Spec, NoLinkAfterStop

-----------------------------------------------------------------------------
(* The promise.  Rows first: how a transaction moves the stages of jobs.   *)

\* Only a cold start changes the rows of two jobs at once.
LEMMA OneRow ==
  ASSUME TypeOK, [StoreNext]_storeVars, NEW j \in Jobs, NEW k \in Jobs, j # k,
         job'[j] # job[j], job'[k] # job[k]
  PROVE  RecoverCold
<1> USE DEF TypeOK
<1>1. ~\E i \in Jobs : JobAdd(i)
  BY DEF JobAdd
<1>2. ~\E i \in Jobs, recoverable \in BOOLEAN :
          SetGateContained(i, recoverable) \/ PauseActive(i, recoverable)
  BY DEF SetGateContained, PauseActive
<1>3. ~\E i \in Jobs, a \in Actions, contained, recoverable \in BOOLEAN :
          JobControl(i, a, contained, recoverable)
  BY DEF JobControl
<1>4. ~\E r \in Requests, i \in Jobs, ready, due \in BOOLEAN : AdmitDispatch(r, i, ready, due)
  <2>1. ASSUME NEW i \in Jobs, NEW s, job' = [job EXCEPT ![i] = s]
        PROVE  FALSE
    BY <2>1
  <2> QED BY <2>1 DEF AdmitDispatch
<1>5. ~\E r \in Requests : AdvanceToDownloading(r) \/ FinalizeTerminal(r)
  BY DEF AdvanceToDownloading, FinalizeTerminal
<1>6. ~\E r \in Requests : AbortDispatch(r)
  BY DEF AbortDispatch
<1>7. ~\E r \in Requests, s \in FailureStates : FailTerminal(r, s)
  BY DEF FailTerminal
<1>8. ~\E i \in Jobs, p \in Payloads, live \in BOOLEAN : CompletePublication(i, p, live)
  <2>1. ASSUME NEW i \in Jobs, NEW s, job' = [job EXCEPT ![i] = s]
        PROVE  FALSE
    BY <2>1
  <2> QED BY <2>1 DEF CompletePublication
<1>9. CASE UNCHANGED job
  BY <1>9
<1> QED
  BY <1>1, <1>2, <1>3, <1>4, <1>5, <1>6, <1>7, <1>8, <1>9
  DEF StoreNext, storeVars, SetGate, RefuseDispatch, AdmitRecovery, ReplayPending,
      FinishDispatch, BindStaged, ReservePublication, AbortRecovery, AdvanceClaim,
      ClearClaim, ActivateCleanup, AdvanceCleanup

\* A job is added, removed or completed, or its stage stays.
StageMoves(k) ==
  \/ StageOf(k) = "absent" /\ StageOf(k)' = "open"
  \/ StageOf(k) = "open" /\ StageOf(k)' = "removed"
  \/ /\ StageOf(k) = "open" /\ StageOf(k)' = "completed"
     /\ \E p \in Payloads, live \in BOOLEAN : CompletePublication(k, p, live)

LEMMA StageStep ==
  ASSUME TypeOK, EligibleIsCurrent, [StoreNext]_storeVars, NEW k \in Jobs
  PROVE  StageOf(k)' = StageOf(k) \/ StageMoves(k)
<1>1. CASE ~Stored(k)
  <2>1. Stored(k)' => job'[k].state = "queued"
    BY <1>1, RowAppears
  <2> QED BY <1>1, <2>1 DEF StageMoves, StageOf, TerminalStates
<1>2. CASE Stored(k) /\ job'[k] = job[k]
  BY <1>2 DEF StageOf, Stored
<1>3. CASE Stored(k) /\ job'[k] # job[k]
  <2>1. StageOf(k) = "open"
    BY <1>3, RowFenced DEF StageOf
  <2>2. Stored(k)' /\ job'[k] \in JobRow
    BY <1>3, StoredStays
  <2>3. CASE job'[k].state \notin TerminalStates
    BY <2>1, <2>2, <2>3 DEF StageOf
  <2>4. CASE job'[k].state = "removed"
    <3>1. StageOf(k)' = "removed"
      BY <2>2, <2>4 DEF StageOf, TerminalStates
    <3> QED BY <2>1, <3>1 DEF StageMoves
  <2>5. CASE job'[k].state = "completed"
    <3>1. StageOf(k)' = "completed" /\ Completed(k)'
      BY <2>2, <2>5 DEF StageOf, TerminalStates, Completed
    <3>2. \E p \in Payloads, live \in BOOLEAN : CompletePublication(k, p, live)
      BY <1>3, <3>1, CompletedBy
    <3> QED BY <2>1, <3>1, <3>2 DEF StageMoves
  <2> QED BY <2>3, <2>4, <2>5 DEF TerminalStates
<1> QED BY <1>1, <1>2, <1>3

LEMMA ColdStartStages ==
  ASSUME TypeOK, RecoverCold, NEW k \in Jobs
  PROVE  StageOf(k)' = StageOf(k)
<1>1. CASE Open(k)
  <2>1. job[k] \in JobRow /\ job'[k] = Fenced(k)
    BY <1>1, StoredIsRow DEF RecoverCold, Open, Fenced
  <2>2. job'[k].state = "paused"
    BY <2>1 DEF Fenced, JobRow
  <2>3. job'[k] \in JobRow
    BY <1>1, RowStepFenced, <2>1 DEF RowStep, RecoverCold
  <2> QED BY <1>1, <2>2, <2>3, NoRowAssumption DEF StageOf, Stored, Open, TerminalStates
<1>2. CASE ~Open(k)
  BY <1>2 DEF RecoverCold, StageOf, Stored
<1> QED BY <1>1, <1>2

-----------------------------------------------------------------------------
(* Files: only a job with a verified partial is published.                 *)

FilesOK ==
  /\ \A j \in Jobs : staged[j] = NoRow => disk.final[j] \notin Payloads
  /\ own.pub # NoRow => own.pub.job \in Jobs /\ staged[own.pub.job] \in Payloads

LEMMA LinkedIsStaged ==
  ASSUME BaseInv, ObservedPub, FilesOK, PublishLink
  PROVE  obs.job \in Jobs /\ staged[obs.job] \in Payloads
<1>1. obs # NoRow /\ obs.kind = "publish" /\ obs.st = "link"
  BY DEF PublishLink, Observing
<1>2. own.pub # NoRow
  BY <1>1 DEF BaseInv, ProcessOK, LinkInFlight, OwnerShape
<1> QED BY <1>1, <1>2 DEF ObservedPub, FilesOK

\* The reserved publication is of the prepared payload.
LEMMA ReservedIsStaged ==
  ASSUME BaseInv, ReapPreparation, own'.pub # NoRow, own.plan # NoRow
  PROVE  own.plan.job \in Jobs /\ staged[own.plan.job] \in Payloads /\ UNCHANGED staged
<1>0. OwnerShape(own) /\ own.plan.job \in Jobs
  BY Arguments DEF BaseInv, ProcessOK
<1>1. ~PauseTracked(own.plan, FALSE)
  <2>1. SUFFICES ASSUME PauseTracked(own.plan, FALSE) PROVE FALSE
    OBVIOUS
  <2>2. own' \in {Idled, ClosedOwner(Idled), NewOwner(FALSE)}
    BY <2>1 DEF PauseTracked, Die, CloseReaped, Idled
  <2>3. OwnerShape(Idled) /\ Idled.pub = NoRow
    BY <1>0, IdledShape
  <2>4. ClosedOwner(Idled).pub = NoRow /\ NewOwner(FALSE).pub = NoRow
    BY <2>3, ClosedShape DEF NewOwner
  <2> QED BY <2>2, <2>3, <2>4
<1>2. ReservePublication(own.plan.req, obs.pay) /\ obs # NoRow /\ obs.kind = "prepare"
      /\ obs.st = "done" /\ obs.res = "ok"
  BY <1>1 DEF ReapPreparation, Reaped, Reaping, ObsDone
<1>3. obs.pay \in Payloads
  BY <1>2 DEF BaseInv, ProcessOK, Evidence
<1>4. staged[own.plan.job] = obs.pay /\ UNCHANGED staged
  BY <1>2 DEF BaseInv, PlanOK, ReservePublication
<1> QED BY <1>0, <1>3, <1>4

LEMMA FilesStep ==
  ASSUME BaseInv, ObservedPub, FilesOK, [Next]_vars
  PROVE  FilesOK'
<1>0. TypeOK /\ TypeOK' /\ [StoreNext]_storeVars
  BY StoreStep, StoreKept DEF BaseInv, StoreOK
<1>1. ASSUME NEW j \in Jobs, staged'[j] = NoRow
      PROVE  disk'.final[j] \notin Payloads
  <2>1. staged[j] = NoRow
    BY <1>0, <1>1, BindingStays
  <2>2. CASE disk'.final[j] = disk.final[j]
    BY <2>1, <2>2 DEF FilesOK
  <2>3. CASE disk'.final[j] # disk.final[j]
    <3>1. ~(PublishLink /\ j = obs.job)
      BY <2>1, LinkedIsStaged, NoRowAssumption
    <3> QED BY <2>3, <3>1, FinalAppears, NoRowAssumption, WorkerAssumption
  <2> QED BY <2>2, <2>3
<1>2. ASSUME own'.pub # NoRow
      PROVE  own'.pub.job \in Jobs /\ staged'[own'.pub.job] \in Payloads
  <2>1. OwnerMoves
    BY OwnerStep
  <2>2. CASE own.pub # NoRow /\ own'.pub.job = own.pub.job
    BY <1>0, <2>2, BindingStays, NoRowAssumption DEF FilesOK
  <2>3. CASE ReapPreparation /\ own.plan # NoRow /\ own'.pub.job = own.plan.job
    BY <1>2, <2>3, ReservedIsStaged
  <2>4. ASSUME NEW r \in Requests, NEW j \in Jobs, ServeRecovery(r, j), own'.pub.job = j
        PROVE  own'.pub.job \in Jobs /\ staged'[own'.pub.job] \in Payloads
    <3>1. Eligible(j) /\ UNCHANGED staged
      BY <2>4 DEF ServeRecovery, AdmitRecovery, DispatchVerdict
    <3> QED BY <2>4, <3>1 DEF BaseInv, StoreOK, AttemptIsStaged, Eligible
  <2> QED BY <1>2, <2>1, <2>2, <2>3, <2>4 DEF OwnerMoves, PublicationMoves
<1> QED BY <1>1, <1>2 DEF FilesOK

LEMMA FilesHold == Spec => []FilesOK
<1>1. Init => FilesOK
  BY NoRowAssumption DEF Init, FilesOK, NewOwner
<1> QED BY <1>1, FilesStep, BaseHolds, MovesHold, PTL DEF Spec

\* What is under the final name changes only as the file does.
LEMMA FinalNames ==
  ASSUME NEW j \in Jobs
  PROVE  /\ disk.final[j] = NoRow => FinalOf(j) = "none"
         /\ disk.final[j] # NoRow /\ disk.final[j] = staged[j] => FinalOf(j) = "ours"
         /\ disk.final[j] # NoRow /\ disk.final[j] # staged[j] => FinalOf(j) = "foreign"
  BY DEF FinalOf

LEMMA FinalStays ==
  ASSUME BaseInv, FilesOK, [Next]_vars, NEW j \in Jobs, disk'.final[j] = disk.final[j]
  PROVE  FinalOf(j)' = FinalOf(j)
<1>0. TypeOK /\ TypeOK' /\ [StoreNext]_storeVars
  BY StoreStep, StoreKept DEF BaseInv, StoreOK
<1>1. staged[j] # NoRow => staged'[j] = staged[j]
  BY <1>0, BindingStays
<1>2. CASE disk.final[j] = NoRow
  BY <1>2 DEF FinalOf
<1>3. CASE disk.final[j] # NoRow /\ staged'[j] = staged[j]
  BY <1>3 DEF FinalOf
<1>4. CASE disk.final[j] # NoRow /\ staged[j] = NoRow
  <2>1. disk.final[j] \notin Payloads /\ staged'[j] \in OrNoRow(Payloads)
    BY <1>0, <1>4 DEF FilesOK, TypeOK, OrNoRow
  <2>2. disk.final[j] # staged[j] /\ disk.final[j] # staged'[j]
    BY <1>4, <2>1 DEF OrNoRow
  <2> QED BY <1>4, <2>2 DEF FinalOf
<1> QED BY <1>1, <1>2, <1>3, <1>4

\* Only the reaping of a published payload completes a job, its file in place.
LEMMA CompletedHere ==
  ASSUME BaseInv, ObservedPub, CompletedIsProven, [Next]_vars,
         NEW k \in Jobs, NEW p \in Payloads, NEW live \in BOOLEAN,
         CompletePublication(k, p, live)
  PROVE  FinalOf(k) = "ours"
<1>1. published[k] = NoRow
  <2>1. job[k].state \in {"finalizing", "paused"}
    BY DEF CompletePublication, PointerCurrent, BaseInv, StoreOK, EligibleIsCurrent
  <2> QED BY <2>1 DEF CompletedIsProven
<1>2. published'[k] = p /\ p # NoRow
  BY NoRowAssumption DEF CompletePublication, BaseInv, StoreOK, TypeOK
<1>3. published' # published
  BY <1>1, <1>2
<1>4. ReapPublished
  <2>1. ~Serve
    BY <1>3 DEF Serve, ServeAdd, ServeControl, ServeContainedControl, ServeGate, ServeGatePause,
       ActivateReserve, ActivateDiscard, ServeDispatchRefused, ServeDispatch, ServeRecovery,
       ServeReplay, RefuseInFlight, ContainmentFails, JobAdd, JobControl, SetGate,
       SetGateContained, AdvanceClaim, ClearClaim, RefuseDispatch, AdmitDispatch, AdmitRecovery,
       ReplayPending, storeVars
  <2>2. ~Continue
    BY <1>3 DEF Continue, ActivateLaunch, ActivateBind, ActivateReady, ActivateFail, DispatchAdd,
       DispatchAdvance, DispatchResume, DispatchFinish, DispatchFail, ServeRecoveryRefused,
       Retire, AdvanceClaim, ClearClaim, AdvanceToDownloading, FinishDispatch, AbortDispatch,
       AbortRecovery, storeVars
  <2>3. ~Lifecycle
    BY <1>3 DEF Lifecycle, Stop, Shutdown, ShutdownPersist, ShutdownClear, Crash, ColdStart,
       RecoverEngine, AbortRecovery, PauseActive, ClearClaim, RecoverCold, storeVars
  <2>4. ~(Observe \/ EngineStep \/ \E j \in Jobs : Tamper(j))
    BY <1>3, ObserveStore DEF storeVars
  <2>5. Poll => ReapPublished
    BY <1>3 DEF Poll, RetireAfterObserver, LaunchPreparation, LaunchPublication, LaunchTransfer,
       Launch, PollIdle, ReapVoid, ReapTerminal, ReapStage, ReapPreparation,
       ReapRevokedPublication, ReapUnpublished, PauseTracked, Die, CloseWithoutPersist,
       FinalizeTerminal, FailTerminal, BindStaged, ReservePublication, AbortRecovery, PauseActive,
       ClearClaim, storeVars
  <2>6. ~UNCHANGED vars
    BY <1>3 DEF vars
  <2> QED BY <2>1, <2>2, <2>3, <2>4, <2>5, <2>6 DEF Next
<1>5. own.pub # NoRow /\ obs # NoRow /\ obs.job = own.pub.job
  BY <1>4 DEF ReapPublished, ReapingPublication, Reaping, ObsDone, ObservedPub
<1>6. own.pub.job \in Jobs
  BY <1>5, Arguments DEF BaseInv, ProcessOK
<1>7. CompletePublication(own.pub.job, obs.pay, own.pub.rec = NoRow) /\ NamesHold
  BY <1>4 DEF ReapPublished
<1>8. own.pub.job = k
  BY <1>3, <1>1, <1>2, <1>6, <1>7 DEF CompletePublication, BaseInv, StoreOK, TypeOK
<1>9. staged[k] = p /\ staged[k] = obs.pay /\ disk.final[k] = obs.pay
  BY <1>5, <1>7, <1>8 DEF CompletePublication, NamesHold, Final
<1> QED BY <1>2, <1>9, FinalNames

-----------------------------------------------------------------------------
(* The refinement of DownloadPromise.                                      *)

StagesStay == \A j \in Jobs : StageOf(j)' = StageOf(j)
FinalsStay == \A j \in Jobs : FinalOf(j)' = FinalOf(j)
StagesBut(j) == \A k \in Jobs \ {j} : StageOf(k)' = StageOf(k)
FinalsBut(j) == \A k \in Jobs \ {j} : FinalOf(k)' = FinalOf(k)

\* At most one job's stage moves, and then no file's name does.
LEMMA OneStage ==
  ASSUME BaseInv, FilesOK, [Next]_vars, NEW j \in Jobs, StageOf(j)' # StageOf(j)
  PROVE  StageMoves(j) /\ StagesBut(j) /\ FinalsStay
<1>0. TypeOK /\ EligibleIsCurrent /\ [StoreNext]_storeVars
  BY StoreStep DEF BaseInv, StoreOK
<1>1. StageMoves(j)
  BY <1>0, StageStep
<1>2. job'[j] # job[j]
  BY DEF StageOf, Stored
<1>3. ~RecoverCold
  BY <1>0, ColdStartStages
<1>4. ASSUME NEW k \in Jobs \ {j}
      PROVE  StageOf(k)' = StageOf(k)
  <2>1. job'[k] = job[k]
    BY <1>0, <1>2, <1>3, OneRow
  <2> QED BY <2>1 DEF StageOf, Stored
<1>5. ASSUME NEW k \in Jobs
      PROVE  FinalOf(k)' = FinalOf(k)
  <2>1. job' # job
    BY <1>2
  <2>2. disk'.final[k] = disk.final[k]
    BY <2>1, FinalAppears DEF PublishLink, storeVars
  <2> QED BY <2>2, FinalStays
<1> QED BY <1>1, <1>4, <1>5 DEF StagesBut, FinalsStay

\* The name of one file at most changes: the job's own, or that of others' doing.
LEMMA OneFinal ==
  ASSUME BaseInv, ObservedPub, LaneOK, LinkOK, FilesOK, [Next]_vars,
         NEW j \in Jobs, FinalOf(j)' # FinalOf(j)
  PROVE  /\ StagesStay /\ FinalsBut(j)
         /\ \/ StageOf(j) = "open" /\ FinalOf(j) = "none" /\ FinalOf(j)' = "ours"
            \/ FinalOf(j)' \in {"none", "foreign"}
<1>0. disk \in [partial: [Jobs -> OrNoRow(Payloads)],
                final: [Jobs -> OrNoRow(Payloads \cup {Foreign})]]
  BY DEF BaseInv, ProcessOK
<1>1. disk'.final[j] # disk.final[j]
  BY FinalStays
<1>2. UNCHANGED storeVars /\ \A k \in Jobs \ {j} : disk'.final[k] = disk.final[k]
  BY <1>0, <1>1, FinalAppears DEF PublishLink
<1>3. StagesStay
  BY <1>2 DEF StagesStay, StageOf, Stored, storeVars
<1>4. FinalsBut(j)
  BY <1>2, FinalStays DEF FinalsBut
<1>5. CASE PublishLink /\ j = obs.job /\ disk.final[j] = NoRow
  <2>1. GoesOn(j)
    BY <1>5, LinkedGoesOn
  <2>2. StageOf(j) = "open" /\ FinalOf(j) = "none"
    BY <1>5, <2>1, FinalNames DEF StageOf, GoesOn, Ceased, TerminalStates
  <2>3. FinalOf(j)' \in {"ours", "none", "foreign"}
    BY DEF FinalOf
  <2> QED BY <1>3, <1>4, <2>2, <2>3
<1>6. CASE disk'.final[j] \in {NoRow, Foreign}
  <2>1. FinalOf(j)' \in {"none", "foreign"}
    <3>1. CASE disk'.final[j] = NoRow
      BY <3>1 DEF FinalOf
    <3>2. CASE disk'.final[j] = Foreign
      <4>1. staged'[j] \in OrNoRow(Payloads)
        BY StoreKept DEF StoreOK, TypeOK, OrNoRow
      <4>2. disk'.final[j] # NoRow /\ disk'.final[j] # staged'[j]
        BY <3>2, <4>1, WorkerAssumption DEF OrNoRow
      <4> QED BY <4>2 DEF FinalOf
    <3> QED BY <1>6, <3>1, <3>2
  <2> QED BY <1>3, <1>4, <2>1
<1> QED BY <1>1, <1>5, <1>6, FinalAppears

\* The refinement mapping as functions of the jobs.
Stages == [j \in Jobs |-> StageOf(j)]
Finals == [j \in Jobs |-> FinalOf(j)]

LEMMA StagesMove ==
  ASSUME NEW j \in Jobs, StagesBut(j), NEW s, StageOf(j)' = s
  PROVE  Stages' = [Stages EXCEPT ![j] = s]
  BY DEF Stages, StagesBut

LEMMA FinalsMove ==
  ASSUME NEW j \in Jobs, FinalsBut(j), NEW f, FinalOf(j)' = f
  PROVE  Finals' = [Finals EXCEPT ![j] = f]
  BY DEF Finals, FinalsBut

LEMMA PromiseStep ==
  ASSUME ~SharedLane, BaseInv, ObservedPub, LaneOK, LinkOK, FilesOK, CompletedIsProven,
         [Next]_vars
  PROVE  [Promise!PromiseNext]_(Promise!promiseVars)
<1>1. ASSUME NEW j \in Jobs, StageOf(j)' # StageOf(j)
      PROVE  Promise!PromiseNext
  <2>1. StageMoves(j) /\ StagesBut(j) /\ FinalsStay
    BY <1>1, OneStage
  <2>2. Stages' = [Stages EXCEPT ![j] = StageOf(j)'] /\ Finals' = Finals
    BY <2>1, StagesMove DEF Finals, FinalsStay
  <2>3. Stages[j] = StageOf(j) /\ Finals[j] = FinalOf(j)
    BY DEF Stages, Finals
  <2>4. CASE StageOf(j) = "absent" /\ StageOf(j)' = "open"
    <3>1. Promise!Submit(j)
      BY <2>2, <2>3, <2>4 DEF Promise!Submit, Promise!Move, Stages, Finals
    <3> QED BY <3>1 DEF Promise!PromiseNext
  <2>5. CASE StageOf(j) = "open" /\ StageOf(j)' = "removed"
    <3>1. Promise!Remove(j)
      BY <2>2, <2>3, <2>5 DEF Promise!Remove, Promise!Move, Stages, Finals
    <3> QED BY <3>1 DEF Promise!PromiseNext
  <2>6. CASE /\ StageOf(j) = "open" /\ StageOf(j)' = "completed"
             /\ \E p \in Payloads, live \in BOOLEAN : CompletePublication(j, p, live)
    <3>1. FinalOf(j) = "ours"
      BY <2>6, CompletedHere
    <3>2. Promise!Complete(j)
      BY <2>2, <2>3, <2>6, <3>1 DEF Promise!Complete, Promise!Move, Stages, Finals
    <3> QED BY <3>2 DEF Promise!PromiseNext
  <2> QED BY <2>1, <2>4, <2>5, <2>6 DEF StageMoves
<1>2. ASSUME NEW j \in Jobs, FinalOf(j)' # FinalOf(j)
      PROVE  Promise!PromiseNext
  <2>1. /\ StagesStay /\ FinalsBut(j)
        /\ \/ StageOf(j) = "open" /\ FinalOf(j) = "none" /\ FinalOf(j)' = "ours"
           \/ FinalOf(j)' \in {"none", "foreign"}
    BY <1>2, OneFinal
  <2>2. Finals' = [Finals EXCEPT ![j] = FinalOf(j)'] /\ Stages' = Stages
    BY <2>1, FinalsMove DEF Stages, StagesStay
  <2>3. Stages[j] = StageOf(j) /\ Finals[j] = FinalOf(j)
    BY DEF Stages, Finals
  <2>4. CASE StageOf(j) = "open" /\ FinalOf(j) = "none" /\ FinalOf(j)' = "ours"
    <3>1. Promise!Publish(j)
      BY <2>2, <2>3, <2>4 DEF Promise!Publish, Stages, Finals
    <3> QED BY <3>1 DEF Promise!PromiseNext
  <2>5. CASE FinalOf(j)' \in {"none", "foreign"}
    <3>1. Promise!Others(j)
      BY <2>2, <2>5 DEF Promise!Others, Stages, Finals
    <3> QED BY <3>1 DEF Promise!PromiseNext
  <2> QED BY <2>1, <2>4, <2>5
<1>3. CASE StagesStay /\ FinalsStay
  BY <1>3 DEF Promise!promiseVars, StagesStay, FinalsStay
<1> QED BY <1>1, <1>2, <1>3 DEF StagesStay, FinalsStay

(***************************************************************************)
(* The store and the worker together implement DownloadPromise: for any    *)
(* number of jobs, requests and payloads, and through every interleaving   *)
(* of commands, observer, engine, file system, crash and restart, a final  *)
(* file is created only for an open job and only where there was none, and *)
(* a job is reported completed only while its own file is in place.  The   *)
(* hypothesis is that of LinkYields: with a shared lane a removed job's    *)
(* file may still appear (README, disagreement 12).                        *)
(***************************************************************************)
THEOREM PromiseKept ==
  ASSUME ~SharedLane
  PROVE  Spec => KeepsPromise
<1>1. Init => Promise!PromiseInit
  <2>1. ASSUME Init, NEW j \in Jobs
        PROVE  StageOf(j) = "absent" /\ FinalOf(j) = "none"
    BY <2>1, FinalNames DEF Init, StoreInit, StageOf, Stored
  <2> QED BY <2>1 DEF Promise!PromiseInit
<1>2. BaseInv /\ ObservedPub /\ LaneOK /\ LinkOK /\ FilesOK /\ CompletedIsProven
        /\ [Next]_vars => [Promise!PromiseNext]_(Promise!promiseVars)
  BY PromiseStep
<1>3. Spec => []CompletedIsProven
  BY WorkerKeepsStore, CompletionProven, PTL
<1> QED BY <1>1, <1>2, <1>3, BaseHolds, MovesHold, LinkHolds, FilesHold, PTL
        DEF Spec, KeepsPromise, Promise!PromiseSpec

-----------------------------------------------------------------------------
(* Pending recoveries and the jobs at work: what the store holds as going  *)
(* on is in the owner's hands.                                             *)

\* AdvancePointers leaves no request pending where it moves an attempt.
LEMMA AdvancedRests ==
  ASSUME TypeOK, NEW S, NEW kept, AdvancePointers(S, kept), NEW k \in Jobs,
         Eligible(k)', attempt'[k].pending # NoRow
  PROVE  k \notin S /\ attempt'[k] = attempt[k] /\ Eligible(k)
<1>1. CASE k \in S /\ Eligible(k)
  <2>1. PICK b \in BOOLEAN : attempt'[k] = Advanced(k, b)
    BY <1>1 DEF AdvancePointers
  <2>2. attempt[k] \in AttemptRow
    BY <1>1 DEF Eligible, TypeOK
  <2>3. attempt'[k].pending = NoRow
    BY <2>1, <2>2 DEF Advanced, AttemptRow
  <2> QED BY <2>3
<1>2. CASE ~(k \in S /\ Eligible(k))
  <2>1. attempt'[k] = attempt[k]
    BY <1>2 DEF AdvancePointers
  <2> QED BY <1>2, <2>1 DEF Eligible
<1> QED BY <1>1, <1>2

\* An attempt keeps its pending request only with its row, unless it was
\* just admitted.
LEMMA PendingStays ==
  ASSUME TypeOK, EligibleIsCurrent, [StoreNext]_storeVars, NEW k \in Jobs,
         Eligible(k)', attempt'[k].pending # NoRow,
         ~\E r \in Requests : AdmitRecovery(r, k)
  PROVE  Eligible(k) /\ attempt'[k].pending = attempt[k].pending /\ job'[k] = job[k]
<1>a. Eligible(k) => Stored(k) /\ job[k].state \in {"finalizing", "paused"}
  BY DEF EligibleIsCurrent
<1>s. /\ "finalizing" \notin BodyStates \cup {"queued"} /\ "paused" \notin BodyStates \cup {"queued"}
  BY DEF BodyStates
<1>1. ASSUME attempt'[k] = attempt[k], Eligible(k) => job'[k] = job[k]
      PROVE  Eligible(k) /\ attempt'[k].pending = attempt[k].pending /\ job'[k] = job[k]
  BY <1>1 DEF Eligible
<1>2. ASSUME NEW S, NEW kept, AdvancePointers(S, kept), k \notin S => job'[k] = job[k]
      PROVE  Eligible(k) /\ attempt'[k].pending = attempt[k].pending /\ job'[k] = job[k]
  BY <1>2, AdvancedRests
<1>3. ASSUME NEW j \in Jobs, JobAdd(j)
      PROVE  attempt'[k] = attempt[k] /\ (Eligible(k) => job'[k] = job[k])
  BY <1>3, <1>a DEF JobAdd, TypeOK
<1>4. ASSUME NEW j \in Jobs, NEW b \in BOOLEAN, SetGateContained(j, b)
      PROVE  Eligible(k) /\ attempt'[k].pending = attempt[k].pending /\ job'[k] = job[k]
  BY <1>4, <1>2 DEF SetGateContained, TypeOK
<1>5. ASSUME NEW j \in Jobs, NEW a \in Actions, NEW contained \in BOOLEAN, NEW b \in BOOLEAN,
             JobControl(j, a, contained, b)
      PROVE  Eligible(k) /\ attempt'[k].pending = attempt[k].pending /\ job'[k] = job[k]
  <2>1. CASE Controlled(job[j], a) # job[j]
    BY <1>5, <1>2, <2>1 DEF JobControl, TypeOK
  <2>2. CASE Controlled(job[j], a) = job[j]
    BY <1>5, <1>2, <2>2 DEF JobControl, TypeOK
  <2> QED BY <2>1, <2>2
<1>6. ASSUME NEW r \in Requests, NEW j \in Jobs, NEW ready \in BOOLEAN, NEW due \in BOOLEAN,
             AdmitDispatch(r, j, ready, due)
      PROVE  attempt'[k] = attempt[k] /\ (Eligible(k) => job'[k] = job[k])
  BY <1>6, <1>a, <1>s DEF AdmitDispatch, DispatchVerdict, TypeOK
<1>7. ASSUME NEW r \in Requests, NEW j \in Jobs, AdmitRecovery(r, j)
      PROVE  attempt'[k] = attempt[k] /\ (Eligible(k) => job'[k] = job[k])
  <2>1. j # k
    BY <1>7
  <2> QED BY <1>7, <2>1 DEF AdmitRecovery, TypeOK
<1>8. ASSUME NEW r \in Requests, AdvanceToDownloading(r)
      PROVE  attempt'[k] = attempt[k] /\ (Eligible(k) => job'[k] = job[k])
  <2>1. job[receipt[r].job].state = "resolving"
    BY <1>8 DEF AdvanceToDownloading, OwnsPending, AtRow, Fence
  <2> QED BY <1>8, <1>a, <2>1 DEF AdvanceToDownloading, TypeOK
<1>9. ASSUME NEW r \in Requests, AbortDispatch(r)
      PROVE  attempt'[k] = attempt[k] /\ (Eligible(k) => job'[k] = job[k])
  BY <1>9, <1>a, <1>s DEF AbortDispatch, TypeOK
<1>10. ASSUME NEW r \in Requests, FinalizeTerminal(r) \/ \E s \in FailureStates : FailTerminal(r, s)
       PROVE  attempt'[k] = attempt[k] /\ (Eligible(k) => job'[k] = job[k])
  <2>1. job[receipt[r].job].state = "downloading"
    BY <1>10 DEF FinalizeTerminal, FailTerminal, TerminalOwner, AtRow, Fence
  <2> QED BY <1>10, <1>a, <2>1 DEF FinalizeTerminal, FailTerminal, TypeOK
<1>11. ASSUME NEW r \in Requests, NEW p \in Payloads, ReservePublication(r, p)
       PROVE  attempt'[k] = attempt[k] /\ (Eligible(k) => job'[k] = job[k])
  <2>1. CASE receipt[r].job = k
    <3>1. attempt'[k] = [status |-> "eligible", orig |-> r, at |-> Fence(job[k]),
                         epoch |-> epoch, pending |-> NoRow]
      BY <1>11, <2>1 DEF ReservePublication, TypeOK
    <3>2. attempt'[k].pending = NoRow
      BY <3>1
    <3> QED BY <3>2
  <2>2. CASE receipt[r].job # k
    BY <1>11, <2>2 DEF ReservePublication, TypeOK
  <2> QED BY <2>1, <2>2
<1>12. ASSUME NEW j \in Jobs, NEW p \in Payloads, NEW live \in BOOLEAN,
              CompletePublication(j, p, live)
       PROVE  attempt'[k] = attempt[k] /\ (Eligible(k) => job'[k] = job[k])
  <2>1. CASE j = k
    <3>1. attempt[k] \in AttemptRow
      BY <1>12, <2>1 DEF CompletePublication, PointerCurrent, Eligible, TypeOK
    <3>2. attempt'[k] = [attempt[k] EXCEPT !.status = "finished", !.at = Fence(job'[k]),
                                           !.pending = NoRow]
      BY <1>12, <2>1 DEF CompletePublication, TypeOK
    <3>3. attempt'[k].pending = NoRow
      BY <3>1, <3>2 DEF AttemptRow
    <3> QED BY <3>3
  <2>2. CASE j # k
    BY <1>12, <2>2 DEF CompletePublication, TypeOK
  <2> QED BY <2>1, <2>2
<1>13. ASSUME NEW r \in Requests, AbortRecovery(r)
       PROVE  attempt'[k] = attempt[k] /\ (Eligible(k) => job'[k] = job[k])
  <2>1. CASE attempt'[k] = attempt[k]
    BY <1>13, <2>1 DEF AbortRecovery
  <2>2. CASE attempt'[k] # attempt[k]
    <3>1. attempt[k] # NoRow /\ attempt'[k] = [attempt[k] EXCEPT !.pending = NoRow]
      BY <1>13, <2>2 DEF AbortRecovery, TypeOK
    <3>2. attempt'[k].pending = NoRow
      BY <3>1 DEF TypeOK, AttemptRow
    <3> QED BY <3>2
  <2> QED BY <2>1, <2>2
<1>14. ASSUME NEW j \in Jobs, NEW b \in BOOLEAN, PauseActive(j, b)
       PROVE  Eligible(k) /\ attempt'[k].pending = attempt[k].pending /\ job'[k] = job[k]
  BY <1>14, <1>2 DEF PauseActive, TypeOK
<1>15. CASE RecoverCold
  <2>1. AdvancePointers({j \in Jobs : Stored(j)}, {j \in Jobs : PointerCurrent(j)})
    BY <1>15 DEF RecoverCold
  <2>2. ~Stored(k) => job'[k] = job[k]
    BY <1>15 DEF RecoverCold, Open
  <2> QED BY <1>2, <2>1, <2>2
<1>16. CASE UNCHANGED <<job, attempt>>
  BY <1>1, <1>16
<1> QED
  BY <1>1, <1>3, <1>4, <1>5, <1>6, <1>7, <1>8, <1>9, <1>10, <1>11, <1>12, <1>13, <1>14, <1>15, <1>16
  DEF StoreNext, storeVars, SetGate, RefuseDispatch, ReplayPending, FinishDispatch, BindStaged,
      AdvanceClaim, ClearClaim, ActivateCleanup, AdvanceCleanup

\* A cold start leaves no request pending.
LEMMA ColdStartSettles ==
  ASSUME TypeOK, EligibleIsCurrent, RecoverCold, NEW k \in Jobs, Eligible(k)'
  PROVE  attempt'[k].pending = NoRow
<1>1. AdvancePointers({j \in Jobs : Stored(j)}, {j \in Jobs : PointerCurrent(j)})
  BY DEF RecoverCold
<1>2. SUFFICES ASSUME attempt'[k].pending # NoRow
               PROVE  FALSE
  OBVIOUS
<1>3. k \notin {j \in Jobs : Stored(j)} /\ Eligible(k)
  BY <1>1, <1>2, AdvancedRests
<1> QED BY <1>3 DEF EligibleIsCurrent

\* A step that neither admits a recovery nor reserves a publication.
Settling ==
  \/ UNCHANGED attempt
  \/ \E S, kept : AdvancePointers(S, kept)
  \/ \E q \in Requests : AbortRecovery(q)
  \/ \E j \in Jobs, p \in Payloads, live \in BOOLEAN : CompletePublication(j, p, live)

LEMMA SettlingAdmitsNone ==
  ASSUME TypeOK, EligibleIsCurrent, [StoreNext]_storeVars, Settling
  PROVE  /\ \A r \in Requests, k \in Jobs : ~AdmitRecovery(r, k)
         /\ \A k \in Jobs : Eligible(k)' => Eligible(k)
<1>1. ASSUME NEW r \in Requests, NEW k \in Jobs, AdmitRecovery(r, k)
      PROVE  FALSE
  <2>1. /\ receipt[r] = NoRow /\ receipt'[r] # NoRow
        /\ Eligible(k) /\ attempt[k].pending = NoRow
    <3>1. Stored(k) /\ receipt'[r] = Receipt(k, "pending", Fence(job[k]))
      BY <1>1 DEF AdmitRecovery, TypeOK
    <3>2. receipt'[r] # NoRow
      BY <3>1, StoredIsRow, ReceiptIsRow, NoRowAssumption
    <3> QED BY <1>1, <3>2 DEF AdmitRecovery, DispatchVerdict
  <2>2. attempt[k] \in AttemptRow /\ attempt'[k] = [attempt[k] EXCEPT !.pending = r]
    BY <1>1, <2>1 DEF AdmitRecovery, Eligible, TypeOK
  <2>3. attempt'[k].pending = r /\ r # NoRow
    BY <2>2, NoRowAssumption DEF AttemptRow
  <2>4. CASE \E S, kept : AdvancePointers(S, kept)
    BY <2>1, <2>4 DEF AdvancePointers, Pending
  <2>5. ASSUME NEW q \in Requests, AbortRecovery(q)
        PROVE  FALSE
    BY <2>1, <2>5 DEF AbortRecovery, TypeOK
  <2>6. ASSUME NEW j \in Jobs, NEW p \in Payloads, NEW live \in BOOLEAN,
               CompletePublication(j, p, live)
        PROVE  FALSE
    <3>1. r = attempt[j].pending
      BY <2>1, <2>6 DEF CompletePublication
    <3>2. Current(j) /\ Eligible(j)
      BY <2>6 DEF CompletePublication, PointerCurrent, Current, EligibleIsCurrent
    <3>3. Pending(attempt[j].pending)
      BY <2>3, <3>1, <3>2, PendingIsOwn
    <3> QED BY <2>1, <3>1, <3>3 DEF Pending
  <2> QED BY <2>1, <2>3, <2>4, <2>5, <2>6 DEF Settling
<1>2. ASSUME NEW k \in Jobs, Eligible(k)', ~Eligible(k)
      PROVE  FALSE
  <2>1. CASE \E S, kept : AdvancePointers(S, kept)
    BY <1>2, <2>1 DEF AdvancePointers, Eligible
  <2>2. ASSUME NEW q \in Requests, AbortRecovery(q)
        PROVE  FALSE
    <3>1. attempt[k] # NoRow /\ attempt'[k] = [attempt[k] EXCEPT !.pending = NoRow]
      BY <1>2, <2>2 DEF AbortRecovery, Eligible, TypeOK
    <3> QED BY <1>2, <3>1 DEF Eligible, TypeOK, AttemptRow
  <2>3. ASSUME NEW j \in Jobs, NEW p \in Payloads, NEW live \in BOOLEAN,
               CompletePublication(j, p, live)
        PROVE  FALSE
    <3>1. Eligible(j) /\ k # j
      BY <1>2, <2>3 DEF CompletePublication, PointerCurrent
    <3>2. attempt'[k] = attempt[k]
      BY <2>3, <3>1 DEF CompletePublication, TypeOK
    <3> QED BY <1>2, <3>2 DEF Eligible
  <2> QED BY <1>2, <2>1, <2>2, <2>3 DEF Settling, Eligible
<1> QED BY <1>1, <1>2

\* Only these two steps of the worker do.
Recovering == \E r \in Requests, j \in Jobs : ServeRecovery(r, j)
LEMMA AttemptsSettle ==
  ASSUME BaseInv, [Next]_vars
  PROVE  Settling \/ Recovering \/ ReapPreparation
<1>1. CASE Serve
  BY <1>1 DEF Serve, ServeAdd, ServeControl, ServeContainedControl, ServeGate, ServeGatePause,
     RefuseInFlight, ContainmentFails, ActivateReserve, ActivateDiscard, ServeDispatchRefused,
     ServeDispatch, ServeReplay, JobAdd, JobControl, SetGate, SetGateContained, AdvanceClaim,
     ClearClaim, RefuseDispatch, AdmitDispatch, ReplayPending, storeVars, Settling, Recovering
<1>2. CASE Continue
  <2>1. CASE ServeRecoveryRefused
    BY <2>1 DEF ServeRecoveryRefused, BaseInv, StepOK, Settling
  <2> QED BY <1>2, <2>1 DEF Continue, ActivateLaunch, ActivateBind, ActivateReady, ActivateFail,
     DispatchAdd, DispatchAdvance, DispatchResume, DispatchFinish, DispatchFail, Retire,
     AdvanceClaim, ClearClaim, AdvanceToDownloading, FinishDispatch, AbortDispatch, storeVars,
     Settling
<1>3. CASE Poll
  <2>1. ASSUME NEW fence, NEW recoverable, PauseTracked(fence, recoverable)
        PROVE  Settling
    BY <2>1 DEF PauseTracked, Die, PauseActive, storeVars, Settling
  <2>2. CASE ReapTerminal
    BY <2>1, <2>2 DEF ReapTerminal, CloseWithoutPersist, FinalizeTerminal, FailTerminal, Die,
                      storeVars, Settling
  <2>3. CASE ReapStage
    BY <2>1, <2>3 DEF ReapStage, CloseWithoutPersist, BindStaged, storeVars, Settling
  <2>4. CASE ReapPublished
    <3>1. own.pub.job \in Jobs /\ CompletePublication(own.pub.job, obs.pay, own.pub.rec = NoRow)
      BY <2>4, Arguments DEF ReapPublished, ReapingPublication, BaseInv
    <3>2. Eligible(own.pub.job) /\ staged[own.pub.job] = obs.pay
      BY <3>1 DEF CompletePublication, PointerCurrent
    <3>3. obs.pay \in Payloads
      BY <3>1, <3>2 DEF BaseInv, StoreOK, AttemptIsStaged, Eligible
    <3> QED BY <3>1, <3>3 DEF Settling
  <2>5. CASE ReapUnpublished
    <3>1. own.pub.rec \in OrNoRow(Requests)
      BY <2>5, Arguments DEF ReapUnpublished, ReapingPublication, BaseInv
    <3>2. CASE own.pub.rec # NoRow
      BY <2>5, <3>1, <3>2 DEF ReapUnpublished, OrNoRow, Settling
    <3>3. CASE own.pub.rec = NoRow
      BY <2>1, <2>5, <3>3 DEF ReapUnpublished
    <3> QED BY <3>2, <3>3
  <2> QED BY <1>3, <2>2, <2>3, <2>4, <2>5
          DEF Poll, RetireAfterObserver, ClearClaim, LaunchPreparation, LaunchPublication,
              LaunchTransfer, Launch, PollIdle, ReapVoid, ReapRevokedPublication, storeVars,
              Settling
<1>4. CASE Observe \/ EngineStep \/ \E j \in Jobs : Tamper(j)
  BY <1>4, ObserveStore DEF storeVars, Settling
<1>5. CASE Lifecycle
  <2>1. own.pub # NoRow => own.pub.rec \in OrNoRow(Requests)
    BY Arguments DEF BaseInv
  <2> QED BY <1>5, <2>1 DEF Lifecycle, Stop, Shutdown, ShutdownPersist, ShutdownClear, Crash,
     ColdStart, RecoverEngine, PauseActive, RecoverCold, ClearClaim, storeVars, OrNoRow, Settling
<1>6. CASE UNCHANGED vars
  BY <1>6 DEF vars, Settling
<1> QED BY <1>1, <1>2, <1>3, <1>4, <1>5, <1>6 DEF Next

\* How the owner's publication changes while there is one: it stays, a command
\* withdraws it, a reaped result marks or replaces it, or a recovery begins.
Begins(r, j) ==
  /\ own.pub = NoRow /\ obs = NoRow
  /\ own'.plan = own.plan /\ own'.closeAfter = own.closeAfter
  /\ own'.pub # NoRow /\ own'.pub.job = j /\ own'.pub.rec = r /\ ~own'.pub.seen
  /\ own'.pub.gen = job[j].gen /\ own'.pub.rev = job[j].rev
PublicationTurns == own'.pub # NoRow =>
  \/ own'.pub = own.pub
  \/ /\ own.pub # NoRow /\ own'.pub.seen = own.pub.seen /\ own'.pub.rec = NoRow
     /\ obs' \in {obs, NoRow}
  \/ obs' = NoRow /\ own'.pub.rec = NoRow
  \/ \E r \in Requests, j \in Jobs : ServeRecovery(r, j) /\ Begins(r, j)

LEMMA RecoveryBegins ==
  ASSUME BaseInv, NEW r \in Requests, NEW j \in Jobs, ServeRecovery(r, j)
  PROVE  \/ Begins(r, j) /\ own'.work = own.work /\ own'.blocked = own.blocked
         \/ own' = own /\ pc' = "unrecover" /\ disp' = r /\ (obs # NoRow \/ own.pub # NoRow \/ SharedLane)
<1>0. OwnerShape(own)
  BY DEF BaseInv, ProcessOK
<1> DEFINE p == [job |-> j, gen |-> job[j].gen, rev |-> job[j].rev,
                 rec |-> r, stage |-> FALSE, seen |-> FALSE]
<1>1. CASE own.pub = NoRow /\ obs = NoRow /\ own' = [own EXCEPT !.cancel = FALSE, !.pub = p]
  <2>1. p \in PublicationRow
    <3>1. job[j] \in JobRow
      BY StoredIsRow DEF ServeRecovery, AdmitRecovery, BaseInv, StoreOK
    <3> QED BY <3>1 DEF PublicationRow, OrNoRow, JobRow
  <2>2. /\ p.job = j /\ p.rec = r /\ ~p.seen /\ ~p.stage
        /\ p.gen = job[j].gen /\ p.rev = job[j].rev /\ p # NoRow
    BY <2>1, Records
  <2> HIDE DEF p
  <2>3. /\ \A f \in {"ctl", "blocked", "closeAfter", "plan", "work", "permit"} : own'[f] = own[f]
        /\ own'.pub = p
    BY <1>0, <1>1, <2>1, <2>2, RecoveringShape
  <2> QED BY <1>1, <2>2, <2>3 DEF Begins
<1>2. CASE own' = own /\ pc' = "unrecover" /\ disp' = r /\ (obs # NoRow \/ own.pub # NoRow \/ SharedLane)
  BY <1>2
<1> QED BY <1>1, <1>2 DEF ServeRecovery, LaneFree

LEMMA ServeTurns ==
  ASSUME BaseInv, Serve
  PROVE  PublicationTurns
<1>0. OwnerShape(own)
  BY DEF BaseInv, ProcessOK
<1>1. CASE own'.pub = own.pub
  BY <1>1 DEF PublicationTurns
<1>2. CASE RefuseInFlight
  BY <1>0, <1>1, <1>2, RevokedShape DEF RefuseInFlight
<1>3. ASSUME ~LinkInFlight, CloseOwned([Withdrawn(own) EXCEPT !.pub = NoRow])
      PROVE  PublicationTurns
  <2>1. own' = Dropped(own) \/ own' = Closing(Dropped(own), ObsAlive)
    BY <1>3 DEF CloseOwned, Closing, Dropped
  <2>2. OwnerShape(Dropped(own)) /\ Dropped(own).pub = NoRow
    BY <1>0, <1>3, DroppedShape DEF LinkInFlight
  <2>3. own'.pub = NoRow
    <3>1. ObsAlive \in BOOLEAN
      BY DEF ObsAlive
    <3> QED BY <2>1, <2>2, <3>1, ClosingShape
  <2> QED BY <2>3 DEF PublicationTurns
<1>4. CASE ContainmentFails
  <2>1. /\ own' = Withdrawn(own) \/ own' = Stuck(Withdrawn(own))
        /\ obs' \in {obs, NoRow}
    <3>1. CASE own.ctl = "none"
      BY <1>4, <3>1 DEF ContainmentFails
    <3>2. CASE own.ctl # "none"
      BY <1>4, <3>2 DEF ContainmentFails, Stuck
    <3> QED BY <3>1, <3>2
  <2>2. /\ OwnerShape(Withdrawn(own))
        /\ (Withdrawn(own).pub = NoRow) = (own.pub = NoRow)
        /\ own.pub # NoRow => /\ Withdrawn(own).pub.rec = NoRow
                              /\ Withdrawn(own).pub.seen = own.pub.seen
    BY <1>0, <1>4, WithdrawnShape DEF ContainmentFails, LinkInFlight
  <2>3. own'.pub = Withdrawn(own).pub
    BY <2>1, <2>2, StuckShape
  <2> QED BY <2>1, <2>2, <2>3 DEF PublicationTurns
<1>5. CASE ActivateDiscard
  BY <1>0, <1>1, <1>5, ClearedShape DEF ActivateDiscard
<1>6. ASSUME NEW r \in Requests, NEW j \in Jobs, ServeRecovery(r, j)
      PROVE  PublicationTurns
  BY <1>1, <1>6, RecoveryBegins DEF PublicationTurns
<1>7. ASSUME NEW j \in Jobs, NEW a \in Actions, ServeContainedControl(j, a)
      PROVE  PublicationTurns
  BY <1>2, <1>3, <1>7 DEF ServeContainedControl
<1>8. CASE ServeGatePause
  BY <1>2, <1>3, <1>4, <1>8 DEF ServeGatePause
<1> QED BY <1>1, <1>5, <1>6, <1>7, <1>8
        DEF Serve, ServeAdd, ServeControl, ServeGate, ServeDispatchRefused, ServeDispatch,
            ServeReplay, Served, ActivateReserve

LEMMA ContinueTurns ==
  ASSUME BaseInv, Continue
  PROVE  own'.pub = own.pub
<1>0. OwnerShape(own)
  BY DEF BaseInv, ProcessOK
<1>1. CASE ActivateReady
  BY <1>0, <1>1 DEF ActivateReady, OwnerShape, OwnerRow
<1>2. CASE DispatchResume
  BY <1>0, <1>2 DEF DispatchResume, OwnerShape, OwnerRow
<1>3. CASE DispatchFail
  <2>1. own' = ClosedOwner(own) \/ own' = Stuck(own)
    BY <1>3 DEF DispatchFail, Stuck
  <2> QED BY <1>0, <2>1, ClosedShape, StuckShape
<1>4. CASE Retire
  BY <1>0, <1>4, ClearedShape DEF Retire
<1> QED BY <1>1, <1>2, <1>3, <1>4
        DEF Continue, ActivateLaunch, ActivateBind, ActivateFail, DispatchAdd, DispatchAdvance,
            DispatchFinish, ServeRecoveryRefused

LEMMA PollTurns ==
  ASSUME BaseInv, Poll
  PROVE  PublicationTurns
<1>0. OwnerShape(own)
  BY DEF BaseInv, ProcessOK
<1>1. CASE own'.pub = own.pub
  BY <1>1 DEF PublicationTurns
<1>2. CASE own'.pub = NoRow
  BY <1>2 DEF PublicationTurns
<1>3. CASE RetireAfterObserver \/ CloseReaped(own)
  BY <1>0, <1>1, <1>3, ClearedShape, ClosedShape DEF RetireAfterObserver, CloseReaped
<1>4. CASE CloseReaped(Idled) \/ CloseReaped(PublicationDropped) \/ own' = PublicationDropped
  <2>1. own'.pub = NoRow
    BY <1>0, <1>4, ClosedShape, IdledShape, PublicationDroppedShape DEF CloseReaped
  <2> QED BY <1>2, <2>1
<1>d. CASE Die
  BY <1>2, <1>d, NewOwnerShape DEF Die
<1>5. ASSUME NEW fence, NEW recoverable, PauseTracked(fence, recoverable)
      PROVE  PublicationTurns
  BY <1>d, <1>4, <1>5 DEF PauseTracked, Idled
<1>6. CASE ReapTerminal
  <2>1. ASSUME PlanCurrent, obs.res = "ok", FinalizeTerminal(own.plan.req),
               own' = [own EXCEPT !.plan.rev = @ + 1, !.work = "stage", !.pay = obs.pay]
        PROVE  own'.pub = own.pub
    BY <1>6, <2>1, TerminalFinalized DEF ReapTerminal
  <2> QED BY <1>1, <1>d, <1>3, <1>5, <1>6, <2>1 DEF ReapTerminal, CloseWithoutPersist
<1>7. CASE ReapStage
  <2>1. ASSUME own' = [own EXCEPT !.work = "prepare", !.cancel = FALSE]
        PROVE  own'.pub = own.pub
    BY <1>0, <2>1 DEF OwnerShape, OwnerRow
  <2> QED BY <1>1, <1>3, <1>5, <1>7, <2>1 DEF ReapStage, CloseWithoutPersist
<1>8. CASE ReapPreparation
  <2> DEFINE p == [job |-> own.plan.job, gen |-> own.plan.gen, rev |-> own.plan.rev,
                   rec |-> NoRow, stage |-> TRUE, seen |-> FALSE]
  <2>1. ASSUME obs' = NoRow, own' = [own EXCEPT !.work = "none", !.permit = FreshPermit, !.pub = p]
        PROVE  PublicationTurns
    <3>1. p.rec = NoRow
      OBVIOUS
    <3> HIDE DEF p
    <3>2. own'.pub = p
      BY <1>0, <2>1 DEF OwnerShape, OwnerRow
    <3> QED BY <2>1, <3>1, <3>2 DEF PublicationTurns
  <2> QED BY <1>5, <1>8, <2>1 DEF ReapPreparation
<1>9. CASE ReapRevokedPublication
  <2>1. own'.pub.rec = own.pub.rec /\ own.pub.rec = NoRow /\ obs' = NoRow
    BY <1>0, <1>9, SeenShape DEF ReapRevokedPublication, ReapingPublication, PublicationValid
  <2> QED BY <2>1 DEF PublicationTurns
<1>10. CASE ReapPublished
  BY <1>4, <1>10 DEF ReapPublished
<1>11. CASE ReapUnpublished
  BY <1>4, <1>5, <1>11 DEF ReapUnpublished
<1> QED BY <1>1, <1>3, <1>6, <1>7, <1>8, <1>9, <1>10, <1>11
        DEF Poll, LaunchPreparation, LaunchPublication, LaunchTransfer, Launch, PollIdle, ReapVoid

LEMMA ThreadTurns ==
  ASSUME BaseInv, Observe \/ EngineStep \/ \E j \in Jobs : Tamper(j)
  PROVE  own'.pub = own.pub
<1>0. own \in OwnerRow
  BY DEF BaseInv, ProcessOK, OwnerShape
<1> QED BY <1>0 DEF Observe, ObserveTerminal, ObserveFiles, ObserveFail, PublishEnter, PublishLink,
            PublishVerify, EngineStep, Tamper, OwnerRow

LEMMA LifecycleTurns ==
  ASSUME BaseInv, Lifecycle
  PROVE  own'.pub = own.pub \/ own' \in {NewOwner(FALSE), NewOwner(TRUE)}
<1>0. OwnerShape(own)
  BY DEF BaseInv, ProcessOK
<1>1. CASE Shutdown
  BY <1>0, <1>1, CancelledShape DEF Shutdown
<1> QED BY <1>1
        DEF Lifecycle, Stop, ShutdownPersist, ShutdownClear, Crash, ColdStart, RecoverEngine

LEMMA PublicationStep ==
  ASSUME BaseInv, [Next]_vars
  PROVE  PublicationTurns
<1>1. CASE own'.pub = own.pub \/ own' \in {NewOwner(FALSE), NewOwner(TRUE)}
  BY <1>1, NewOwnerShape DEF PublicationTurns
<1>2. CASE UNCHANGED vars
  BY <1>1, <1>2 DEF vars
<1> QED BY <1>1, <1>2, ServeTurns, ContinueTurns, PollTurns, ThreadTurns, LifecycleTurns DEF Next

\* A publication whose result was voided recovers nothing and is not observed
\* again; a recovery is of a request of its job.
PublicationFresh ==
  own.pub # NoRow =>
    /\ own.pub.seen => own.pub.rec = NoRow
    /\ obs # NoRow /\ obs.kind \in {"publish", "recover"} => ~own.pub.seen
    /\ own.pub.rec # NoRow => receipt[own.pub.rec] # NoRow

LEMMA FreshStep ==
  ASSUME BaseInv, PublicationFresh, [Next]_vars
  PROVE  PublicationFresh'
<1>1. PublicationTurns /\ ObserverMoves
  BY PublicationStep, MovesStep
<1>2. [StoreNext]_storeVars /\ TypeOK /\ EligibleIsCurrent
  BY StoreStep DEF BaseInv, StoreOK
<1>3. SUFFICES ASSUME own'.pub # NoRow
               PROVE  /\ own'.pub.seen => own'.pub.rec = NoRow
                      /\ obs' # NoRow /\ obs'.kind \in {"publish", "recover"} => ~own'.pub.seen
                      /\ own'.pub.rec # NoRow => receipt'[own'.pub.rec] # NoRow
  BY DEF PublicationFresh
<1>4. CASE own'.pub = own.pub
  <2>1. own.pub # NoRow /\ own.pub.rec \in OrNoRow(Requests)
    BY <1>3, <1>4, Arguments DEF BaseInv
  <2>2. own'.pub.rec # NoRow => receipt'[own'.pub.rec] # NoRow
    BY <1>2, <1>4, <2>1, ReceiptStays DEF PublicationFresh, OrNoRow
  <2>3. ASSUME obs' # NoRow, obs'.kind \in {"publish", "recover"}
        PROVE  ~own'.pub.seen
    <3>1. CASE obs # NoRow /\ obs'.kind = obs.kind
      BY <1>4, <2>1, <2>3, <3>1 DEF PublicationFresh
    <3>2. CASE LaunchPublication
      BY <1>4, <3>2 DEF LaunchPublication, PubWaiting
    <3>3. CASE LaunchPreparation
      BY <2>3, <3>3 DEF LaunchPreparation, Launch
    <3>4. CASE LaunchTransfer
      BY <2>3, <3>4 DEF LaunchTransfer, Launch
    <3> QED BY <1>1, <2>3, <3>1, <3>2, <3>3, <3>4 DEF ObserverMoves
  <2> QED BY <1>4, <2>1, <2>2, <2>3 DEF PublicationFresh
<1>5. CASE /\ own.pub # NoRow /\ own'.pub.seen = own.pub.seen /\ own'.pub.rec = NoRow
           /\ obs' \in {obs, NoRow}
  BY <1>5 DEF PublicationFresh
<1>6. CASE obs' = NoRow /\ own'.pub.rec = NoRow
  BY <1>6
<1>7. ASSUME NEW r \in Requests, NEW j \in Jobs, ServeRecovery(r, j), Begins(r, j)
      PROVE  /\ own'.pub.seen => own'.pub.rec = NoRow
             /\ obs' # NoRow /\ obs'.kind \in {"publish", "recover"} => ~own'.pub.seen
             /\ own'.pub.rec # NoRow => receipt'[own'.pub.rec] # NoRow
  <2>1. Stored(j) /\ receipt'[r] = Receipt(j, "pending", Fence(job[j]))
    BY <1>7 DEF ServeRecovery, AdmitRecovery, BaseInv, StoreOK, TypeOK
  <2>2. receipt'[r] # NoRow
    BY <1>2, <2>1, StoredIsRow, ReceiptIsRow, NoRowAssumption
  <2> QED BY <1>7, <2>2 DEF Begins
<1> QED BY <1>1, <1>3, <1>4, <1>5, <1>6, <1>7 DEF PublicationTurns

\* The recovery in the owner's hands was made for its job's present row.
RecoveryAtRow ==
  own.pub # NoRow /\ own.pub.rec # NoRow /\ Eligible(own.pub.job)
    /\ attempt[own.pub.job].pending = own.pub.rec =>
  own.pub.gen = job[own.pub.job].gen /\ own.pub.rev = job[own.pub.job].rev

LEMMA RecoveryRowStep ==
  ASSUME BaseInv, PublicationFresh, RecoveryAtRow, [Next]_vars
  PROVE  RecoveryAtRow'
<1>1. PublicationTurns
  BY PublicationStep
<1>2. [StoreNext]_storeVars /\ TypeOK /\ EligibleIsCurrent
  BY StoreStep DEF BaseInv, StoreOK
<1>3. SUFFICES ASSUME NEW k, k = own'.pub.job, own'.pub # NoRow, own'.pub.rec # NoRow,
                      Eligible(k)', attempt'[k].pending = own'.pub.rec
               PROVE  own'.pub.gen = job'[k].gen /\ own'.pub.rev = job'[k].rev
  BY DEF RecoveryAtRow, Eligible
<1>4. CASE own'.pub = own.pub
  <2>1. k \in Jobs /\ own.pub # NoRow /\ own.pub.rec # NoRow /\ own.pub.job = k
    BY <1>3, <1>4, Arguments DEF BaseInv
  <2>2. ASSUME NEW r \in Requests, AdmitRecovery(r, k)
        PROVE  FALSE
    <3>1. attempt'[k].pending = r /\ receipt[r] = NoRow
      <4>1. attempt[k] \in AttemptRow /\ attempt'[k] = [attempt[k] EXCEPT !.pending = r]
        BY <1>2, <2>1, <2>2 DEF AdmitRecovery, DispatchVerdict, Eligible, TypeOK
      <4> QED BY <2>2, <4>1 DEF AttemptRow, AdmitRecovery
    <3> QED BY <1>3, <1>4, <2>1, <3>1 DEF PublicationFresh
  <2>3. Eligible(k) /\ attempt'[k].pending = attempt[k].pending /\ job'[k] = job[k]
    BY <1>2, <1>3, <2>1, <2>2, PendingStays
  <2> QED BY <1>3, <1>4, <2>1, <2>3 DEF RecoveryAtRow
<1>5. ASSUME NEW r \in Requests, NEW j \in Jobs, ServeRecovery(r, j), Begins(r, j)
      PROVE  own'.pub.gen = job'[k].gen /\ own'.pub.rev = job'[k].rev
  BY <1>3, <1>5 DEF Begins, ServeRecovery, AdmitRecovery
<1> QED BY <1>1, <1>3, <1>4, <1>5 DEF PublicationTurns

\* A closed controller that waits for its observer is back in the main loop
\* only with that observer.
AfterMain == pc = "main" /\ own.closeAfter => obs # NoRow

LEMMA AfterMainStep ==
  ASSUME BaseInv, AfterMain, [Next]_vars
  PROVE  AfterMain'
<1>0. OwnerShape(own)
  BY DEF BaseInv, ProcessOK
<1>1. SUFFICES ASSUME pc' = "main", own'.closeAfter
               PROVE  obs' # NoRow
  BY DEF AfterMain
<1>2. CASE pc' = pc /\ own' = own /\ obs' = obs
  BY <1>1, <1>2 DEF AfterMain
<1>3. CASE RetireAfterObserver
  BY <1>0, <1>1, <1>3, ClearedShape DEF RetireAfterObserver
<1>4. CASE PollIdle
  BY <1>1, <1>4 DEF PollIdle, ObsAlive
<1>5. CASE LaunchPreparation \/ LaunchPublication \/ LaunchTransfer
  BY <1>5, LaunchObserves
<1>6. CASE Observe
  BY <1>6, ThreadGoesOn
<1>7. CASE Lifecycle
  <2>1. own' = NewOwner(FALSE) \/ own' = NewOwner(TRUE)
    BY <1>1, <1>7 DEF Lifecycle, Stop, Shutdown, ShutdownPersist, ShutdownClear, Crash,
                      ColdStart, RecoverEngine, BaseInv, StepOK
  <2> QED BY <1>1, <2>1, NewOwnerShape
<1> QED BY <1>1, <1>2, <1>3, <1>4, <1>5, <1>6, <1>7, ServePc, ContinuePc, PollPc
        DEF Next, vars, EngineStep, Tamper

\* A plan whose job has published or may recover goes on only as a publication
\* or until its observer ends, and no recovery is begun beside it.
Spent == own.plan # NoRow /\ Eligible(own.plan.job) =>
  /\ pc \in {"main", "poll", "unrecover"} /\ own.pub = NoRow => own.closeAfter
  /\ own.pub # NoRow => own.pub.rec = NoRow
SpentTurns ==
  own'.plan # NoRow /\ own'.pub = NoRow /\ pc' \in {"main", "poll", "unrecover"} =>
    own'.closeAfter

LEMMA ServeSpent ==
  ASSUME BaseInv, Spent, own.plan # NoRow, Eligible(own.plan.job), Serve
  PROVE  SpentTurns
<1>0. OwnerShape(own) /\ own.ctl # "none"
  BY DEF BaseInv, ProcessOK, OwnerShape
<1>p. pc \in {"main", "activate"} /\ (own.pub = NoRow /\ pc = "main" => own.closeAfter)
  BY DEF Serve, ServeAdd, ServeControl, ServeContainedControl, ServeGate, ServeGatePause,
         ActivateReserve, ActivateDiscard, ServeDispatchRefused, ServeDispatch, ServeRecovery,
         ServeReplay, Served, Serving, Spent
<1>a. pc = "main"
  BY <1>0, <1>p DEF BaseInv, StepOK, Activating
<1>1. CASE own'.pub = own.pub /\ own'.closeAfter = own.closeAfter
  BY <1>1, <1>p, <1>a DEF SpentTurns
<1>2. CASE RefuseInFlight
  BY <1>0, <1>1, <1>2, RevokedShape DEF RefuseInFlight
<1>3. ASSUME ~LinkInFlight, CloseOwned([Withdrawn(own) EXCEPT !.pub = NoRow])
      PROVE  SpentTurns
  <2>1. own' = Closing(Dropped(own), ObsAlive) /\ (pc' \in {"withdraw", "retire"} \/ ObsAlive)
    BY <1>0, <1>3 DEF CloseOwned, Closing, Dropped
  <2>2. ObsAlive \in BOOLEAN
    BY DEF ObsAlive
  <2>3. OwnerShape(Dropped(own))
    BY <1>0, <1>3, DroppedShape DEF LinkInFlight
  <2>4. own'.closeAfter = ObsAlive
    BY <2>1, <2>2, <2>3, ClosingShape
  <2> QED BY <2>1, <2>4 DEF SpentTurns
<1>4. CASE ContainmentFails
  <2>1. own' = Stuck(Withdrawn(own)) /\ ~LinkInFlight
    BY <1>0, <1>4 DEF ContainmentFails, Stuck
  <2>2. /\ OwnerShape(Withdrawn(own)) /\ Withdrawn(own).closeAfter = own.closeAfter
        /\ (Withdrawn(own).pub = NoRow) = (own.pub = NoRow)
    BY <1>0, <2>1, WithdrawnShape DEF LinkInFlight
  <2>3. own'.closeAfter = own.closeAfter /\ (own'.pub = NoRow) = (own.pub = NoRow)
    BY <2>1, <2>2, StuckShape
  <2> QED BY <1>a, <1>p, <2>3 DEF SpentTurns
<1>5. CASE ActivateDiscard
  BY <1>0, <1>5, ClearedShape DEF ActivateDiscard, SpentTurns
<1>6. ASSUME NEW r \in Requests, NEW j \in Jobs, ServeRecovery(r, j)
      PROVE  SpentTurns
  BY <1>1, <1>6, RecoveryBegins DEF Begins, SpentTurns
<1>7. ASSUME NEW j \in Jobs, NEW a \in Actions, ServeContainedControl(j, a)
      PROVE  SpentTurns
  BY <1>2, <1>3, <1>7 DEF ServeContainedControl
<1>8. CASE ServeGatePause
  BY <1>2, <1>3, <1>4, <1>8 DEF ServeGatePause
<1> QED BY <1>1, <1>5, <1>6, <1>7, <1>8
        DEF Serve, ServeAdd, ServeControl, ServeGate, ServeDispatchRefused, ServeDispatch,
            ServeReplay, Served, ActivateReserve

LEMMA ContinueSpent ==
  ASSUME BaseInv, Spent, own.plan # NoRow, Eligible(own.plan.job), Continue
  PROVE  SpentTurns
<1>0. OwnerShape(own) /\ own.ctl # "none"
  BY DEF BaseInv, ProcessOK, OwnerShape
<1>1. pc \notin Activating
  BY <1>0 DEF BaseInv, StepOK
<1>2. pc \notin Dispatching
  <2>1. ASSUME pc \in Dispatching
        PROVE  FALSE
    <3>1. own.plan.req = disp /\ AtRow(disp) /\ receipt[disp].at.state \in BodyStates
      BY <2>1 DEF BaseInv, DispatchOK, Dispatching, BodyStates
    <3>2. job[own.plan.job].state \in BodyStates
      BY <3>1 DEF BaseInv, PlanOK, AtRow, Fence
    <3>3. own.plan.job \in Jobs
      BY Arguments DEF BaseInv
    <3>4. job[own.plan.job].state \in {"finalizing", "paused"}
      BY <3>3 DEF BaseInv, StoreOK, EligibleIsCurrent
    <3> QED BY <3>2, <3>4 DEF BodyStates
  <2> QED BY <2>1
<1>3. CASE Retire
  BY <1>0, <1>3, ClearedShape DEF Retire, SpentTurns
<1>4. CASE ServeRecoveryRefused
  BY <1>4 DEF ServeRecoveryRefused, Spent, SpentTurns
<1> QED BY <1>1, <1>2, <1>3, <1>4
        DEF Continue, ActivateLaunch, ActivateBind, ActivateReady, ActivateFail, DispatchAdd,
            DispatchAdvance, DispatchResume, DispatchFinish, DispatchFail, Activating, Dispatching

LEMMA PollSpent ==
  ASSUME BaseInv, Spent, own.plan # NoRow, Eligible(own.plan.job), Poll
  PROVE  SpentTurns
<1>0. OwnerShape(own) /\ own.ctl # "none"
  BY DEF BaseInv, ProcessOK, OwnerShape
<1>p. (own.pub = NoRow => own.closeAfter) /\ (own.pub # NoRow => own.pub.rec = NoRow)
  <2>1. pc \in {"main", "poll"}
    BY DEF Poll, RetireAfterObserver, LaunchPreparation, LaunchPublication, LaunchTransfer,
           Launch, PollIdle, ReapVoid, ReapTerminal, ReapStage, ReapPreparation, Reaped,
           ReapRevokedPublication, ReapPublished, ReapUnpublished, ReapingPublication, Reaping,
           Looping
  <2> QED BY <2>1 DEF Spent
<1>1. CASE own' = own
  BY <1>1, <1>p DEF SpentTurns
<1>2. CASE pc' = "retire" \/ own'.plan = NoRow \/ own'.pub # NoRow
  BY <1>2 DEF SpentTurns
<1>3. CASE RetireAfterObserver
  BY <1>0, <1>2, <1>3, ClearedShape DEF RetireAfterObserver
<1>4. ASSUME NEW o, CloseReaped(o)
      PROVE  pc' = "retire"
  BY <1>0, <1>4 DEF CloseReaped
<1>d. CASE Die
  BY <1>2, <1>d, NewOwnerShape DEF Die
<1>5. ASSUME NEW fence, NEW recoverable, PauseTracked(fence, recoverable)
      PROVE  SpentTurns
  BY <1>2, <1>4, <1>5, <1>d DEF PauseTracked
<1>6. CASE own.work # "none" /\ ~own.closeAfter /\ (own'.pub = own.pub \/ own'.pub # NoRow)
  BY <1>p, <1>6 DEF SpentTurns
<1>7. CASE ReapTerminal
  <2>0. own.work # "none" /\ ~own.closeAfter
    BY <1>7 DEF ReapTerminal, Reaped, Reaping
  <2>1. ASSUME PlanCurrent, obs.res = "ok", FinalizeTerminal(own.plan.req),
               own' = [own EXCEPT !.plan.rev = @ + 1, !.work = "stage", !.pay = obs.pay]
        PROVE  own'.pub = own.pub
    BY <1>7, <2>1, TerminalFinalized DEF ReapTerminal
  <2> QED BY <1>2, <1>4, <1>5, <1>6, <1>7, <1>d, <2>0, <2>1 DEF ReapTerminal, CloseWithoutPersist
<1>8. CASE ReapStage
  <2>0. own.work # "none" /\ ~own.closeAfter
    BY <1>8 DEF ReapStage, Reaped, Reaping
  <2>1. ASSUME own' = [own EXCEPT !.work = "prepare", !.cancel = FALSE]
        PROVE  own'.pub = own.pub
    BY <1>0, <2>1 DEF OwnerShape, OwnerRow
  <2> QED BY <1>2, <1>4, <1>5, <1>6, <1>8, <2>0, <2>1 DEF ReapStage, CloseWithoutPersist
<1>9. CASE ReapPreparation
  <2> DEFINE p == [job |-> own.plan.job, gen |-> own.plan.gen, rev |-> own.plan.rev,
                   rec |-> NoRow, stage |-> TRUE, seen |-> FALSE]
  <2>1. ASSUME own' = [own EXCEPT !.work = "none", !.permit = FreshPermit, !.pub = p]
        PROVE  own'.pub # NoRow
    <3>1. p \in PublicationRow
      BY <1>0, OwnerFields DEF OwnerShape, PlanRow, PublicationRow, OrNoRow
    <3> HIDE DEF p
    <3>2. own'.pub = p
      BY <1>0, <2>1 DEF OwnerShape, OwnerRow
    <3> QED BY <3>1, <3>2, Records
  <2> QED BY <1>2, <1>5, <1>9, <2>1 DEF ReapPreparation
<1>10. CASE ReapRevokedPublication
  <2>1. own'.pub # NoRow
    BY <1>0, <1>10, SeenShape DEF ReapRevokedPublication, ReapingPublication
  <2> QED BY <1>2, <2>1
<1>11. CASE ReapPublished
  BY <1>2, <1>4, <1>11 DEF ReapPublished
<1>12. CASE ReapUnpublished
  BY <1>5, <1>p, <1>12 DEF ReapUnpublished, ReapingPublication
<1> QED BY <1>1, <1>3, <1>7, <1>8, <1>9, <1>10, <1>11, <1>12
        DEF Poll, LaunchPreparation, LaunchPublication, LaunchTransfer, Launch, PollIdle, ReapVoid

LEMMA SpentStep ==
  ASSUME BaseInv, AfterMain, Spent, [Next]_vars
  PROVE  Spent'
<1>0. OwnerShape(own) /\ TypeOK /\ EligibleIsCurrent /\ [StoreNext]_storeVars
  BY StoreStep DEF BaseInv, ProcessOK, StoreOK
<1>1. SUFFICES ASSUME NEW k, k = own'.plan.job, own'.plan # NoRow, Eligible(k)'
               PROVE  /\ pc' \in {"main", "poll", "unrecover"} /\ own'.pub = NoRow
                           => own'.closeAfter
                      /\ own'.pub # NoRow => own'.pub.rec = NoRow
  BY DEF Spent, Eligible
<1>2. CASE DispatchResume
  <2>1. /\ own' = [own EXCEPT !.work = "terminal",
                     !.plan = [job |-> receipt[disp].job, req |-> disp,
                               gen |-> job[receipt[disp].job].gen,
                               rev |-> job[receipt[disp].job].rev]]
        /\ job' = job /\ attempt' = attempt /\ pc = "advanced"
    BY <1>2 DEF DispatchResume, storeVars
  <2>2. k = receipt[disp].job
    BY <1>0, <1>1, <2>1 DEF OwnerShape, OwnerRow
  <2>3. AtRow(disp) /\ receipt[disp].at.state = "downloading" /\ disp \in Requests /\ Pending(disp)
    BY <2>1 DEF BaseInv, DispatchOK, StepOK, Dispatching
  <2>4. job[k].state = "downloading" /\ k \in Jobs
    <3>1. receipt[disp] \in ReceiptRow
      BY <1>0, <2>3, PresentIsReceiptRow DEF Pending
    <3> QED BY <2>2, <2>3, <3>1 DEF AtRow, Fence, ReceiptRow
  <2> QED BY <1>0, <1>1, <2>1, <2>4 DEF EligibleIsCurrent, Eligible
<1>3. CASE own.plan # NoRow /\ own'.plan.job = own.plan.job
  <2>1. own.plan.job = k /\ k \in Jobs
    BY <1>1, <1>3, Arguments DEF BaseInv
  <2>2. CASE ReapPreparation
    <3>1. CASE PauseTracked(own.plan, FALSE)
      <4>1. own' \in {Idled, ClosedOwner(Idled), NewOwner(FALSE)}
        BY <3>1 DEF PauseTracked, Die, CloseReaped, Idled
      <4>2. OwnerShape(Idled) /\ Idled.pub = NoRow
        BY <1>0, IdledShape
      <4>3. own'.pub = NoRow
        BY <4>1, <4>2, ClosedShape, NewOwnerShape
      <4>4. own.ctl # "none"
        BY <1>0, <1>3 DEF OwnerShape
      <4>5. pc' \in {"retire", "down"}
        BY <3>1, <4>4 DEF PauseTracked, Die, CloseReaped
      <4> QED BY <4>3, <4>5
    <3>2. CASE ~PauseTracked(own.plan, FALSE)
      <4> DEFINE p == [job |-> own.plan.job, gen |-> own.plan.gen, rev |-> own.plan.rev,
                       rec |-> NoRow, stage |-> TRUE, seen |-> FALSE]
      <4>1. own' = [own EXCEPT !.work = "none", !.permit = FreshPermit, !.pub = p]
        BY <2>2, <3>2 DEF ReapPreparation
      <4>2. p \in PublicationRow /\ p.rec = NoRow
        BY <1>0, <1>3, OwnerFields DEF OwnerShape, PlanRow, PublicationRow, OrNoRow
      <4> HIDE DEF p
      <4>3. own'.pub = p
        BY <1>0, <4>1 DEF OwnerShape, OwnerRow
      <4> QED BY <4>2, <4>3, Records
    <3> QED BY <3>1, <3>2
  <2>3. ASSUME NEW r \in Requests, NEW j \in Jobs, ServeRecovery(r, j)
        PROVE  /\ pc' \in {"main", "poll", "unrecover"} /\ own'.pub = NoRow
                    => own'.closeAfter
               /\ own'.pub # NoRow => own'.pub.rec = NoRow
    <3>1. Eligible(k)
      <4>1. Eligible(j) /\ attempt[j] \in AttemptRow /\ attempt' = [attempt EXCEPT ![j].pending = r]
        BY <1>0, <2>3 DEF ServeRecovery, AdmitRecovery, DispatchVerdict, Eligible, TypeOK
      <4>2. CASE k # j
        <5>1. attempt'[k] = attempt[k]
          BY <1>0, <2>1, <4>1, <4>2 DEF TypeOK
        <5> QED BY <1>1, <5>1 DEF Eligible
      <4> QED BY <4>1, <4>2
    <3>2. pc = "main" /\ (own.pub = NoRow => own.closeAfter)
      BY <1>3, <2>1, <2>3, <3>1 DEF ServeRecovery, Serving, Spent
    <3>3. ~Begins(r, j)
      BY <3>2 DEF Begins, AfterMain
    <3>4. own' = own
      BY <2>3, <3>3, RecoveryBegins
    <3> QED BY <1>3, <2>1, <3>1, <3>2, <3>4 DEF Spent
  <2>4. CASE Settling
    <3>1. /\ Eligible(k)
          /\ ~\E r \in Requests, j \in Jobs : ServeRecovery(r, j)
      BY <1>0, <1>1, <2>1, <2>4, SettlingAdmitsNone DEF ServeRecovery
    <3>2. own'.pub # NoRow => own'.pub.rec = NoRow
      BY <1>3, <2>1, <3>1, PublicationStep DEF PublicationTurns, Spent
    <3>3. SpentTurns
      <4>0. Eligible(own.plan.job)
        BY <2>1, <3>1
      <4>1. CASE own' = own /\ pc' = pc
        BY <1>3, <4>0, <4>1 DEF Spent, SpentTurns
      <4>2. CASE Lifecycle
        BY <1>0, <4>2, NewOwnerShape
           DEF Lifecycle, Stop, Shutdown, ShutdownPersist, ShutdownClear, Crash, ColdStart,
               RecoverEngine, SpentTurns, BaseInv, StepOK
      <4>3. CASE Observe
        <5>1. own'.pub = own.pub /\ own'.closeAfter = own.closeAfter /\ pc' = pc
          BY <1>0, <4>3 DEF Observe, ObserveTerminal, ObserveFiles, ObserveFail, PublishEnter,
             PublishLink, PublishVerify, OwnerShape, OwnerRow
        <5> QED BY <1>3, <4>0, <5>1 DEF Spent, SpentTurns
      <4> QED BY <1>3, <4>0, <4>1, <4>2, <4>3, ServeSpent, ContinueSpent, PollSpent
              DEF Next, vars, EngineStep, Tamper
    <3> QED BY <1>1, <3>2, <3>3 DEF SpentTurns
  <2> QED BY <2>2, <2>3, <2>4, AttemptsSettle DEF Recovering
<1>4. CASE own'.plan = NoRow
  BY <1>1, <1>4
<1>5. CASE Replaced
  BY <1>0, <1>4, <1>5, ClearedShape, NewOwnerShape DEF Replaced
<1>6. PlanMoves
  BY OwnerStep DEF OwnerMoves
<1> QED BY <1>2, <1>3, <1>4, <1>5, <1>6 DEF PlanMoves

\* A single job; what holds of one only is said so.
OneJob == \A j, k \in Jobs : j = k

Recovers(k, r) == own.pub # NoRow /\ own.pub.job = k /\ own.pub.rec = r

\* A pending recovery is the owner's publication, or the request the thread is
\* about to abort; a blocked owner is sure of it for a single job only.
PendingOK == pc \notin {"stopped", "down"} /\ (own.blocked => OneJob) =>
  \A k \in Jobs : Eligible(k) /\ attempt[k].pending # NoRow =>
    \/ Recovers(k, attempt[k].pending)
    \/ pc \in {"unrecover", "withdraw"} /\ disp = attempt[k].pending

\* The recovery in the owner's hands stays there, is withdrawn to be aborted,
\* or its worker ends.
RecoveryGoesOn ==
  \/ own'.pub = own.pub
  \/ pc' = "withdraw" /\ disp' = own.pub.rec
  \/ pc' \in {"stopped", "down"}

LEMMA ServeKeepsRecovery ==
  ASSUME BaseInv, Spent, RecoveryAtRow, NEW k \in Jobs, Recovers(k, attempt[k].pending),
         Eligible(k), attempt[k].pending # NoRow,
         Eligible(k)', attempt'[k].pending # NoRow, own'.blocked => OneJob, Serve
  PROVE  RecoveryGoesOn
<1>0. OwnerShape(own) /\ TypeOK /\ own.pub # NoRow /\ own.pub.job = k
  BY DEF BaseInv, ProcessOK, StoreOK, Recovers
<1>1. CASE own'.pub = own.pub
  BY <1>1 DEF RecoveryGoesOn
<1>2. CASE RefuseInFlight
  BY <1>0, <1>1, <1>2, RevokedShape DEF RefuseInFlight
<1>3. ASSUME NEW S, NEW kept, AdvancePointers(S, kept), TrackedJob \in S,
             NEW o, CloseOwned(o)
      PROVE  RecoveryGoesOn
  <2>1. k \notin S
    BY <1>0, <1>3, AdvancedRests
  <2>2. own.plan # NoRow /\ own.plan.job # k
    BY <1>0, <1>3, <2>1 DEF TrackedJob
  <2>3. own.ctl # "none" /\ RecoversOther
    BY <1>0, <2>2 DEF OwnerShape, RecoversOther, Recovers
  <2> QED BY <1>3, <2>3 DEF CloseOwned, RecoveryGoesOn
<1>4. ASSUME NEW j \in Jobs, NEW a \in Actions, ServeContainedControl(j, a)
      PROVE  RecoveryGoesOn
  <2>1. CASE RefuseInFlight
    BY <1>2, <2>1
  <2>2. CASE JobControl(j, a, TRUE, Recoverable) /\ CloseOwned([Withdrawn(own) EXCEPT !.pub = NoRow])
    <3>1. j = TrackedJob /\ a \in {"pause", "remove"} /\ job[j].state \notin TerminalStates
      BY <1>4 DEF ServeContainedControl
    <3>2. a = "remove" => Controlled(job[j], a) # job[j]
      <4>1. job[j] \in JobRow
        BY <1>0, <2>2, StoredIsRow DEF JobControl, Open
      <4> QED BY <3>1, <4>1 DEF Controlled, JobRow, TerminalStates
    <3>3. AdvancePointers({j}, Kept(j, a = "pause" /\ Recoverable))
      BY <2>2, <3>1, <3>2 DEF JobControl
    <3> QED BY <1>3, <2>2, <3>1, <3>3
  <2> QED BY <1>4, <2>1, <2>2 DEF ServeContainedControl
<1>5. CASE ServeGatePause
  <2>1. CASE RefuseInFlight
    BY <1>2, <2>1
  <2>2. CASE SetGateContained(Contained.job, Recoverable)
             /\ CloseOwned([Withdrawn(own) EXCEPT !.pub = NoRow])
    <3>1. Contained.job = TrackedJob
      BY <1>0 DEF Contained, TrackedJob
    <3> QED BY <1>3, <2>2, <3>1 DEF SetGateContained
  <2>3. CASE ~ContainedCurrent /\ ContainmentFails
    <3>1. own.plan # NoRow
      <4>1. ASSUME own.plan = NoRow
            PROVE  FALSE
        <5>1. own.pub.gen = job[k].gen /\ own.pub.rev = job[k].rev
          BY <1>0 DEF RecoveryAtRow, Recovers
        <5>2. job[k].state \in {"finalizing", "paused"}
          BY DEF BaseInv, StoreOK, EligibleIsCurrent
        <5> QED BY <1>0, <2>3, <4>1, <5>1, <5>2 DEF ContainedCurrent, Contained
      <4> QED BY <4>1
    <3>2. own' = Stuck(Withdrawn(own)) /\ ~LinkInFlight
      BY <1>0, <2>3, <3>1 DEF ContainmentFails, Stuck, OwnerShape
    <3>3. OneJob
      BY <1>0, <3>2, WithdrawnShape, StuckShape DEF LinkInFlight
    <3>4. own.plan.job = k
      BY <3>1, <3>3, Arguments DEF BaseInv, OneJob
    <3> QED BY <1>0, <3>1, <3>4 DEF Spent, Recovers
  <2> QED BY <1>5, <2>1, <2>2, <2>3 DEF ServeGatePause
<1>6. CASE ActivateDiscard
  BY <1>0, <1>1, <1>6, ClearedShape DEF ActivateDiscard
<1>7. ASSUME NEW r \in Requests, NEW j \in Jobs, ServeRecovery(r, j)
      PROVE  RecoveryGoesOn
  BY <1>0, <1>1, <1>7, RecoveryBegins DEF Begins
<1> QED BY <1>1, <1>4, <1>5, <1>6, <1>7
        DEF Serve, ServeAdd, ServeControl, ServeGate, ServeDispatchRefused, ServeDispatch,
            ServeReplay, Served, ActivateReserve

LEMMA PollKeepsRecovery ==
  ASSUME BaseInv, LaneOK, PublicationFresh, NEW k \in Jobs, Recovers(k, attempt[k].pending),
         Eligible(k), attempt[k].pending # NoRow,
         Eligible(k)', attempt'[k].pending # NoRow, Poll
  PROVE  RecoveryGoesOn
<1>0. OwnerShape(own) /\ TypeOK /\ own.pub # NoRow /\ own.pub.job = k /\ own.pub.rec # NoRow
  BY DEF BaseInv, ProcessOK, StoreOK, Recovers
<1>w. own.work = "none"
  BY <1>0 DEF LaneOK, PublicationFresh
<1>1. CASE own'.pub = own.pub
  BY <1>1 DEF RecoveryGoesOn
<1>2. CASE RetireAfterObserver
  BY <1>0, <1>1, <1>2, ClearedShape DEF RetireAfterObserver
<1>3. CASE ReapPublished
  <2>1. PICK p, live : CompletePublication(k, p, live)
    BY <1>0, <1>3 DEF ReapPublished
  <2>2. attempt[k] \in AttemptRow
    BY <1>0 DEF TypeOK, Eligible
  <2>3. attempt'[k] = [attempt[k] EXCEPT !.status = "finished", !.at = Fence(job'[k]),
                                         !.pending = NoRow]
    BY <1>0, <2>1 DEF CompletePublication, TypeOK
  <2>4. attempt'[k].pending = NoRow
    BY <2>2, <2>3 DEF AttemptRow
  <2> QED BY <2>4
<1>4. CASE ReapUnpublished
  <2>1. AbortRecovery(attempt[k].pending)
    BY <1>0, <1>4 DEF ReapUnpublished, Recovers
  <2>2. receipt[attempt[k].pending].job = k
    BY <1>0, PendingIsOwn DEF Current, BaseInv, StoreOK, EligibleIsCurrent
  <2>3. attempt'[k].pending = NoRow
    BY <1>0, <2>1, <2>2 DEF AbortRecovery, TypeOK, Eligible, AttemptRow
  <2> QED BY <2>3
<1> QED BY <1>0, <1>1, <1>2, <1>3, <1>4, <1>w
        DEF Poll, LaunchPreparation, LaunchPublication, LaunchTransfer, Launch, PollIdle, ReapVoid,
            ReapTerminal, ReapStage, ReapPreparation, Reaped, ReapRevokedPublication,
            PublicationValid

\* An owner once blocked stays so until its process ends.
LEMMA ServeBlocked ==
  ASSUME BaseInv, Serve
  PROVE  own.blocked => own'.blocked
<1>0. OwnerShape(own)
  BY DEF BaseInv, ProcessOK
<1>1. CASE own'.blocked = own.blocked
  BY <1>1
<1>2. CASE RefuseInFlight
  BY <1>0, <1>2, RevokedShape DEF RefuseInFlight
<1>3. ASSUME ~LinkInFlight, CloseOwned([Withdrawn(own) EXCEPT !.pub = NoRow])
      PROVE  own'.blocked = own.blocked
  <2>1. own' = Dropped(own) \/ own' = Closing(Dropped(own), ObsAlive)
    BY <1>3 DEF CloseOwned, Closing, Dropped
  <2>2. OwnerShape(Dropped(own)) /\ Dropped(own).blocked = own.blocked
    BY <1>0, <1>3, DroppedShape DEF LinkInFlight
  <2>3. ObsAlive \in BOOLEAN
    BY DEF ObsAlive
  <2> QED BY <2>1, <2>2, <2>3, ClosingShape
<1>4. CASE ContainmentFails
  <2>1. own' = Withdrawn(own) \/ own' = Stuck(Withdrawn(own))
    BY <1>4 DEF ContainmentFails, Stuck
  <2>2. OwnerShape(Withdrawn(own)) /\ Withdrawn(own).blocked = own.blocked
    BY <1>0, <1>4, WithdrawnShape DEF ContainmentFails, LinkInFlight
  <2> QED BY <2>1, <2>2, StuckShape
<1>5. CASE ActivateDiscard
  BY <1>0, <1>5, ClearedShape DEF ActivateDiscard
<1>6. ASSUME NEW r \in Requests, NEW j \in Jobs, ServeRecovery(r, j)
      PROVE  own'.blocked = own.blocked
  BY <1>6, RecoveryBegins
<1>7. ASSUME NEW j \in Jobs, NEW a \in Actions, ServeContainedControl(j, a)
      PROVE  own.blocked => own'.blocked
  BY <1>2, <1>3, <1>7 DEF ServeContainedControl
<1>8. CASE ServeGatePause
  BY <1>2, <1>3, <1>4, <1>8 DEF ServeGatePause
<1> QED BY <1>1, <1>5, <1>6, <1>7, <1>8
        DEF Serve, ServeAdd, ServeControl, ServeGate, ServeDispatchRefused, ServeDispatch,
            ServeReplay, Served, ActivateReserve

LEMMA PollBlocked ==
  ASSUME BaseInv, Poll
  PROVE  own'.blocked = own.blocked \/ pc' = "down"
<1>0. OwnerShape(own)
  BY DEF BaseInv, ProcessOK
<1>1. CASE own' = own \/ pc' = "down"
  BY <1>1
<1>2. ASSUME NEW o, OwnerShape(o), o.blocked = own.blocked, CloseReaped(o)
      PROVE  own'.blocked = own.blocked
  BY <1>2, ClosedShape DEF CloseReaped
<1>3. CASE RetireAfterObserver
  BY <1>0, <1>3, ClearedShape DEF RetireAfterObserver
<1>4. ASSUME NEW fence, NEW recoverable, PauseTracked(fence, recoverable)
      PROVE  own'.blocked = own.blocked \/ pc' = "down"
  BY <1>0, <1>2, <1>4, IdledShape DEF PauseTracked, Die, Idled
<1>5. CASE ReapTerminal
  <2>1. ASSUME PlanCurrent, obs.res = "ok", FinalizeTerminal(own.plan.req),
               own' = [own EXCEPT !.plan.rev = @ + 1, !.work = "stage", !.pay = obs.pay]
        PROVE  own'.blocked = own.blocked
    BY <1>5, <2>1, TerminalFinalized DEF ReapTerminal
  <2> QED BY <1>0, <1>2, <1>4, <1>5, <2>1 DEF ReapTerminal, CloseWithoutPersist, Die
<1>6. CASE ReapStage
  <2>1. ASSUME own' = [own EXCEPT !.work = "prepare", !.cancel = FALSE]
        PROVE  own'.blocked = own.blocked
    BY <1>0, <2>1 DEF OwnerShape, OwnerRow
  <2> QED BY <1>0, <1>2, <1>4, <1>6, <2>1 DEF ReapStage, CloseWithoutPersist
<1>7. CASE ReapPreparation
  BY <1>0, <1>4, <1>7 DEF ReapPreparation, OwnerShape, OwnerRow
<1>8. CASE ReapRevokedPublication
  BY <1>0, <1>8, SeenShape DEF ReapRevokedPublication, ReapingPublication
<1>9. CASE ReapPublished
  BY <1>0, <1>2, <1>9, PublicationDroppedShape DEF ReapPublished
<1>10. CASE ReapUnpublished
  BY <1>0, <1>4, <1>10, PublicationDroppedShape DEF ReapUnpublished
<1> QED BY <1>1, <1>3, <1>5, <1>6, <1>7, <1>8, <1>9, <1>10
        DEF Poll, LaunchPreparation, LaunchPublication, LaunchTransfer, Launch, PollIdle, ReapVoid

LEMMA BlockedStays ==
  ASSUME BaseInv, [Next]_vars, own.blocked
  PROVE  own'.blocked \/ pc' = "down"
<1>0. OwnerShape(own)
  BY DEF BaseInv, ProcessOK
<1>1. CASE own' = own \/ pc' = "down"
  BY <1>1
<1>2. CASE Continue
  <2>1. CASE ActivateReady
    BY <2>1 DEF ActivateReady, BaseInv, StepOK, Activating
  <2>2. CASE DispatchResume
    BY <1>0, <2>2 DEF DispatchResume, OwnerShape, OwnerRow
  <2>3. CASE DispatchFail
    <3>1. own' = ClosedOwner(own) \/ own' = Stuck(own)
      BY <2>3 DEF DispatchFail, Stuck
    <3> QED BY <1>0, <3>1, ClosedShape, StuckShape
  <2>4. CASE Retire
    BY <1>0, <2>4, ClearedShape DEF Retire
  <2> QED BY <1>1, <1>2, <2>1, <2>2, <2>3, <2>4
          DEF Continue, ActivateLaunch, ActivateBind, ActivateFail, DispatchAdd, DispatchAdvance,
              DispatchFinish, ServeRecoveryRefused
<1>3. CASE Observe
  BY <1>0, <1>3 DEF Observe, ObserveTerminal, ObserveFiles, ObserveFail, PublishEnter,
                    PublishLink, PublishVerify, OwnerShape, OwnerRow
<1>4. CASE Lifecycle
  <2>1. pc \notin {"down", "booted"}
    BY NewOwnerShape DEF BaseInv, StepOK
  <2> QED BY <1>0, <1>4, <2>1, CancelledShape
          DEF Lifecycle, Stop, Shutdown, ShutdownPersist, ShutdownClear, Crash, ColdStart,
              RecoverEngine
<1> QED BY <1>1, <1>2, <1>3, <1>4, ServeBlocked, PollBlocked DEF Next, vars, EngineStep, Tamper

\* From the end of a process a step leads to a start, if anywhere.
LEMMA EndsOnly ==
  ASSUME BaseInv, [Next]_vars, pc \in {"stopped", "down"}, pc' \notin {"stopped", "down"}
  PROVE  ColdStart
<1>1. pc' # pc
  OBVIOUS
<1>2. ~Observe
  BY DEF BaseInv, StepOK, Observe, ObserveTerminal, ObserveFiles, ObserveFail, ObsAlive,
         Observing, PublishEnter, PublishLink, PublishVerify
<1> QED BY <1>1, <1>2
        DEF Next, vars, EngineStep, Tamper, Serve, ServeAdd, ServeControl, ServeContainedControl,
            ServeGate, ServeGatePause, ActivateReserve, ActivateDiscard, ServeDispatchRefused,
            ServeDispatch, ServeRecovery, ServeReplay, Served, Serving, Continue,
            ActivateLaunch, ActivateBind, ActivateReady, ActivateFail, DispatchAdd,
            DispatchAdvance, DispatchResume, DispatchFinish, DispatchFail, ServeRecoveryRefused,
            Retire, Poll, RetireAfterObserver, LaunchPreparation, LaunchPublication,
            LaunchTransfer, Launch, PollIdle, ReapVoid, ReapTerminal, ReapStage,
            ReapPreparation, Reaped, ReapRevokedPublication, ReapPublished, ReapUnpublished,
            ReapingPublication, Reaping, Looping, Lifecycle, Stop, Shutdown, ShutdownPersist,
            ShutdownClear, Crash, RecoverEngine

StillPending(k) ==
  \/ /\ own'.pub # NoRow /\ own'.pub.job = k
     /\ own'.pub.rec = attempt'[k].pending
  \/ pc' \in {"unrecover", "withdraw"} /\ disp' = attempt'[k].pending

LEMMA PendingStep ==
  ASSUME BaseInv, LaneOK, PublicationFresh, RecoveryAtRow, AfterMain, Spent, PendingOK,
         [Next]_vars
  PROVE  PendingOK'
<1>0. /\ OwnerShape(own) /\ TypeOK /\ EligibleIsCurrent /\ [StoreNext]_storeVars
  BY StoreStep DEF BaseInv, ProcessOK, StoreOK
<1>1. SUFFICES ASSUME pc' \notin {"stopped", "down"}, own'.blocked => OneJob,
                      NEW k \in Jobs, Eligible(k)', attempt'[k].pending # NoRow
               PROVE  StillPending(k)
  BY DEF PendingOK, OneJob, Recovers, StillPending
<1> DEFINE r == attempt[k].pending
<1>2. CASE ColdStart
  BY <1>0, <1>1, <1>2, ColdStartSettles DEF ColdStart
<1>3. CASE pc \in {"stopped", "down"}
  BY <1>1, <1>2, <1>3, EndsOnly
<1>4. CASE pc \notin {"stopped", "down"}
  <2>0. ASSUME Eligible(k), r # NoRow
        PROVE  \/ Recovers(k, r)
               \/ pc \in {"unrecover", "withdraw"} /\ disp = r
    BY <1>1, <1>4, <2>0, BlockedStays DEF PendingOK
  <2>1. ASSUME NEW q \in Requests, NEW j \in Jobs, ServeRecovery(q, j)
        PROVE  StillPending(k)
    <3>0. /\ Eligible(j) /\ attempt[j] \in AttemptRow
          /\ attempt' = [attempt EXCEPT ![j].pending = q]
      BY <1>0, <2>1 DEF ServeRecovery, AdmitRecovery, DispatchVerdict, Eligible, TypeOK
    <3>1. CASE j = k
      <4>1. attempt'[k].pending = q
        BY <1>0, <3>0, <3>1 DEF TypeOK, AttemptRow
      <4> QED BY <2>1, <3>1, <4>1, RecoveryBegins DEF Begins, StillPending
    <3>2. CASE j # k
      <4>1. attempt'[k] = attempt[k]
        BY <1>0, <3>0, <3>2 DEF TypeOK
      <4>2. Recovers(k, r)
        BY <1>1, <2>0, <2>1, <4>1 DEF Eligible, ServeRecovery, Serving
      <4>3. own' = own
        BY <2>1, <4>2, RecoveryBegins DEF Begins, Recovers
      <4> QED BY <4>1, <4>2, <4>3 DEF Recovers, StillPending
    <3> QED BY <3>1, <3>2
  <2>2. CASE Settling \/ ReapPreparation
    <3>1. ~\E q \in Requests : AdmitRecovery(q, k)
      <4>1. ASSUME ReapPreparation, NEW q \in Requests, AdmitRecovery(q, k)
            PROVE  FALSE
        <5>1. receipt[q] = NoRow /\ Stored(k) /\ receipt'[q] = Receipt(k, "pending", Fence(job[k]))
          BY <1>0, <4>1 DEF AdmitRecovery, TypeOK
        <5>2. receipt'[q] # NoRow
          BY <1>0, <5>1, StoredIsRow, ReceiptIsRow, NoRowAssumption
        <5>3. receipt'[q] = receipt[q]
          <6>1. CASE UNCHANGED receipt
            BY <6>1
          <6>2. CASE PauseTracked(own.plan, FALSE)
            BY <5>1, <6>1, <6>2 DEF PauseTracked, Die, storeVars, PauseActive, AdvancePointers,
                                    Pending
          <6> QED BY <4>1, <6>1, <6>2 DEF ReapPreparation, ReservePublication
        <5> QED BY <5>1, <5>2, <5>3
      <4> QED BY <1>0, <2>2, <4>1, SettlingAdmitsNone
    <3>2. Eligible(k) /\ attempt'[k].pending = r
      BY <1>0, <1>1, <3>1, PendingStays
    <3>3. r \in Requests /\ receipt[r].job = k
      BY <1>0, <1>1, <3>2, PendingIsOwn DEF Current, EligibleIsCurrent
    <3>4. CASE pc \in {"unrecover", "withdraw"} /\ disp = r
      <4>1. CASE pc' = pc /\ disp' = disp
        BY <3>2, <3>4, <4>1 DEF StillPending
      <4>2. CASE ServeRecoveryRefused
        <5>1. attempt'[k].pending = NoRow
          BY <1>0, <3>2, <3>3, <3>4, <4>2
             DEF ServeRecoveryRefused, AbortRecovery, TypeOK, Eligible, AttemptRow
        <5> QED BY <1>1, <5>1
      <4>3. CASE Observe
        BY <4>1, <4>3 DEF Observe, ObserveTerminal, ObserveFiles, ObserveFail, PublishEnter,
                          PublishLink, PublishVerify
      <4>4. CASE Crash
        BY <1>1, <4>4 DEF Crash
      <4> QED BY <3>4, <4>1, <4>2, <4>3, <4>4
              DEF Next, vars, EngineStep, Tamper, Serve, ServeAdd, ServeControl,
              ServeContainedControl, ServeGate, ServeGatePause, ActivateReserve,
              ActivateDiscard, ServeDispatchRefused, ServeDispatch, ServeRecovery,
              ServeReplay, Served, Serving, Continue, RefuseInFlight,
              ActivateLaunch, ActivateBind, ActivateReady, ActivateFail, DispatchAdd,
              DispatchAdvance, DispatchResume, DispatchFinish, DispatchFail,
              Retire, Poll, RetireAfterObserver, LaunchPreparation, LaunchPublication,
              LaunchTransfer, Launch, PollIdle, ReapVoid, ReapTerminal, ReapStage,
              ReapPreparation, Reaped, ReapRevokedPublication, ReapPublished, ReapUnpublished,
              ReapingPublication, Reaping, Looping, Lifecycle, Stop, Shutdown, ShutdownPersist,
              ShutdownClear, ColdStart, RecoverEngine
    <3>5. CASE Recovers(k, r)
      <4>0. own.pub # NoRow /\ own.pub.rec = r
        BY <3>5 DEF Recovers
      <4>1. ASSUME Lifecycle
            PROVE  RecoveryGoesOn
        <5>1. pc \notin {"down", "booted"}
          BY <4>0, NewOwnerShape DEF BaseInv, StepOK
        <5> QED BY <1>0, <1>1, <4>1, <5>1, CancelledShape
                DEF Lifecycle, Stop, Shutdown, ShutdownPersist, ShutdownClear, Crash, ColdStart,
                    RecoverEngine, RecoveryGoesOn
      <4>2. RecoveryGoesOn
        BY <1>1, <3>2, <3>5, <4>1, ServeKeepsRecovery, PollKeepsRecovery, ContinueTurns,
           ThreadTurns DEF Next, vars, RecoveryGoesOn
      <4> QED BY <1>1, <3>2, <3>5, <4>0, <4>2 DEF RecoveryGoesOn, Recovers, StillPending
    <3> QED BY <1>1, <2>0, <3>2, <3>4, <3>5
  <2> QED BY <2>1, <2>2, AttemptsSettle DEF Recovering
<1> QED BY <1>3, <1>4

-----------------------------------------------------------------------------
(* Jobs at work.                                                           *)

AtWork(k) == Stored(k) /\ job[k].state \in ActiveStates

\* A transaction that puts no job to work.
Idling ==
  \/ UNCHANGED job
  \/ \E j \in Jobs : JobAdd(j)
  \/ \E j \in Jobs, a \in Actions, contained, recoverable \in BOOLEAN :
       JobControl(j, a, contained, recoverable)
  \/ \E j \in Jobs, recoverable \in BOOLEAN : SetGateContained(j, recoverable)
  \/ \E r \in Requests : AbortDispatch(r)
  \/ \E r \in Requests, s \in FailureStates : FailTerminal(r, s)
  \/ \E j \in Jobs, p \in Payloads, live \in BOOLEAN : CompletePublication(j, p, live)
  \/ \E j \in Jobs, recoverable \in BOOLEAN : PauseActive(j, recoverable)
  \/ RecoverCold

LEMMA IdlingRests ==
  ASSUME TypeOK, HeldIsIdle, Idling, NEW k \in Jobs, AtWork(k)'
  PROVE  Stored(k) /\ job'[k] = job[k]
<1>0. job'[k] # NoRow /\ job'[k].state \in ActiveStates
  BY DEF AtWork, Stored
<1>s. /\ "queued" \notin ActiveStates /\ "paused" \notin ActiveStates /\ "completed" \notin ActiveStates
      /\ \A s \in FailureStates : s \notin ActiveStates
  BY DEF ActiveStates, BodyStates, FailureStates
<1>m. ASSUME Stored(k), NEW s \in JobStates, s \notin ActiveStates
      PROVE  job'[k] # Moved(k, s)
  <2>1. job[k] \in JobRow
    BY <1>m, StoredIsRow
  <2>2. Moved(k, s).state = s
    BY <2>1 DEF Moved, JobRow
  <2> QED BY <1>0, <1>m, <2>2
<1>1. CASE job'[k] = job[k]
  BY <1>0, <1>1 DEF Stored
<1>2. ASSUME NEW j \in Jobs, JobAdd(j)
      PROVE  job'[k] = job[k]
  BY <1>0, <1>2, <1>s DEF JobAdd, TypeOK
<1>3. ASSUME NEW j \in Jobs, NEW s \in JobStates, s \notin ActiveStates, Stored(j),
             job' = job \/ job' = [job EXCEPT ![j] = Moved(j, s)]
      PROVE  job'[k] = job[k]
  BY <1>3, <1>m DEF TypeOK
<1>4. ASSUME NEW j \in Jobs, NEW a \in Actions, NEW contained \in BOOLEAN, NEW b \in BOOLEAN,
             JobControl(j, a, contained, b)
      PROVE  job'[k] = job[k]
  <2>1. CASE job'[k] # job[k]
    <3>1. /\ j = k /\ Stored(k) /\ Controlled(job[k], a) # job[k]
          /\ job'[k] = [Controlled(job[k], a) EXCEPT !.rev = @ + 1]
      BY <1>4, <2>1 DEF JobControl, Open, TypeOK
    <3>2. job[k] \in JobRow
      BY <3>1, StoredIsRow
    <3>3. Controlled(job[k], a).state \notin ActiveStates
      BY <3>1, <3>2, ControlledStops DEF HeldIsIdle
    <3> QED BY <1>0, <3>1, <3>2, <3>3, ControlledTyped, RaisedKeeps
  <2> QED BY <2>1
<1>5. ASSUME RecoverCold
      PROVE  job'[k] = job[k]
  <2>1. CASE Open(k)
    <3>1. job'[k] = [job[k] EXCEPT !.gen = @ + 1, !.rev = @ + 1, !.state = "paused"]
      BY <1>5, <2>1 DEF RecoverCold
    <3>2. job[k] \in JobRow
      BY <2>1, StoredIsRow DEF Open
    <3>3. job'[k].state = "paused"
      BY <3>1, <3>2 DEF JobRow
    <3> QED BY <1>0, <1>s, <3>3
  <2> QED BY <1>5, <2>1 DEF RecoverCold
<1>6. "paused" \in JobStates /\ "completed" \in JobStates /\ FailureStates \subseteq JobStates
  BY DEF JobStates, ActiveStates, BodyStates, TerminalStates, FailureStates
<1>7. ASSUME NEW r \in Requests, AbortDispatch(r)
      PROVE  job'[k] = job[k]
  <2>1. receipt[r].job \in Jobs
    BY <1>7, PresentIsReceiptRow DEF AbortDispatch, Pending
  <2> QED BY <1>3, <1>6, <1>7, <1>s, <2>1 DEF AbortDispatch
<1>8. ASSUME NEW r \in Requests, NEW s \in FailureStates, FailTerminal(r, s)
      PROVE  job'[k] = job[k]
  <2>1. receipt[r].job \in Jobs
    BY <1>8, PresentIsReceiptRow DEF FailTerminal, TerminalOwner, Started
  <2> QED BY <1>3, <1>6, <1>8, <1>s, <2>1 DEF FailTerminal, TerminalOwner
<1>9. ASSUME NEW j \in Jobs, NEW b \in BOOLEAN, SetGateContained(j, b) \/ PauseActive(j, b)
      PROVE  job'[k] = job[k]
  BY <1>3, <1>6, <1>9, <1>s DEF SetGateContained, PauseActive
<1>10. ASSUME NEW j \in Jobs, NEW p \in Payloads, NEW live \in BOOLEAN,
              CompletePublication(j, p, live)
       PROVE  job'[k] = job[k]
  BY <1>3, <1>6, <1>10, <1>s DEF CompletePublication
<1>11. job'[k] = job[k]
  BY <1>2, <1>4, <1>5, <1>7, <1>8, <1>9, <1>10 DEF Idling
<1> QED BY <1>1, <1>11

\* Only these three steps of the worker do.
Dispatches == \E r \in Requests, j \in Jobs : ServeDispatch(r, j)
Finalizes ==
  /\ Reaped("terminal") /\ PlanCurrent /\ obs.res = "ok"
  /\ FinalizeTerminal(own.plan.req)
  /\ own' = [own EXCEPT !.plan.rev = @ + 1, !.work = "stage", !.pay = obs.pay]
  /\ obs' = NoRow /\ pc' = "poll"

LEMMA RowsSettle ==
  ASSUME BaseInv, [Next]_vars
  PROVE  Idling \/ Dispatches \/ DispatchAdvance \/ Finalizes
<1>a. /\ own.plan # NoRow => own.plan.job \in Jobs /\ own.plan.req \in Requests
      /\ own.pub # NoRow => own.pub.job \in Jobs
      /\ TrackedJob # NoRow => Contained.job \in Jobs
      /\ Recoverable \in BOOLEAN
  BY Arguments DEF BaseInv
<1>1. CASE Serve
  <2>1. CASE ServeGatePause
    BY <1>a, <2>1 DEF ServeGatePause, RefuseInFlight, ContainmentFails, storeVars, Idling
  <2>2. ASSUME NEW j \in Jobs, NEW a \in Actions, ServeContainedControl(j, a)
        PROVE  Idling
    BY <1>a, <2>2 DEF ServeContainedControl, RefuseInFlight, storeVars, Idling
  <2> QED BY <1>1, <2>1, <2>2
          DEF Serve, ServeAdd, ServeControl, ServeGate, ActivateReserve, ActivateDiscard,
     ServeDispatchRefused, ServeReplay, ServeRecovery, SetGate, AdvanceClaim, ClearClaim,
     RefuseDispatch, AdmitRecovery, ReplayPending, Idling, Dispatches
<1>2. CASE Continue
  <2>1. CASE DispatchFail
    <3>1. disp \in Requests
      BY <2>1 DEF DispatchFail, BaseInv, StepOK, Dispatching
    <3> QED BY <2>1, <3>1 DEF DispatchFail, storeVars, Idling
  <2> QED BY <1>2, <2>1 DEF Continue, ActivateLaunch, ActivateBind, ActivateReady, ActivateFail,
     DispatchAdd, DispatchResume, DispatchFinish, ServeRecoveryRefused, AbortRecovery, Retire,
     AdvanceClaim, ClearClaim, FinishDispatch, storeVars, Idling
<1>3. CASE Poll
  <2>1. ASSUME NEW fence, NEW recoverable \in BOOLEAN, fence.job \in Jobs,
               PauseTracked(fence, recoverable)
        PROVE  Idling
    BY <2>1 DEF PauseTracked, Die, storeVars, Idling
  <2>2. CASE ReapTerminal
    <3>1. own.plan # NoRow
      BY <2>2 DEF ReapTerminal, Reaped, BaseInv, ProcessOK, OwnerShape
    <3> QED BY <1>a, <2>1, <2>2, <3>1 DEF ReapTerminal, CloseWithoutPersist, Die, storeVars,
                                          Idling, Finalizes
  <2>3. CASE ReapStage \/ ReapPreparation
    <3>1. own.plan # NoRow
      BY <2>3 DEF ReapStage, ReapPreparation, Reaped, BaseInv, ProcessOK, OwnerShape
    <3> QED BY <1>a, <2>1, <2>3, <3>1 DEF ReapStage, ReapPreparation, CloseWithoutPersist,
                                          BindStaged, ReservePublication, storeVars, Idling
  <2>4. CASE ReapPublished
    <3>1. own.pub.job \in Jobs /\ CompletePublication(own.pub.job, obs.pay, own.pub.rec = NoRow)
      BY <1>a, <2>4 DEF ReapPublished, ReapingPublication
    <3>2. Eligible(own.pub.job) /\ staged[own.pub.job] = obs.pay
      BY <3>1 DEF CompletePublication, PointerCurrent
    <3>3. obs.pay \in Payloads
      BY <3>1, <3>2 DEF BaseInv, StoreOK, AttemptIsStaged, Eligible
    <3> QED BY <3>1, <3>3 DEF Idling
  <2>5. CASE ReapUnpublished
    <3>1. own.pub # NoRow /\ (own.pub.rec = NoRow => own.permit # NoRow)
      BY <2>5 DEF ReapUnpublished, ReapingPublication, PublicationValid
    <3>2. own.permit # NoRow => own.permit.attempted \in BOOLEAN
      BY Arguments DEF BaseInv
    <3>3. CASE own.pub.rec # NoRow
      BY <2>5, <3>3 DEF ReapUnpublished, AbortRecovery, Idling
    <3>4. CASE own.pub.rec = NoRow
      BY <1>a, <2>1, <2>5, <3>1, <3>2, <3>4 DEF ReapUnpublished
    <3> QED BY <3>3, <3>4
  <2> QED BY <1>3, <2>2, <2>3, <2>4, <2>5
          DEF Poll, RetireAfterObserver, ClearClaim, LaunchPreparation, LaunchPublication,
              LaunchTransfer, Launch, PollIdle, ReapVoid, ReapRevokedPublication, storeVars, Idling
<1>4. CASE Observe \/ EngineStep \/ \E j \in Jobs : Tamper(j)
  BY <1>4, ObserveStore DEF storeVars, Idling
<1>5. CASE Lifecycle
  <2>1. CASE ShutdownPersist
    <3>1. CASE UNCHANGED job
      BY <3>1 DEF Idling
    <3>2. CASE ~UNCHANGED job
      <4>1. /\ StopPauses # NoRow
            /\ PauseActive(StopPauses.job, StopsPublication /\ own.permit.attempted)
        BY <2>1, <3>2 DEF ShutdownPersist, storeVars, AbortRecovery
      <4>2. StopPauses.job \in Jobs
        BY <1>a, <4>1 DEF StopPauses, StopsPublication, BaseInv, ProcessOK, OwnerShape
      <4>3. (StopsPublication /\ own.permit.attempted) \in BOOLEAN
        OBVIOUS
      <4> QED BY <4>1, <4>2, <4>3 DEF Idling
    <3> QED BY <3>1, <3>2
  <2> QED BY <1>5, <2>1 DEF Lifecycle, Stop, Shutdown, ShutdownClear, Crash,
     ColdStart, RecoverEngine, ClearClaim, storeVars, Idling
<1>6. CASE UNCHANGED vars
  BY <1>6 DEF vars, Idling
<1> QED BY <1>1, <1>2, <1>3, <1>4, <1>5, <1>6 DEF Next

\* The owner's plan changes with resume and with the terminal observation only.
PlanTurns == own'.plan # NoRow => own'.plan = own.plan \/ DispatchResume \/ Finalizes

LEMMA ServePlan ==
  ASSUME BaseInv, Serve
  PROVE  own'.plan = own.plan \/ own'.plan = NoRow
<1>0. OwnerShape(own)
  BY DEF BaseInv, ProcessOK
<1>1. CASE own'.plan = own.plan
  BY <1>1
<1>2. CASE RefuseInFlight
  BY <1>0, <1>2, RevokedShape DEF RefuseInFlight
<1>3. ASSUME ~LinkInFlight, CloseOwned([Withdrawn(own) EXCEPT !.pub = NoRow])
      PROVE  own'.plan = own.plan
  <2>1. own' = Dropped(own) \/ own' = Closing(Dropped(own), ObsAlive)
    BY <1>3 DEF CloseOwned, Closing, Dropped
  <2>2. OwnerShape(Dropped(own)) /\ Dropped(own).plan = own.plan
    BY <1>0, <1>3, DroppedShape DEF LinkInFlight
  <2>3. ObsAlive \in BOOLEAN
    BY DEF ObsAlive
  <2> QED BY <2>1, <2>2, <2>3, ClosingShape
<1>4. CASE ContainmentFails
  <2>1. own' = Withdrawn(own) \/ own' = Stuck(Withdrawn(own))
    BY <1>4 DEF ContainmentFails, Stuck
  <2>2. OwnerShape(Withdrawn(own)) /\ Withdrawn(own).plan = own.plan
    BY <1>0, <1>4, WithdrawnShape DEF ContainmentFails, LinkInFlight
  <2> QED BY <2>1, <2>2, StuckShape
<1>5. CASE ActivateDiscard
  BY <1>0, <1>5, ClearedShape DEF ActivateDiscard
<1>6. ASSUME NEW r \in Requests, NEW j \in Jobs, ServeRecovery(r, j)
      PROVE  own'.plan = own.plan
  BY <1>6, RecoveryBegins DEF Begins
<1>7. ASSUME NEW j \in Jobs, NEW a \in Actions, ServeContainedControl(j, a)
      PROVE  own'.plan = own.plan
  BY <1>2, <1>3, <1>7, <1>0, RevokedShape DEF ServeContainedControl, RefuseInFlight
<1>8. CASE ServeGatePause
  BY <1>2, <1>3, <1>4, <1>8 DEF ServeGatePause
<1> QED BY <1>1, <1>5, <1>6, <1>7, <1>8
        DEF Serve, ServeAdd, ServeControl, ServeGate, ServeDispatchRefused, ServeDispatch,
            ServeReplay, Served, ActivateReserve

LEMMA PollPlan ==
  ASSUME BaseInv, Poll
  PROVE  own'.plan = own.plan \/ own'.plan = NoRow \/ Finalizes
<1>0. OwnerShape(own)
  BY DEF BaseInv, ProcessOK
<1>1. CASE own' = own
  BY <1>1
<1>2. ASSUME NEW o, OwnerShape(o), o.plan = own.plan, CloseReaped(o)
      PROVE  own'.plan = own.plan
  BY <1>2, ClosedShape DEF CloseReaped
<1>3. CASE RetireAfterObserver
  BY <1>0, <1>3, ClearedShape DEF RetireAfterObserver
<1>d. CASE Die
  BY <1>d, NewOwnerShape DEF Die
<1>4. ASSUME NEW fence, NEW recoverable, PauseTracked(fence, recoverable)
      PROVE  own'.plan = own.plan \/ own'.plan = NoRow \/ Finalizes
  BY <1>0, <1>2, <1>4, <1>d, IdledShape DEF PauseTracked, Idled
<1>5. CASE ReapTerminal
  BY <1>0, <1>2, <1>4, <1>5, <1>d DEF ReapTerminal, CloseWithoutPersist, Finalizes
<1>6. CASE ReapStage
  <2>1. ASSUME own' = [own EXCEPT !.work = "prepare", !.cancel = FALSE]
        PROVE  own'.plan = own.plan
    BY <1>0, <2>1 DEF OwnerShape, OwnerRow
  <2> QED BY <1>0, <1>2, <1>4, <1>6, <2>1 DEF ReapStage, CloseWithoutPersist
<1>7. CASE ReapPreparation
  BY <1>0, <1>4, <1>7 DEF ReapPreparation, OwnerShape, OwnerRow
<1>8. CASE ReapRevokedPublication
  BY <1>0, <1>8, SeenShape DEF ReapRevokedPublication, ReapingPublication
<1>9. CASE ReapPublished
  BY <1>0, <1>2, <1>9, PublicationDroppedShape DEF ReapPublished
<1>10. CASE ReapUnpublished
  BY <1>0, <1>4, <1>10, PublicationDroppedShape DEF ReapUnpublished
<1> QED BY <1>1, <1>3, <1>5, <1>6, <1>7, <1>8, <1>9, <1>10
        DEF Poll, LaunchPreparation, LaunchPublication, LaunchTransfer, Launch, PollIdle, ReapVoid

LEMMA PlanTurned ==
  ASSUME BaseInv, [Next]_vars
  PROVE  PlanTurns
<1>0. OwnerShape(own)
  BY DEF BaseInv, ProcessOK
<1>1. CASE own'.plan = own.plan \/ own'.plan = NoRow
  BY <1>1 DEF PlanTurns
<1>2. CASE Continue
  <2>1. CASE ActivateReady
    BY <1>0, <1>1, <2>1 DEF ActivateReady, OwnerShape, OwnerRow
  <2>2. CASE DispatchFail
    <3>1. own' = ClosedOwner(own) \/ own' = Stuck(own)
      BY <2>2 DEF DispatchFail, Stuck
    <3> QED BY <1>0, <1>1, <3>1, ClosedShape, StuckShape
  <2>3. CASE Retire
    BY <1>0, <1>1, <2>3, ClearedShape DEF Retire
  <2>4. CASE DispatchResume
    BY <2>4 DEF PlanTurns
  <2> QED BY <1>1, <1>2, <2>1, <2>2, <2>3, <2>4
          DEF Continue, ActivateLaunch, ActivateBind, ActivateFail, DispatchAdd, DispatchAdvance,
              DispatchFinish, ServeRecoveryRefused
<1>3. CASE Observe
  BY <1>0, <1>1, <1>3 DEF Observe, ObserveTerminal, ObserveFiles, ObserveFail, PublishEnter,
                    PublishLink, PublishVerify, OwnerShape, OwnerRow
<1>4. CASE Lifecycle
  BY <1>0, <1>1, <1>4, CancelledShape, NewOwnerShape
     DEF Lifecycle, Stop, Shutdown, ShutdownPersist, ShutdownClear, Crash, ColdStart,
         RecoverEngine
<1>5. CASE Poll
  BY <1>5, PollPlan DEF PlanTurns
<1> QED BY <1>1, <1>2, <1>3, <1>4, <1>5, ServePlan DEF Next, vars, EngineStep, Tamper

\* The plan of a job at work was made for its present row.
PlanAtRow == own.plan # NoRow /\ AtWork(own.plan.job) =>
  own.plan.gen = job[own.plan.job].gen /\ own.plan.rev = job[own.plan.job].rev

LEMMA PlanRowStep ==
  ASSUME BaseInv, HeldIsIdle, PlanAtRow, [Next]_vars
  PROVE  PlanAtRow'
<1>0. OwnerShape(own) /\ TypeOK /\ PlanTurns
  BY PlanTurned DEF BaseInv, ProcessOK, StoreOK
<1>1. SUFFICES ASSUME NEW k, k = own'.plan.job, own'.plan # NoRow, AtWork(k)'
               PROVE  own'.plan.gen = job'[k].gen /\ own'.plan.rev = job'[k].rev
  BY DEF PlanAtRow, AtWork, Stored
<1>2. CASE DispatchResume
  <2> DEFINE p == [job |-> receipt[disp].job, req |-> disp, gen |-> job[receipt[disp].job].gen,
                   rev |-> job[receipt[disp].job].rev]
  <2>1. own' = [own EXCEPT !.work = "terminal", !.plan = p] /\ job' = job
    BY <1>2 DEF DispatchResume, storeVars
  <2>2. own'.plan = p
    BY <1>0, <2>1 DEF OwnerShape, OwnerRow
  <2> QED BY <1>1, <2>1, <2>2
<1>3. CASE Finalizes
  <2>1. /\ own.plan \in PlanRow /\ receipt[own.plan.req].job = own.plan.job
        /\ own.plan.gen = job[own.plan.job].gen /\ own.plan.rev = job[own.plan.job].rev
    BY <1>0, <1>3, OwnerFields, Arguments DEF Finalizes, PlanCurrent, OwnerShape, BaseInv, PlanOK
  <2>2. own'.plan = [own.plan EXCEPT !.rev = @ + 1]
    BY <1>0, <1>3 DEF Finalizes, OwnerShape, OwnerRow
  <2>3. k = own.plan.job /\ own'.plan.gen = own.plan.gen /\ own'.plan.rev = own.plan.rev + 1
    BY <1>1, <2>1, <2>2 DEF PlanRow
  <2>4. job'[k] = Moved(k, "finalizing") /\ job[k] \in JobRow
    BY <1>0, <1>3, <2>1, <2>3, StoredIsRow DEF Finalizes, FinalizeTerminal, TerminalOwner, TypeOK,
                                             PlanRow
  <2>5. job'[k].gen = job[k].gen /\ job'[k].rev = job[k].rev + 1
    BY <2>4 DEF Moved, JobRow
  <2> QED BY <2>1, <2>3, <2>5
<1>4. CASE own'.plan = own.plan /\ ~Finalizes
  <2>1. own.plan # NoRow /\ own.plan.job = k /\ k \in Jobs
    BY <1>1, <1>4, Arguments DEF BaseInv
  <2>2. ~Dispatches
    BY <2>1 DEF Dispatches, ServeDispatch, ControllerReady
  <2>3. ~DispatchAdvance
    BY <2>1 DEF DispatchAdvance, BaseInv, DispatchOK, Dispatching
  <2>4. Stored(k) /\ job'[k] = job[k]
    BY <1>0, <1>1, <1>4, <2>1, <2>2, <2>3, RowsSettle, IdlingRests
  <2> QED BY <1>1, <1>4, <2>1, <2>4 DEF PlanAtRow, AtWork
<1> QED BY <1>0, <1>1, <1>2, <1>3, <1>4 DEF PlanTurns

\* The plan's job is at work, its row is left alone, and the owner is sure of
\* its engine: its transfer, staging or preparation goes on.
Works == own.plan # NoRow /\ own.work # "none" /\ AtWork(own.plan.job)
RowStays == job'[own.plan.job] = job[own.plan.job] /\ ~own'.blocked
WorkStays == own'.plan = own.plan /\ own'.work = own.work

\* A command that contains the tracked job changes its row.
LEMMA ContainedStops ==
  ASSUME BaseInv, TrackedJob \in Jobs, AtWork(TrackedJob), job'[TrackedJob] = job[TrackedJob]
  PROVE  /\ \A j \in Jobs, a \in Actions : ServeContainedControl(j, a) => RefuseInFlight
         /\ ServeGatePause => RefuseInFlight \/ ContainmentFails
<1>0. TypeOK /\ Contained.job = TrackedJob
  BY NoRowAssumption, WorkerAssumption DEF BaseInv, StoreOK, TrackedJob, Contained
<1>1. job[TrackedJob] \in JobRow /\ job[TrackedJob].state \in ActiveStates
  BY <1>0, StoredIsRow DEF AtWork
<1>2. ASSUME NEW j \in Jobs, NEW a \in Actions, ServeContainedControl(j, a), ~RefuseInFlight
      PROVE  FALSE
  <2>1. j = TrackedJob /\ a \in {"pause", "remove"} /\ JobControl(j, a, TRUE, Recoverable)
    BY <1>2 DEF ServeContainedControl
  <2>2. /\ Controlled(job[j], a) \in JobRow
        /\ Controlled(job[j], a).state \notin ActiveStates
    <3>1. CASE a = "pause"
      BY <1>1, <2>1, <3>1, ControlledTyped DEF Actions, Controlled, JobRow, ActiveStates, BodyStates
    <3>2. CASE a = "remove"
      BY <1>1, <2>1, <3>2, ControlledTyped DEF Actions, Controlled, JobRow, ActiveStates, BodyStates
    <3> QED BY <2>1, <3>1, <3>2
  <2>3. job'[j] = [Controlled(job[j], a) EXCEPT !.rev = @ + 1]
    BY <1>0, <1>1, <2>1, <2>2 DEF JobControl, TypeOK
  <2>4. job'[j].state \notin ActiveStates
    BY <2>2, <2>3, RaisedKeeps
  <2> QED BY <1>1, <2>1, <2>4
<1>3. ASSUME SetGateContained(TrackedJob, Recoverable)
      PROVE  FALSE
  <2>1. job[TrackedJob].state # "paused"
    BY <1>1 DEF ActiveStates, BodyStates
  <2>2. job'[TrackedJob] = Moved(TrackedJob, "paused")
    BY <1>0, <1>3, <2>1 DEF SetGateContained, TypeOK
  <2>3. job'[TrackedJob].state = "paused"
    BY <1>1, <2>2 DEF Moved, JobRow
  <2> QED BY <2>1, <2>3
<1> QED BY <1>0, <1>2, <1>3 DEF ServeGatePause

LEMMA ServeKeepsWork ==
  ASSUME BaseInv, LaneOK, Works, RowStays, Serve
  PROVE  WorkStays
<1>0. OwnerShape(own) /\ own.ctl = "ready" /\ ~own.closeAfter
  BY DEF BaseInv, ProcessOK, OwnerShape, Works
<1>k. own.plan.job \in Jobs /\ TrackedJob = own.plan.job
  BY Arguments DEF Works, BaseInv, TrackedJob
<1>1. CASE WorkStays
  BY <1>1
<1>2. CASE RefuseInFlight
  BY <1>0, <1>2, RevokedShape DEF RefuseInFlight, WorkStays
<1>3. CASE ContainmentFails
  <2>1. own' = Stuck(Withdrawn(own)) /\ ~LinkInFlight
    BY <1>0, <1>3 DEF ContainmentFails, Stuck
  <2>2. own'.blocked
    BY <1>0, <2>1, WithdrawnShape, StuckShape DEF LinkInFlight
  <2> QED BY <2>2 DEF RowStays
<1>4. CASE ServeGatePause \/ \E j \in Jobs, a \in Actions : ServeContainedControl(j, a)
  BY <1>2, <1>3, <1>4, <1>k, ContainedStops DEF Works, RowStays
<1>5. CASE ActivateDiscard
  BY <1>0, <1>5 DEF ActivateDiscard, Serving, LaneOK, Quiet, Works
<1>6. ASSUME NEW r \in Requests, NEW j \in Jobs, ServeRecovery(r, j)
      PROVE  WorkStays
  BY <1>6, RecoveryBegins DEF Begins, WorkStays
<1> QED BY <1>1, <1>4, <1>5, <1>6
        DEF Serve, ServeAdd, ServeControl, ServeGate, ServeDispatchRefused, ServeDispatch,
            ServeReplay, Served, ActivateReserve, WorkStays

LEMMA ContinueKeepsWork ==
  ASSUME BaseInv, Works, RowStays, Continue
  PROVE  WorkStays
<1>0. OwnerShape(own) /\ TypeOK /\ own.ctl = "ready" /\ own.plan.job \in Jobs
  BY Arguments DEF BaseInv, ProcessOK, OwnerShape, StoreOK, Works
<1>1. ~Retire /\ ~ActivateReady /\ ~DispatchResume
  <2>1. pc # "retire" /\ pc \notin Activating
    BY <1>0 DEF BaseInv, StepOK
  <2>2. pc # "advanced"
    BY DEF Works, BaseInv, DispatchOK, Dispatching
  <2> QED BY <2>1, <2>2 DEF Retire, ActivateReady, DispatchResume, Activating
<1>2. CASE DispatchFail
  <2>1. pc = "resumed" /\ own.plan.req = disp /\ receipt[disp].job = own.plan.job
    BY <1>2 DEF DispatchFail, Works, BaseInv, DispatchOK, PlanOK, Dispatching
  <2>2. CASE AbortDispatch(disp)
    <3>1. job[own.plan.job] \in JobRow /\ job[own.plan.job].state # "paused"
      BY <1>0, StoredIsRow DEF Works, AtWork, ActiveStates, BodyStates
    <3>2. job'[own.plan.job] = Moved(own.plan.job, "paused")
      BY <1>0, <2>1, <2>2, <3>1 DEF AbortDispatch, TypeOK
    <3>3. job'[own.plan.job].state = "paused"
      BY <3>1, <3>2 DEF Moved, JobRow
    <3> QED BY <3>1, <3>3 DEF RowStays
  <2>3. CASE own' = [ClosedOwner(own) EXCEPT !.blocked = TRUE]
    <3>1. own' = Stuck(own)
      BY <2>3 DEF Stuck
    <3>2. own'.blocked
      BY <1>0, <3>1, StuckShape
    <3> QED BY <3>2 DEF RowStays
  <2> QED BY <1>2, <2>2, <2>3 DEF DispatchFail
<1> QED BY <1>1, <1>2
        DEF Continue, ActivateLaunch, ActivateBind, ActivateFail, DispatchAdd, DispatchAdvance,
            DispatchFinish, ServeRecoveryRefused, WorkStays

LEMMA PollKeepsWork ==
  ASSUME BaseInv, LaneOK, PublicationFresh, PlanAtRow, Works, RowStays, pc' # "down", Poll
  PROVE  \/ WorkStays
         \/ own'.plan = own.plan /\ own.work = "stage" /\ own'.work = "prepare"
         \/ own.work = "prepare" /\ own'.pub # NoRow
<1>0. /\ OwnerShape(own) /\ TypeOK /\ own.ctl = "ready" /\ ~own.closeAfter
      /\ own.plan.job \in Jobs /\ receipt[own.plan.req].job = own.plan.job
  BY Arguments DEF BaseInv, ProcessOK, OwnerShape, StoreOK, PlanOK, Works
<1>r. job[own.plan.job] \in JobRow /\ job[own.plan.job].state \in ActiveStates
  BY <1>0, StoredIsRow DEF Works, AtWork
<1>c. PlanCurrent
  BY DEF PlanCurrent, PlanAtRow, Works
<1>m. ASSUME NEW s
      PROVE  job' # [job EXCEPT ![own.plan.job] = Moved(own.plan.job, s)]
  <2>1. ASSUME job' = [job EXCEPT ![own.plan.job] = Moved(own.plan.job, s)]
        PROVE  FALSE
    <3>1. job'[own.plan.job] = Moved(own.plan.job, s)
      BY <1>0, <2>1 DEF TypeOK
    <3>2. job'[own.plan.job].rev = job[own.plan.job].rev + 1
      BY <1>r, <3>1 DEF Moved, JobRow
    <3> QED BY <1>r, <3>2 DEF RowStays, JobRow, Revisions
  <2> QED BY <2>1
<1>1. CASE own' = own
  BY <1>1 DEF WorkStays
<1>2. ASSUME NEW recoverable, PauseTracked(own.plan, recoverable)
      PROVE  FALSE
  BY <1>2, <1>m DEF PauseTracked, PauseActive, Die
<1>3. ~RetireAfterObserver
  BY <1>0 DEF RetireAfterObserver
<1>4. CASE ReapTerminal
  BY <1>2, <1>4, <1>0, <1>c, <1>m DEF ReapTerminal, FinalizeTerminal, FailTerminal, Die
<1>5. CASE ReapStage
  <2>1. own' = [own EXCEPT !.work = "prepare", !.cancel = FALSE] /\ own.work = "stage"
    BY <1>2, <1>5, <1>c DEF ReapStage, Reaped
  <2> QED BY <1>0, <2>1 DEF OwnerShape, OwnerRow
<1>6. CASE ReapPreparation
  <2> DEFINE p == [job |-> own.plan.job, gen |-> own.plan.gen, rev |-> own.plan.rev,
                   rec |-> NoRow, stage |-> TRUE, seen |-> FALSE]
  <2>1. /\ own' = [own EXCEPT !.work = "none", !.permit = FreshPermit, !.pub = p]
        /\ own.work = "prepare"
    BY <1>2, <1>6 DEF ReapPreparation, Reaped
  <2>2. p \in PublicationRow
    BY <1>0, OwnerFields DEF Works, OwnerShape, PlanRow, PublicationRow, OrNoRow
  <2> HIDE DEF p
  <2>3. own'.pub = p
    BY <1>0, <2>1 DEF OwnerShape, OwnerRow
  <2> QED BY <2>1, <2>2, <2>3, Records
<1>7. ~ReapingPublication
  BY DEF ReapingPublication, Reaping, ObsDone, LaneOK, PublicationFresh, Works
<1> QED BY <1>1, <1>3, <1>4, <1>5, <1>6, <1>7
        DEF Poll, LaunchPreparation, LaunchPublication, LaunchTransfer, Launch, PollIdle, ReapVoid,
            ReapRevokedPublication, ReapPublished, ReapUnpublished

LEMMA WorkGoesOn ==
  ASSUME BaseInv, LaneOK, PublicationFresh, PlanAtRow, Works, RowStays,
         pc' \notin {"stopped", "down"}, [Next]_vars
  PROVE  \/ WorkStays
         \/ own'.plan = own.plan /\ own.work = "stage" /\ own'.work = "prepare"
         \/ own.work = "prepare" /\ own'.pub # NoRow
<1>0. OwnerShape(own)
  BY DEF BaseInv, ProcessOK
<1>1. CASE own' = own
  BY <1>1 DEF WorkStays
<1>2. CASE Observe
  BY <1>0, <1>2 DEF Observe, ObserveTerminal, ObserveFiles, ObserveFail, PublishEnter,
                    PublishLink, PublishVerify, OwnerShape, OwnerRow, WorkStays
<1>3. CASE Lifecycle
  <2>1. pc \notin {"down", "booted"}
    BY NewOwnerShape DEF BaseInv, StepOK, Works
  <2> QED BY <1>0, <1>3, <2>1, CancelledShape
          DEF Lifecycle, Stop, Shutdown, ShutdownPersist, ShutdownClear, Crash, ColdStart,
              RecoverEngine, WorkStays
<1> QED BY <1>1, <1>2, <1>3, ServeKeepsWork, ContinueKeepsWork, PollKeepsWork
        DEF Next, vars, EngineStep, Tamper

Transfers(k) == own.plan # NoRow /\ own.plan.job = k /\ own.work = "terminal"

\* A job that may have a body is being dispatched, or its transfer is observed.
BodyTracked == pc \notin {"stopped", "down"} /\ ~own.blocked =>
  \A k \in Jobs : Stored(k) /\ job[k].state \in BodyStates =>
    \/ pc \in {"resolved", "added", "advanced"} /\ receipt[disp].job = k
    \/ Transfers(k)

\* A dispatch goes on while its job's row is left alone and its engine is sure.
LEMMA DispatchGoesOn ==
  ASSUME BaseInv, [Next]_vars, NEW k \in Jobs, Stored(k), job[k].state \in BodyStates,
         job'[k] = job[k], ~own'.blocked, pc' \notin {"stopped", "down"},
         pc \in {"resolved", "added", "advanced"}, receipt[disp].job = k
  PROVE  \/ pc' \in {"resolved", "added", "advanced"} /\ receipt'[disp'].job = k
         \/ own'.plan # NoRow /\ own'.plan.job = k /\ own'.work = "terminal"
<1>0. OwnerShape(own) /\ TypeOK /\ EligibleIsCurrent /\ [StoreNext]_storeVars
  BY StoreStep DEF BaseInv, ProcessOK, StoreOK
<1>1. disp \in Requests /\ Pending(disp)
  BY DEF BaseInv, StepOK, DispatchOK, Dispatching
<1>2. receipt'[disp].job = k
  BY <1>0, <1>1, ReceiptStays DEF Pending
<1>3. CASE pc' \in {"resolved", "added", "advanced"} /\ disp' = disp
  BY <1>2, <1>3
<1>4. CASE DispatchResume
  <2> DEFINE p == [job |-> receipt[disp].job, req |-> disp, gen |-> job[receipt[disp].job].gen,
                   rev |-> job[receipt[disp].job].rev]
  <2>1. own' = [own EXCEPT !.work = "terminal", !.plan = p]
    BY <1>4 DEF DispatchResume
  <2>2. p \in PlanRow
    <3>1. job[k] \in JobRow
      BY <1>0, StoredIsRow
    <3> QED BY <1>1, <3>1 DEF PlanRow, JobRow
  <2>3. p.job = k
    OBVIOUS
  <2> HIDE DEF p
  <2>4. own'.plan = p /\ own'.work = "terminal"
    BY <1>0, <2>1 DEF OwnerShape, OwnerRow
  <2> QED BY <2>2, <2>3, <2>4, Records
<1>5. CASE DispatchFail
  <2>1. CASE AbortDispatch(disp)
    <3>1. job[k] \in JobRow /\ job[k].state # "paused"
      BY <1>0, StoredIsRow DEF BodyStates
    <3>2. job'[k] = Moved(k, "paused")
      BY <1>0, <2>1, <3>1 DEF AbortDispatch, TypeOK
    <3>3. job'[k].state = "paused"
      BY <3>1, <3>2 DEF Moved, JobRow
    <3> QED BY <3>1, <3>3
  <2>2. CASE own' = [ClosedOwner(own) EXCEPT !.blocked = TRUE]
    <3>1. own' = Stuck(own)
      BY <2>2 DEF Stuck
    <3> QED BY <1>0, <3>1, StuckShape
  <2> QED BY <1>5, <2>1, <2>2 DEF DispatchFail
<1>6. CASE Continue
  BY <1>3, <1>4, <1>5, <1>6
     DEF Continue, ActivateLaunch, ActivateBind, ActivateReady, ActivateFail, DispatchAdd,
         DispatchAdvance, DispatchFinish, ServeRecoveryRefused, Retire
<1>7. CASE Observe
  BY <1>3, <1>7 DEF Observe, ObserveTerminal, ObserveFiles, ObserveFail, PublishEnter,
                    PublishLink, PublishVerify
<1> QED BY <1>3, <1>6, <1>7
        DEF Next, vars, EngineStep, Tamper, Serve, ServeAdd, ServeControl, ServeContainedControl,
            ServeGate, ServeGatePause, ActivateReserve, ActivateDiscard, ServeDispatchRefused,
            ServeDispatch, ServeRecovery, ServeReplay, Served, Serving,
            Poll, RetireAfterObserver, LaunchPreparation, LaunchPublication,
            LaunchTransfer, Launch, PollIdle, ReapVoid, ReapTerminal, ReapStage,
            ReapPreparation, Reaped, ReapRevokedPublication, ReapPublished, ReapUnpublished,
            ReapingPublication, Reaping, Looping, Lifecycle, Stop, Shutdown, ShutdownPersist,
            ShutdownClear, Crash, ColdStart, RecoverEngine

LEMMA BodyTrackedStep ==
  ASSUME BaseInv, HeldIsIdle, LaneOK, PublicationFresh, PlanAtRow, BodyTracked, [Next]_vars
  PROVE  BodyTracked'
<1>0. OwnerShape(own) /\ TypeOK /\ EligibleIsCurrent /\ [StoreNext]_storeVars
  BY StoreStep DEF BaseInv, ProcessOK, StoreOK
<1>1. SUFFICES ASSUME pc' \notin {"stopped", "down"}, ~own'.blocked, NEW k \in Jobs,
                      Stored(k)', job'[k].state \in BodyStates
               PROVE  \/ pc' \in {"resolved", "added", "advanced"} /\ receipt'[disp'].job = k
                      \/ own'.plan # NoRow /\ own'.plan.job = k /\ own'.work = "terminal"
  BY DEF BodyTracked, Transfers
<1>a. AtWork(k)'
  BY <1>1 DEF AtWork, ActiveStates
<1>2. CASE Dispatches
  <2>1. PICK r \in Requests, j \in Jobs : ServeDispatch(r, j)
    BY <1>2 DEF Dispatches
  <2>2. /\ pc' = "resolved" /\ disp' = r /\ Stored(j)
        /\ receipt' = [receipt EXCEPT ![r] = Receipt(j, "pending", Fence(Moved(j, "resolving")))]
        /\ job' = [job EXCEPT ![j] = Moved(j, "resolving")]
    BY <2>1 DEF ServeDispatch, AdmitDispatch
  <2>3. receipt'[disp'].job = j
    BY <1>0, <2>2 DEF TypeOK, Receipt
  <2>4. CASE j # k
    <3>1. job'[k] = job[k] /\ Stored(k)
      BY <1>0, <1>1, <2>2, <2>4 DEF TypeOK, Stored
    <3>2. OtherBody(j)
      BY <1>1, <2>4, <3>1 DEF OtherBody
    <3> QED BY <2>1, <3>2 DEF ServeDispatch, AdmitDispatch, DispatchVerdict
  <2> QED BY <2>2, <2>3, <2>4
<1>3. CASE ~Dispatches /\ (Stored(k) /\ job'[k] = job[k])
  <2>1. job[k].state \in BodyStates /\ AtWork(k)
    BY <1>1, <1>3 DEF AtWork, ActiveStates
  <2>2. pc \notin {"stopped", "down"}
    <3>1. ~ColdStart
      <4>1. ASSUME RecoverCold
            PROVE  FALSE
        <5>1. Open(k) /\ job[k] \in JobRow
          BY <1>0, <1>3, <2>1, StoredIsRow DEF Open, TerminalStates, BodyStates
        <5>2. job'[k] = [job[k] EXCEPT !.gen = @ + 1, !.rev = @ + 1, !.state = "paused"]
          BY <4>1, <5>1 DEF RecoverCold
        <5>3. job'[k].state = "paused"
          BY <5>1, <5>2 DEF JobRow
        <5> QED BY <1>1, <5>3 DEF BodyStates
      <4> QED BY <4>1 DEF ColdStart
    <3> QED BY <1>1, <3>1, EndsOnly
  <2>3. ~own.blocked
    BY <1>1, BlockedStays
  <2>4. CASE pc \in {"resolved", "added", "advanced"} /\ receipt[disp].job = k
    BY <1>1, <1>3, <2>1, <2>4, DispatchGoesOn
  <2>5. CASE Transfers(k)
    <3>1. Works /\ RowStays
      BY <1>1, <1>3, <2>1, <2>5 DEF Transfers, Works, RowStays
    <3>2. WorkStays
      BY <1>1, <2>5, <3>1, WorkGoesOn DEF Transfers
    <3> QED BY <2>5, <3>2 DEF WorkStays, Transfers
  <2> QED BY <1>3, <2>1, <2>2, <2>3, <2>4, <2>5 DEF BodyTracked
<1>4. CASE DispatchAdvance
  <2>1. /\ disp \in Requests /\ pc' = "advanced" /\ disp' = disp
        /\ job' = [job EXCEPT ![receipt[disp].job] = Moved(receipt[disp].job, "downloading")]
        /\ Pending(disp)
    BY <1>4 DEF DispatchAdvance, AdvanceToDownloading, BaseInv, StepOK, DispatchOK, Dispatching
  <2>2. receipt'[disp].job = receipt[disp].job
    BY <1>0, <2>1, ReceiptStays DEF Pending
  <2>3. CASE receipt[disp].job # k
    <3>1. Stored(k) /\ job'[k] = job[k]
      BY <1>0, <1>1, <2>1, <2>3 DEF TypeOK, Stored
    <3>2. ~Dispatches
      BY <1>4 DEF Dispatches, ServeDispatch, Serving, DispatchAdvance
    <3> QED BY <1>3, <3>1, <3>2
  <2> QED BY <2>1, <2>2, <2>3
<1>5. CASE Finalizes
  <2>1. own.plan.req \in Requests /\ receipt[own.plan.req].job \in Jobs
    BY <1>0, <1>5, Arguments DEF Finalizes, PlanCurrent, BaseInv, PlanOK
  <2>2. /\ job' = [job EXCEPT ![receipt[own.plan.req].job] =
                     Moved(receipt[own.plan.req].job, "finalizing")]
        /\ Stored(receipt[own.plan.req].job)
    BY <1>5 DEF Finalizes, FinalizeTerminal, TerminalOwner
  <2>3. CASE receipt[own.plan.req].job # k
    <3>1. Stored(k) /\ job'[k] = job[k]
      BY <1>0, <1>1, <2>2, <2>3 DEF TypeOK, Stored
    <3>2. ~Dispatches
      BY <1>5 DEF Dispatches, ServeDispatch, ControllerReady, Finalizes, PlanCurrent
    <3> QED BY <1>3, <3>1, <3>2
  <2>4. CASE receipt[own.plan.req].job = k
    <3>1. job[k] \in JobRow /\ job'[k] = Moved(k, "finalizing")
      BY <1>0, <2>2, <2>4, StoredIsRow DEF TypeOK
    <3>2. job'[k].state = "finalizing"
      BY <3>1 DEF Moved, JobRow
    <3> QED BY <1>1, <3>2 DEF BodyStates
  <2> QED BY <2>3, <2>4
<1>6. CASE Idling /\ ~Dispatches
  BY <1>0, <1>3, <1>6, <1>a, IdlingRests
<1> QED BY <1>2, <1>4, <1>5, <1>6, RowsSettle

-----------------------------------------------------------------------------
(* A job being finalized, when there is one job only.                      *)

Finalizing(k) == Stored(k) /\ job[k].state = "finalizing"

\* The job being finalized is staged or prepared, or its publication is on.
FinalTracked == OneJob /\ pc \notin {"stopped", "down"} /\ ~own.blocked =>
  \A k \in Jobs : Finalizing(k) =>
    \/ own.plan # NoRow /\ own.work \in {"stage", "prepare"}
    \/ own.pub # NoRow

\* No recovery is on while the job is being finalized.
RecoveryRests == OneJob /\ ~own.blocked /\ own.pub # NoRow /\ own.pub.rec # NoRow =>
  ~Finalizing(own.pub.job)

\* A step by which the job being finalized stays so keeps its publication.
FinalKept(k) ==
  /\ OneJob /\ k \in Jobs /\ Finalizing(k) /\ job'[k] = job[k]
  /\ ~own.blocked /\ own.pub # NoRow /\ RecoveryRests

LEMMA FinalAtWork ==
  ASSUME TypeOK, NEW k, FinalKept(k)
  PROVE  /\ AtWork(k) /\ job[k] \in JobRow /\ job[k].state = "finalizing"
         /\ \A s \in {"paused", "completed"} : job' # [job EXCEPT ![k] = Moved(k, s)]
<1>1. /\ k \in Jobs /\ Stored(k) /\ job[k].state = "finalizing" /\ job'[k] = job[k]
      /\ job[k] \in JobRow
  BY StoredIsRow DEF FinalKept, Finalizing
<1>2. AtWork(k)
  BY <1>1 DEF AtWork, ActiveStates
<1>3. ASSUME NEW s \in {"paused", "completed"}, job' = [job EXCEPT ![k] = Moved(k, s)]
      PROVE  FALSE
  <2>1. job'[k] = Moved(k, s)
    BY <1>1, <1>3 DEF TypeOK
  <2>2. job'[k].state = s
    BY <1>1, <2>1 DEF Moved, JobRow
  <2> QED BY <1>1, <2>2
<1> QED BY <1>1, <1>2, <1>3

LEMMA ServeKeepsPublication ==
  ASSUME BaseInv, NEW k, FinalKept(k), Serve
  PROVE  own'.pub # NoRow
<1>0. /\ OwnerShape(own) /\ TypeOK /\ own.pub # NoRow /\ k \in Jobs /\ job'[k] = job[k]
      /\ OneJob
  BY DEF BaseInv, ProcessOK, StoreOK, FinalKept
<1>k. AtWork(k) /\ TrackedJob = k
  BY <1>0, FinalAtWork, Arguments DEF TrackedJob, OneJob, BaseInv
<1>1. CASE own'.pub = own.pub
  BY <1>0, <1>1
<1>2. CASE RefuseInFlight
  BY <1>0, <1>1, <1>2, RevokedShape DEF RefuseInFlight
<1>3. CASE ContainmentFails
  <2>1. own' = Withdrawn(own) \/ own' = Stuck(Withdrawn(own))
    BY <1>3 DEF ContainmentFails, Stuck
  <2>2. OwnerShape(Withdrawn(own)) /\ Withdrawn(own).pub # NoRow
    BY <1>0, <1>3, WithdrawnShape DEF ContainmentFails, LinkInFlight
  <2> QED BY <2>1, <2>2, StuckShape
<1>4. CASE ServeGatePause \/ \E j \in Jobs, a \in Actions : ServeContainedControl(j, a)
  BY <1>0, <1>2, <1>3, <1>4, <1>k, ContainedStops
<1>5. CASE ActivateDiscard
  BY <1>0, <1>1, <1>5, ClearedShape DEF ActivateDiscard
<1>6. ASSUME NEW r \in Requests, NEW j \in Jobs, ServeRecovery(r, j)
      PROVE  own'.pub # NoRow
  BY <1>0, <1>6, RecoveryBegins DEF Begins
<1> QED BY <1>1, <1>4, <1>5, <1>6
        DEF Serve, ServeAdd, ServeControl, ServeGate, ServeDispatchRefused, ServeDispatch,
            ServeReplay, Served, ActivateReserve

LEMMA PollKeepsPublication ==
  ASSUME BaseInv, NEW k, FinalKept(k), pc' # "down", Poll
  PROVE  own'.pub # NoRow
<1>0. /\ OwnerShape(own) /\ TypeOK /\ own.pub # NoRow /\ own.pub.job = k
      /\ own.plan # NoRow => own.plan.job = k
  BY Arguments DEF BaseInv, ProcessOK, StoreOK, FinalKept, OneJob
<1>1. CASE own'.pub = own.pub
  BY <1>0, <1>1
<1>2. CASE RetireAfterObserver \/ CloseReaped(own)
  BY <1>0, <1>1, <1>2, ClearedShape, ClosedShape DEF RetireAfterObserver, CloseReaped
<1>3. ASSUME NEW fence, fence.job = k, NEW recoverable, PauseTracked(fence, recoverable)
      PROVE  FALSE
  BY <1>0, <1>3, FinalAtWork DEF PauseTracked, PauseActive, Die
<1>4. own.work # "none" => own.plan # NoRow
  BY <1>0 DEF OwnerShape
<1>5. CASE ReapTerminal
  <2>1. own.plan # NoRow
    BY <1>4, <1>5 DEF ReapTerminal, Reaped
  <2>2. ASSUME PlanCurrent, obs.res = "ok", FinalizeTerminal(own.plan.req),
               own' = [own EXCEPT !.plan.rev = @ + 1, !.work = "stage", !.pay = obs.pay]
        PROVE  own'.pub = own.pub
    BY <1>5, <2>2, TerminalFinalized DEF ReapTerminal
  <2> QED BY <1>0, <1>1, <1>2, <1>3, <1>5, <2>1, <2>2
          DEF ReapTerminal, CloseWithoutPersist, Die
<1>6. CASE ReapStage
  <2>1. own.plan # NoRow
    BY <1>4, <1>6 DEF ReapStage, Reaped
  <2>2. ASSUME own' = [own EXCEPT !.work = "prepare", !.cancel = FALSE]
        PROVE  own'.pub = own.pub
    BY <1>0, <2>2 DEF OwnerShape, OwnerRow
  <2> QED BY <1>0, <1>1, <1>2, <1>3, <1>6, <2>1, <2>2 DEF ReapStage, CloseWithoutPersist
<1>7. CASE ReapPreparation
  <2> DEFINE p == [job |-> own.plan.job, gen |-> own.plan.gen, rev |-> own.plan.rev,
                   rec |-> NoRow, stage |-> TRUE, seen |-> FALSE]
  <2>1. own.plan # NoRow
    BY <1>4, <1>7 DEF ReapPreparation, Reaped
  <2>2. own' = [own EXCEPT !.work = "none", !.permit = FreshPermit, !.pub = p]
    BY <1>0, <1>3, <1>7, <2>1 DEF ReapPreparation
  <2>3. p \in PublicationRow
    BY <1>0, <2>1, OwnerFields DEF OwnerShape, PlanRow, PublicationRow, OrNoRow
  <2> HIDE DEF p
  <2>4. own'.pub = p
    BY <1>0, <2>2 DEF OwnerShape, OwnerRow
  <2> QED BY <2>3, <2>4, Records
<1>8. CASE ReapRevokedPublication
  BY <1>0, <1>8, SeenShape DEF ReapRevokedPublication, ReapingPublication
<1>9. ~ReapPublished
  BY <1>0, FinalAtWork DEF ReapPublished, CompletePublication
<1>10. ~ReapUnpublished
  <2>1. own.pub.rec = NoRow
    BY <1>0 DEF FinalKept, RecoveryRests
  <2> QED BY <1>0, <1>3, <2>1 DEF ReapUnpublished
<1> QED BY <1>1, <1>2, <1>5, <1>6, <1>7, <1>8, <1>9, <1>10
        DEF Poll, LaunchPreparation, LaunchPublication, LaunchTransfer, Launch, PollIdle, ReapVoid

LEMMA PublicationKept ==
  ASSUME BaseInv, NEW k, FinalKept(k), pc' # "down", [Next]_vars
  PROVE  own'.pub # NoRow
<1>0. OwnerShape(own) /\ own.pub # NoRow
  BY DEF BaseInv, ProcessOK, FinalKept
<1>1. CASE own'.pub = own.pub
  BY <1>0, <1>1
<1>2. CASE Lifecycle
  <2>1. pc \notin {"down", "booted"}
    BY <1>0, NewOwnerShape DEF BaseInv, StepOK
  <2> QED BY <1>0, <1>2, <2>1, CancelledShape
          DEF Lifecycle, Stop, Shutdown, ShutdownPersist, ShutdownClear, Crash, ColdStart,
              RecoverEngine
<1> QED BY <1>1, <1>2, ServeKeepsPublication, ContinueTurns, PollKeepsPublication, ThreadTurns
        DEF Next, vars

LEMMA FinalStep ==
  ASSUME BaseInv, HeldIsIdle, LaneOK, PublicationFresh, PlanAtRow, RecoveryRests, FinalTracked,
         [Next]_vars
  PROVE  FinalTracked'
<1>0. OwnerShape(own) /\ TypeOK
  BY DEF BaseInv, ProcessOK, StoreOK
<1>1. SUFFICES ASSUME OneJob, pc' \notin {"stopped", "down"}, ~own'.blocked, NEW k \in Jobs,
                      Stored(k)', job'[k].state = "finalizing"
               PROVE  \/ own'.plan # NoRow /\ own'.work \in {"stage", "prepare"}
                      \/ own'.pub # NoRow
  BY DEF FinalTracked, Finalizing, OneJob
<1>m. ASSUME NEW j \in Jobs, NEW s, s # "finalizing", Stored(j)
      PROVE  job' # [job EXCEPT ![j] = Moved(j, s)]
  <2>1. ASSUME job' = [job EXCEPT ![j] = Moved(j, s)]
        PROVE  FALSE
    <3>1. job[k] \in JobRow /\ job'[k] = Moved(k, s)
      BY <1>0, <1>1, <1>m, <2>1, StoredIsRow DEF TypeOK, OneJob
    <3>2. job'[k].state = s
      BY <3>1 DEF Moved, JobRow
    <3> QED BY <1>1, <1>m, <3>2
  <2> QED BY <2>1
<1>2. ~Dispatches
  BY <1>m DEF Dispatches, ServeDispatch, AdmitDispatch
<1>3. ~DispatchAdvance
  <2>1. ASSUME DispatchAdvance
        PROVE  FALSE
    <3>1. /\ Stored(receipt[disp].job) /\ disp \in Requests /\ receipt[disp] # NoRow
          /\ job' = [job EXCEPT ![receipt[disp].job] = Moved(receipt[disp].job, "downloading")]
      BY <2>1 DEF DispatchAdvance, AdvanceToDownloading, BaseInv, StepOK, DispatchOK, Dispatching,
                  Pending
    <3>2. receipt[disp].job \in Jobs
      BY <1>0, <3>1, PresentIsReceiptRow
    <3> QED BY <1>m, <3>1, <3>2
  <2> QED BY <2>1
<1>4. CASE Finalizes
  <2>1. own'.plan # NoRow
    BY <1>4, TerminalFinalized DEF Finalizes
  <2>2. own'.work = "stage"
    BY <1>0, <1>4 DEF Finalizes, OwnerShape, OwnerRow
  <2> QED BY <2>1, <2>2
<1>5. CASE Idling
  <2>1. AtWork(k)'
    BY <1>1 DEF AtWork, ActiveStates
  <2>2. Stored(k) /\ job'[k] = job[k]
    BY <1>0, <1>5, <2>1, IdlingRests
  <2>3. Finalizing(k) /\ AtWork(k) /\ job[k] \in JobRow
    <3>1. job[k].state = "finalizing"
      BY <1>1, <2>2
    <3> QED BY <1>0, <2>2, <3>1, StoredIsRow DEF Finalizing, AtWork, ActiveStates
  <2>4. pc \notin {"stopped", "down"}
    <3>1. ~RecoverCold
      <4>1. ASSUME RecoverCold
            PROVE  FALSE
        <5>1. Open(k)
          BY <2>3 DEF Open, Finalizing, TerminalStates
        <5>2. job'[k] = [job[k] EXCEPT !.gen = @ + 1, !.rev = @ + 1, !.state = "paused"]
          BY <4>1, <5>1 DEF RecoverCold
        <5>3. job'[k].state = "paused"
          BY <2>3, <5>2 DEF JobRow
        <5> QED BY <1>1, <5>3
      <4> QED BY <4>1
    <3> QED BY <1>1, <3>1, EndsOnly DEF ColdStart
  <2>5. ~own.blocked
    BY <1>1, BlockedStays
  <2>6. CASE own.plan # NoRow /\ own.work \in {"stage", "prepare"}
    <3>1. own.plan.job = k
      BY <1>1, <2>6, Arguments DEF BaseInv, OneJob
    <3>2. Works /\ RowStays
      BY <1>1, <2>2, <2>3, <2>6, <3>1 DEF Works, RowStays
    <3> QED BY <1>1, <2>6, <3>2, WorkGoesOn DEF WorkStays
  <2>7. CASE own.pub # NoRow
    <3>1. FinalKept(k)
      BY <1>1, <2>2, <2>3, <2>5, <2>7 DEF FinalKept
    <3> QED BY <1>1, <3>1, PublicationKept
  <2> QED BY <1>1, <2>3, <2>4, <2>5, <2>6, <2>7 DEF FinalTracked
<1> QED BY <1>2, <1>3, <1>4, <1>5, RowsSettle

LEMMA RecoveryRestsStep ==
  ASSUME BaseInv, HeldIsIdle, LaneOK, PublicationFresh, RecoveryRests, FinalTracked,
         [Next]_vars
  PROVE  RecoveryRests'
<1>0. OwnerShape(own) /\ TypeOK /\ PublicationTurns /\ BaseInv'
  BY PublicationStep, BaseStep DEF BaseInv, ProcessOK, StoreOK
<1>1. SUFFICES ASSUME OneJob, ~own'.blocked, own'.pub # NoRow, own'.pub.rec # NoRow,
                      NEW k, k = own'.pub.job, Stored(k)', job'[k].state = "finalizing"
               PROVE  FALSE
  BY DEF RecoveryRests, Finalizing, OneJob, Stored
<1>2. CASE own'.pub = own.pub
  <2>1. own.pub # NoRow /\ own.pub.rec # NoRow /\ own.pub.job = k /\ k \in Jobs
    BY <1>1, <1>2, Arguments DEF BaseInv
  <2>2. ~own.blocked
    <3>1. pc' # "down"
      BY <1>0, <1>1, NewOwnerShape DEF BaseInv, StepOK
    <3> QED BY <1>1, <3>1, BlockedStays
  <2>3. own.work = "none"
    BY <2>1 DEF LaneOK, PublicationFresh
  <2>4. ~Finalizes
    BY <2>3 DEF Finalizes, Reaped
  <2>m. ASSUME NEW j \in Jobs, NEW s, s # "finalizing", Stored(j),
               job' = [job EXCEPT ![j] = Moved(j, s)]
        PROVE  FALSE
    <3>1. job[k] \in JobRow /\ job'[k] = Moved(k, s)
      BY <1>0, <1>1, <2>1, <2>m, StoredIsRow DEF TypeOK, OneJob
    <3>2. job'[k].state = s
      BY <3>1 DEF Moved, JobRow
    <3> QED BY <1>1, <2>m, <3>2
  <2>5. ~Dispatches
    BY <2>m DEF Dispatches, ServeDispatch, AdmitDispatch
  <2>6. ~DispatchAdvance
    <3>1. ASSUME DispatchAdvance
          PROVE  FALSE
      <4>1. /\ Stored(receipt[disp].job) /\ disp \in Requests /\ receipt[disp] # NoRow
            /\ job' = [job EXCEPT ![receipt[disp].job] = Moved(receipt[disp].job, "downloading")]
        BY <3>1 DEF DispatchAdvance, AdvanceToDownloading, BaseInv, StepOK, DispatchOK, Dispatching,
                    Pending
      <4>2. receipt[disp].job \in Jobs
        BY <1>0, <4>1, PresentIsReceiptRow
      <4> QED BY <2>m, <4>1, <4>2
    <3> QED BY <3>1
  <2>7. AtWork(k)'
    BY <1>1 DEF AtWork, ActiveStates
  <2>8. Stored(k) /\ job'[k] = job[k]
    BY <1>0, <2>1, <2>4, <2>5, <2>6, <2>7, RowsSettle, IdlingRests
  <2> QED BY <1>1, <2>1, <2>2, <2>8 DEF RecoveryRests, Finalizing
<1>3. ASSUME NEW r \in Requests, NEW j \in Jobs, ServeRecovery(r, j), Begins(r, j)
      PROVE  FALSE
  <2>1. j = k /\ own.pub = NoRow /\ obs = NoRow /\ own'.blocked = own.blocked /\ pc = "main"
    BY <1>1, <1>3, RecoveryBegins DEF Begins, ServeRecovery, Serving
  <2>2. Stored(j) /\ job' = job
    BY <1>3 DEF ServeRecovery, AdmitRecovery
  <2>3. own.work \in {"stage", "prepare"}
    BY <1>1, <2>1, <2>2 DEF FinalTracked, Finalizing
  <2>4. ~own.closeAfter
    BY <1>0, <2>3 DEF OwnerShape
  <2> QED BY <1>1, <2>1, <2>3, <2>4 DEF LaneOK, Quiet
<1> QED BY <1>0, <1>1, <1>2, <1>3 DEF PublicationTurns

-----------------------------------------------------------------------------
(* What the store holds as going on is in the owner's hands.               *)

TrackOK ==
  /\ PublicationFresh /\ RecoveryAtRow /\ AfterMain /\ Spent /\ PendingOK
  /\ PlanAtRow /\ BodyTracked /\ RecoveryRests /\ FinalTracked

LEMMA TrackHolds ==
  ASSUME ~SharedLane
  PROVE  Spec => []TrackOK
<1>1. Init => TrackOK
  <2>1. ASSUME Init
        PROVE  /\ own.pub = NoRow /\ own.plan = NoRow /\ ~own.closeAfter
               /\ \A k \in Jobs : ~Stored(k) /\ ~Eligible(k)
    <3>1. own.pub = NoRow /\ own.plan = NoRow /\ ~own.closeAfter
      BY <2>1, NewOwnerShape DEF Init
    <3>2. ASSUME NEW k \in Jobs
          PROVE  ~Stored(k) /\ ~Eligible(k)
      BY <2>1 DEF Init, StoreInit, Stored, Eligible
    <3> QED BY <3>1, <3>2
  <2> QED BY <2>1 DEF TrackOK, PublicationFresh, RecoveryAtRow, AfterMain, Spent, PendingOK,
                      PlanAtRow, BodyTracked, RecoveryRests, FinalTracked, Finalizing
<1>2. BaseInv /\ HeldIsIdle /\ LaneOK /\ TrackOK /\ [Next]_vars => TrackOK'
  BY FreshStep, RecoveryRowStep, AfterMainStep, SpentStep, PendingStep, PlanRowStep,
     BodyTrackedStep, RecoveryRestsStep, FinalStep DEF TrackOK
<1>3. Spec => []HeldIsIdle
  BY WorkerKeepsStore, HoldKept, PTL
<1> QED BY <1>1, <1>2, <1>3, BaseHolds, LinkHolds, PTL DEF Spec

\* Back in its main loop, no request is left for the thread to abort.
LEMMA PendingOwned ==
  ASSUME BaseInv, PendingOK, Looping, own.blocked => OneJob
  PROVE  PendingRecoveryIsOwned
<1>1. pc \in {"main", "poll"}
  BY DEF Looping
<1> QED BY <1>1 DEF PendingOK, Recovers, PendingRecoveryIsOwned

(***************************************************************************)
(* An unblocked worker back in its main loop never forgets a recovery that *)
(* the store holds as pending, the one request that keeps every other      *)
(* recovery of its job out, for any number of jobs.  Blocked is excluded   *)
(* because a queue pause whose transaction fails after the engine was      *)
(* closed withdraws the publication of another job and does not abort its  *)
(* recovery (README, disagreement 13).  The lane is the worker's own: a    *)
(* shared one may let a publication wait beside a transfer.                *)
(***************************************************************************)
THEOREM RecoveriesOwned ==
  ASSUME ~SharedLane
  PROVE  Spec => [](~own.blocked => PendingRecoveryIsOwned)
<1>1. BaseInv /\ TrackOK => (~own.blocked => PendingRecoveryIsOwned)
  BY PendingOwned DEF TrackOK, PendingRecoveryIsOwned
<1> QED BY <1>1, BaseHolds, TrackHolds, PTL

\* A job that the store says is resolving or downloading is the owner's.
BodyIsTracked ==
  Looping /\ ~own.blocked => \A j \in Jobs :
    Stored(j) /\ job[j].state \in BodyStates => TrackedJob = j

LEMMA BodyOwned == BodyTracked => BodyIsTracked
<1>1. Looping => pc \notin {"stopped", "down", "resolved", "added", "advanced"}
  BY DEF Looping
<1> QED BY <1>1 DEF BodyTracked, BodyIsTracked, Transfers, TrackedJob

(***************************************************************************)
(* Whichever of any number of jobs the store says is resolving or          *)
(* downloading, an unblocked worker back in its main loop tracks it, so    *)
(* that a pause, a queue pause or a shutdown can contain its transfer.     *)
(***************************************************************************)
THEOREM BodiesOwned ==
  ASSUME ~SharedLane
  PROVE  Spec => []BodyIsTracked
<1>1. TrackOK => BodyIsTracked
  BY BodyOwned DEF TrackOK
<1> QED BY <1>1, TrackHolds, PTL

(***************************************************************************)
(* Of a single job nothing is forgotten, whatever the other constants: the *)
(* process state keeps its shape, an engine has its claim, a pending       *)
(* recovery its publication even when the owner is blocked, and the job at *)
(* work, downloading or finalizing, its owner.  With two jobs the last two *)
(* are false (README, disagreement 13).                                    *)
(***************************************************************************)
THEOREM EverythingOwned ==
  ASSUME ~SharedLane, OneJob
  PROVE  Spec => []EverythingIsTracked
<1>1. BaseInv /\ TrackOK => PendingRecoveryIsOwned
  BY PendingOwned DEF TrackOK, PendingRecoveryIsOwned
<1>2. BaseInv /\ TrackOK => ActiveIsTracked
  <2>1. SUFFICES ASSUME BaseInv, TrackOK, Looping, ~own.blocked, NEW j \in Jobs, Stored(j),
                        job[j].state \in ActiveStates
                 PROVE  TrackedJob = j
    BY DEF ActiveIsTracked
  <2>2. CASE job[j].state \in BodyStates
    BY <2>1, <2>2, BodyOwned DEF TrackOK, BodyIsTracked
  <2>3. CASE job[j].state = "finalizing"
    <3>1. own.plan # NoRow \/ own.pub # NoRow
      BY <2>1, <2>3 DEF TrackOK, FinalTracked, Finalizing, Looping
    <3> QED BY <2>1, <3>1, Arguments DEF BaseInv, TrackedJob, OneJob
  <2> QED BY <2>1, <2>2, <2>3 DEF ActiveStates
<1> QED BY <1>1, <1>2, BaseHolds, TrackHolds, WorkerTypes, EngineClaimed, PTL
        DEF EverythingIsTracked
=============================================================================
