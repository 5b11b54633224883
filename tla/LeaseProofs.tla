----------------------------- MODULE LeaseProofs -----------------------------
(***************************************************************************)
(* What the holder of a lease may rely on, for the two leases of the       *)
(* program: the worker's lock on its endpoint, and the claim of a window   *)
(* on a notification.                                                      *)
(*                                                                         *)
(* WorkerEndpoint: one owner, a reachable server and a certifiable record, *)
(* for any number of workers, socket identities and epochs.                *)
(*                                                                         *)
(* NotificationDelivery: for any finite set of events and windows, any     *)
(* lease and any number of late calls, the mark of an event and what the   *)
(* user saw are tied together by DeliveryInv: what each window, each late  *)
(* call and each row knows of a token agrees with the claim the store      *)
(* recorded for it, and no token in use is ever issued again.              *)
(***************************************************************************)
EXTENDS WorkerEndpoint, NotificationDelivery, FiniteSetTheorems, FunctionTheorems,
        WellFoundedInduction, TLAPS

-----------------------------------------------------------------------------
(* The lease of the worker.                                                *)

(***************************************************************************)
(* What the holder of the lease may rely on at each stage.  The name is    *)
(* free from the reclaim to the bind; from the bind to the publication the *)
(* record, if there is one, is of an earlier epoch.                        *)
(***************************************************************************)
StageInv ==
  \A w \in Workers :
    /\ pc[w] \in {"reclaimed", "recovered"} => socket = None
    /\ pc[w] \in {"recovered", "bound", "listening"} =>
         epoch >= 1 /\ (record # None => record.epoch < epoch)
    /\ pc[w] \in {"listening", "serving"} => own[w] # None /\ socket = own[w]

EndpointInv ==
  EndpointTypeOK /\ OneOwner /\ StageInv /\ ServingIsReachable /\ RecordedIsCertifiable

\* Every action keeps the shape of files and memories.
LEMMA EndpointTypeStep ==
  ASSUME EndpointTypeOK, StageInv, [Next]_vars PROVE EndpointTypeOK'
<1> USE DEF EndpointTypeOK, Starting, Goto, At, files, memory, NoCertificate
<1>1. CASE UNCHANGED vars
  BY <1>1 DEF vars
<1>2. ASSUME NEW w \in Workers, ReadRecord(w) PROVE EndpointTypeOK'
  BY <1>2 DEF ReadRecord
<1>3. ASSUME NEW w \in Workers, Gone(w), UNCHANGED files PROVE EndpointTypeOK'
  BY <1>3 DEF Gone
<1>4. ASSUME NEW w \in Workers, ReadSocket(w) PROVE EndpointTypeOK'
  BY <1>3, <1>4 DEF ReadSocket
<1>5. ASSUME NEW w \in Workers, ReadEpoch(w) PROVE EndpointTypeOK'
  BY <1>3, <1>5 DEF ReadEpoch
<1>6. ASSUME NEW w \in Workers, Acquire(w) PROVE EndpointTypeOK'
  BY <1>6 DEF Acquire
<1>7. ASSUME NEW w \in Workers, Reclaim(w) PROVE EndpointTypeOK'
  BY <1>7 DEF Reclaim
<1>8. ASSUME NEW w \in Workers, ColdStart(w) PROVE EndpointTypeOK'
  BY <1>8 DEF ColdStart
<1>9. ASSUME NEW w \in Workers, Bind(w) \/ Identify(w) PROVE EndpointTypeOK'
  BY <1>9 DEF Bind, Identify, ReadyToBind
<1>10. ASSUME NEW w \in Workers, Publish(w) PROVE EndpointTypeOK'
  <2>1. own[w] \in Sockets /\ epoch >= 1
    BY <1>10 DEF Publish, StageInv
  <2>2. record' \in Records /\ record'.epoch = epoch
    BY <1>10, <2>1 DEF Publish, Published, Records
  <2>3. wrote' \in [Workers -> BOOLEAN] /\ UNCHANGED <<lease, socket, epoch, cert, own>>
    BY <1>10 DEF Publish
  <2>4. \E there \in {"serving", "closing"} : pc' = [pc EXCEPT ![w] = there]
    BY <1>10 DEF Publish
  <2>5. record'.epoch \in 1..epoch'
    BY <2>1, <2>2, <2>3
  <2> QED BY <2>2, <2>3, <2>4, <2>5
<1>11. ASSUME NEW w \in Workers, Finish(w) \/ Close(w) \/ Clear(w) PROVE EndpointTypeOK'
  BY <1>11 DEF Finish, LeaseKept, Close, Clear
<1>12. QED
  BY <1>1, <1>2, <1>3, <1>4, <1>5, <1>6, <1>7, <1>8, <1>9, <1>10, <1>11
     DEF Next, Busy, Release, Kill

(***************************************************************************)
(* Only the holder of the lease moves files or memories past the lease, so *)
(* what the stages rely on stands until the holder itself moves on.        *)
(***************************************************************************)
LEMMA EndpointStep == EndpointInv /\ [Next]_vars => EndpointInv'
<1> SUFFICES ASSUME EndpointInv, [Next]_vars PROVE EndpointInv'
  OBVIOUS
<1> USE DEF EndpointInv
<1>0. EndpointTypeOK'
  BY EndpointTypeStep
<1> DEFINE Rest == OneOwner /\ StageInv /\ ServingIsReachable /\ RecordedIsCertifiable
<1> SUFFICES Rest'
  BY <1>0
<1> USE EndpointAssumption, <1>0
    DEF EndpointTypeOK, OneOwner, StageInv, ServingIsReachable, RecordedIsCertifiable,
        Certifiable, Starting, Goto, At, files, memory
<1>1. CASE UNCHANGED vars
  BY <1>1 DEF vars
<1>2. ASSUME NEW w \in Workers, ReadRecord(w) PROVE Rest'
  BY <1>2 DEF ReadRecord
<1>3. ASSUME NEW w \in Workers, Gone(w), UNCHANGED files PROVE Rest'
  BY <1>3 DEF Gone
<1>4. ASSUME NEW w \in Workers, ReadSocket(w) PROVE Rest'
  BY <1>3, <1>4 DEF ReadSocket
<1>5. ASSUME NEW w \in Workers, ReadEpoch(w) PROVE Rest'
  BY <1>3, <1>5 DEF ReadEpoch
<1>6. ASSUME NEW w \in Workers, Acquire(w) PROVE Rest'
  BY <1>6 DEF Acquire, LeaseFree
<1>7. ASSUME NEW w \in Workers, Reclaim(w) PROVE Rest'
  BY <1>7 DEF Reclaim
<1>8. ASSUME NEW w \in Workers, ColdStart(w) PROVE Rest'
  BY <1>8 DEF ColdStart
<1>9. ASSUME NEW w \in Workers, Bind(w) PROVE Rest'
  BY <1>9 DEF Bind, ReadyToBind
<1>10. ASSUME NEW w \in Workers, Identify(w) PROVE Rest'
  BY <1>10 DEF Identify
<1>11. ASSUME NEW w \in Workers, Publish(w) PROVE Rest'
  BY <1>11 DEF Publish, Published, Records
<1>12. ASSUME NEW w \in Workers, Finish(w) PROVE Rest'
  BY <1>12 DEF Finish, LeaseKept
<1>13. ASSUME NEW w \in Workers, Close(w) PROVE Rest'
  BY <1>13 DEF Close
<1>14. ASSUME NEW w \in Workers, Clear(w) PROVE Rest'
  BY <1>14 DEF Clear
<1>15. QED
  BY <1>1, <1>2, <1>3, <1>4, <1>5, <1>6, <1>7, <1>8, <1>9, <1>10, <1>11, <1>12,
     <1>13, <1>14 DEF Next, Busy, Release, Kill

LEMMA EndpointInductive == Spec => []EndpointInv
<1>1. Init => EndpointInv
  BY EndpointAssumption
     DEF Init, EndpointInv, EndpointTypeOK, OneOwner, StageInv, ServingIsReachable,
         RecordedIsCertifiable, Starting, NoCertificate
<1>2. QED
  BY <1>1, EndpointStep, PTL DEF Spec

(***************************************************************************)
(* At most one worker process is between acquiring the lease and releasing *)
(* it, however many are started, stopped and killed.                       *)
(***************************************************************************)
THEOREM OwnerUnique == Spec => []OneOwner
BY EndpointInductive, PTL DEF EndpointInv

(***************************************************************************)
(* A serving worker owns the socket under the name, and the record names   *)
(* that socket and the present epoch.                                      *)
(***************************************************************************)
THEOREM ServingReachable == Spec => []ServingIsReachable
BY EndpointInductive, PTL DEF EndpointInv

(***************************************************************************)
(* A record of the present epoch never keeps a later worker from starting. *)
(***************************************************************************)
THEOREM RecordedCertifiable == Spec => []RecordedIsCertifiable
BY EndpointInductive, PTL DEF EndpointInv

-----------------------------------------------------------------------------
(* The claims on notifications: the inductive invariant.                   *)

CallRow ==
  [phase: {"idle", "claim", "answered", "settle", "settled"},
   event: Events \cup {0}, token: Tokens \cup {0}, wait: 0..1]
RetainedRow == [event: Events, token: Tokens, mode: {"presented", "released"}]
WindowRow ==
  [scope: Scopes, call: CallRow, retained: RetainedRow \cup {NothingRetained}]
LateCall ==
  [op: {"claim", "settle"}, by: Consumers, event: Events \cup {0},
   token: Tokens \cup {0}, mode: {"none", "presented", "released"}]

TablesTyped ==
  /\ row \in [Events -> OutboxRow] /\ claim \in [Tokens -> ClaimRow \cup {NoClaim}]
  /\ shown \subseteq Tokens /\ repeated \in BOOLEAN
WindowsTyped == win \in [Windows -> WindowRow]
LateTyped ==
  /\ late \subseteq LateCall /\ IsFiniteSet(late) /\ Cardinality(late) <= MaxLate
  /\ \A m \in late : m.op = "settle" =>
       m.event \in Events /\ m.token \in Tokens /\ m.mode \in {"presented", "released"}

\* A row and the claim of its token agree, and a presented row was shown.
RowOK(e) ==
  /\ row[e].state \in {"absent", "pending"} => row[e].ttl = 0 /\ row[e].token = 0
  /\ row[e].ttl > 0 => row[e].state = "claimed"
  /\ row[e].state \in {"claimed", "presented"} =>
       /\ row[e].token \in Tokens
       /\ claim[row[e].token] =
            [event |-> e, by |-> row[e].by,
             outcome |-> IF row[e].state = "claimed" THEN "claimed" ELSE "presented"]
       /\ row[e].by[2] <= win[row[e].by[1]].scope
  /\ row[e].state = "presented" => row[e].token \in shown
RowsOK == \A e \in Events : RowOK(e)

\* Only the token of a presented row is a claim that was presented.
PresentedClaims ==
  \A s \in Tokens : claim[s].outcome = "presented" =>
    /\ claim[s].event \in Events
    /\ row[claim[s].event].state = "presented" /\ row[claim[s].event].token = s

\* s is an earlier showing of e by window w that still counts.
Counts(w, e, s) ==
  /\ claim[s].event = e /\ claim[s].by[1] = w
  /\ claim[s].outcome = "presented" \/ (Live(e) /\ row[e].token = s)

Carries(w, e, t) == claim[t].event = e /\ claim[t].by = Me(w)

(***************************************************************************)
(* What a window knows is true of the tables: a claim it was told of or    *)
(* retains is its own; one it retains as presented was shown; a settlement *)
(* that came back left the claim dead; and what it is about to show has no *)
(* earlier showing that counts.                                            *)
(***************************************************************************)
WindowOK(w) ==
  LET call == win[w].call
      kept == win[w].retained
  IN
  /\ call.phase \in {"claim", "answered"} => kept = NothingRetained
  /\ call.phase \in {"settle", "settled"} => kept # NothingRetained
  /\ call.phase # "answered" \/ call.event = 0 => call.token = 0
  /\ call.phase = "answered" /\ call.event # 0 =>
       /\ call.token \in Tokens /\ Carries(w, call.event, call.token)
       /\ \A s \in shown : ~Counts(w, call.event, s)
  /\ kept # NothingRetained => Carries(w, kept.event, kept.token)
  /\ kept.mode = "presented" => kept.token \in shown
  /\ call.phase = "settled" => ~(Live(kept.event) /\ row[kept.event].token = kept.token)
WindowsOK == \A w \in Windows : WindowOK(w)

\* A live claim of a window's present scope that was shown is still retained.
Retains(w) ==
  \A e \in Events :
    Live(e) /\ row[e].by = Me(w) /\ row[e].token \in shown =>
      win[w].retained = [event |-> e, token |-> row[e].token, mode |-> "presented"]
ShownIsRetained == \A w \in Windows : Retains(w)

\* A call given up speaks of an earlier or the present scope, and of a showing.
CallOK(m) == /\ m.by[2] <= win[m.by[1]].scope
             /\ m.mode = "presented" => m.token \in shown
LateOK == \A m \in late : CallOK(m)

DeliveryInv ==
  /\ TablesTyped /\ WindowsTyped /\ LateTyped
  /\ RowsOK /\ PresentedClaims /\ WindowsOK /\ ShownIsRetained /\ LateOK /\ ~repeated

-----------------------------------------------------------------------------
(* Tokens and order.                                                       *)

\* Every nonempty set of naturals has a least element.
LEMMA LeastNat ==
  ASSUME NEW T, T \subseteq Nat, T # {}
  PROVE  \E x \in T : \A y \in T : x <= y
<1>1. PICK x \in T : \A y \in T : ~ (<<y, x>> \in OpToRel(<, Nat))
  BY NatLessThanWellFounded, WFMin
<1>2. ASSUME NEW y \in T PROVE x <= y
  <2>1. ~ (<<y, x>> \in OpToRel(<, Nat))
    BY <1>1
  <2>2. ~(y < x)
    BY <2>1 DEF OpToRel
  <2> QED BY <2>2
<1> QED BY <1>2

\* The image of a finite set under a function has no more elements.
LEMMA ImageBound ==
  ASSUME NEW S, IsFiniteSet(S), NEW f
  PROVE  IsFiniteSet({f[x] : x \in S}) /\ Cardinality({f[x] : x \in S}) <= Cardinality(S)
<1> DEFINE T == {f[x] : x \in S}
           g == [x \in S |-> f[x]]
<1>1. g \in Surjection(S, T)
  BY DEF Surjection
<1> QED BY <1>1, FS_Surjection

\* The delivery order has a first row in every nonempty set of rows.
LEMMA FirstIsIn ==
  ASSUME NEW rows, rows \subseteq Events, rows # {}
  PROVE  First(rows) \in rows
<1>1. rows \subseteq Nat
  BY DeliveryConstants
<1> DEFINE Before(e, f) == Urgency(e) < Urgency(f) \/ (Urgency(e) = Urgency(f) /\ e <= f)
<1>2. \E e \in rows : \A f \in rows : Before(e, f)
  <2> DEFINE urgent == rows \ Completion
  <2>1. CASE urgent # {}
    <3>1. PICK e \in urgent : \A f \in urgent : e <= f
      BY <1>1, <2>1, LeastNat
    <3> QED BY <3>1 DEF Urgency
  <2>2. CASE urgent = {}
    <3>1. PICK e \in rows : \A f \in rows : e <= f
      BY <1>1, LeastNat
    <3> QED BY <2>2, <3>1 DEF Urgency
  <2> QED BY <2>1, <2>2
<1> QED BY <1>2 DEF First

\* A fresh token is one that nobody can send.
LEMMA FreshIsFree ==
  ASSUME TablesTyped, WindowsTyped, LateTyped, WindowsOK
  PROVE  Fresh \in Tokens /\ Fresh \notin InUse
<1> DEFINE ofRow == [e \in Events |-> row[e].token]
           ofWindow == [w \in Windows |-> IF win[w].retained.token # 0
                          THEN win[w].retained.token ELSE win[w].call.token]
           ofLate == [m \in late |-> m.token]
           A == {ofRow[e] : e \in Events}
           B == {ofWindow[w] : w \in Windows}
           C == {ofLate[m] : m \in late}
<1>1. InUse \cap Tokens \subseteq A \cup B \cup C
  <2> SUFFICES ASSUME NEW t \in Tokens, t \in InUse
               PROVE  t \in A \cup B \cup C
    OBVIOUS
  <2>0. t # 0
    BY DeliveryConstants
  <2>1. CASE t \in {row[e].token : e \in Events}
    BY <2>1
  <2>2. CASE t \in {win[w].retained.token : w \in Windows}
    <3>1. PICK w \in Windows : t = win[w].retained.token
      BY <2>2
    <3> QED BY <2>0, <3>1
  <2>3. CASE t \in {win[w].call.token : w \in Windows}
    <3>1. PICK w \in Windows : t = win[w].call.token
      BY <2>3
    <3>2. win[w].retained = NothingRetained
      BY <2>0, <3>1 DEF WindowsOK, WindowOK
    <3>3. win[w].retained.token = 0
      BY <3>2 DEF NothingRetained
    <3>4. ofWindow[w] = t
      BY <3>1, <3>3
    <3> QED BY <3>4
  <2>4. CASE t \in {m.token : m \in late}
    BY <2>4
  <2> QED BY <2>1, <2>2, <2>3, <2>4 DEF InUse
<1>2. /\ IsFiniteSet(A) /\ Cardinality(A) <= Cardinality(Events)
      /\ IsFiniteSet(B) /\ Cardinality(B) <= Cardinality(Windows)
      /\ IsFiniteSet(C) /\ Cardinality(C) <= MaxLate
  <2>1. IsFiniteSet(A) /\ Cardinality(A) <= Cardinality(Events)
    BY ImageBound, DeliveryConstants
  <2>2. IsFiniteSet(B) /\ Cardinality(B) <= Cardinality(Windows)
    BY ImageBound, DeliveryConstants
  <2>3. IsFiniteSet(C) /\ Cardinality(C) <= Cardinality(late)
    BY ImageBound DEF LateTyped
  <2>4. /\ Cardinality(C) \in Nat /\ Cardinality(late) \in Nat
        /\ Cardinality(late) <= MaxLate /\ MaxLate \in Nat
    BY <2>3, FS_CardinalityType, DeliveryConstants DEF LateTyped
  <2> HIDE DEF A, B, C
  <2> QED BY <2>1, <2>2, <2>3, <2>4
<1> HIDE DEF A, B, C
<1>3. /\ IsFiniteSet(A \cup B \cup C)
      /\ Cardinality(A \cup B \cup C) <= Cardinality(Events) + Cardinality(Windows) + MaxLate
  <2>1. /\ Cardinality(A) \in Nat /\ Cardinality(B) \in Nat /\ Cardinality(C) \in Nat
        /\ Cardinality(Events) \in Nat /\ Cardinality(Windows) \in Nat /\ MaxLate \in Nat
    BY <1>2, FS_CardinalityType, DeliveryConstants
  <2>2. /\ IsFiniteSet(A \cup B)
        /\ Cardinality(A \cup B) = Cardinality(A) + Cardinality(B) - Cardinality(A \cap B)
    BY <1>2, FS_Union
  <2>3. /\ IsFiniteSet((A \cup B) \cup C)
        /\ Cardinality((A \cup B) \cup C)
             = Cardinality(A \cup B) + Cardinality(C) - Cardinality((A \cup B) \cap C)
    BY <1>2, <2>2, FS_Union
  <2>4. Cardinality(A \cap B) \in Nat /\ Cardinality((A \cup B) \cap C) \in Nat
    BY <1>2, <2>2, FS_Intersection, FS_CardinalityType
  <2> QED BY <1>2, <2>1, <2>2, <2>3, <2>4
<1>4. \E t \in Tokens : t \notin InUse
  <2> SUFFICES ASSUME Tokens \subseteq InUse
               PROVE  FALSE
    OBVIOUS
  <2>1. Tokens \subseteq A \cup B \cup C
    BY <1>1
  <2>2. IsFiniteSet(Tokens) /\ Cardinality(Tokens) <= Cardinality(A \cup B \cup C)
    BY <1>3, <2>1, FS_Subset
  <2>3. /\ Cardinality(Tokens) \in Nat /\ Cardinality(A \cup B \cup C) \in Nat
        /\ Cardinality(Events) \in Nat /\ Cardinality(Windows) \in Nat /\ MaxLate \in Nat
    BY <1>3, <2>2, FS_CardinalityType, DeliveryConstants
  <2> QED BY <1>3, <2>2, <2>3, TokensSuffice
<1> QED BY <1>4 DEF Fresh

-----------------------------------------------------------------------------
(* What a call does to the tables.                                         *)

DeliveryStep == [DeliveryNext]_deliveryVars

\* claim_notification grants e to id under the unused token t.
Granted(id, e, t) ==
  /\ row[e].state \in {"pending", "claimed"} /\ ~Live(e) /\ t \notin InUse
  /\ id[2] <= win[id[1]].scope
  /\ row' = [row EXCEPT ![e] = [state |-> "claimed", by |-> id, token |-> t, ttl |-> Lease]]
  /\ claim' = [claim EXCEPT ![t] = [event |-> e, by |-> id, outcome |-> "claimed"]]
  /\ shown' = shown \ {t}

\* _settle_notification ends the live claim t of e.
Ended(id, e, t, mode) ==
  /\ Settles(id, e, t)
  /\ mode = "presented" => t \in shown
  /\ claim' = [claim EXCEPT ![t].outcome = mode]
  /\ row' = [row EXCEPT ![e] =
               IF mode = "presented" THEN [@ EXCEPT !.state = "presented", !.ttl = 0]
               ELSE [Absent EXCEPT !.state = "pending"]]
  /\ shown' = shown

Aged ==
  /\ row' = [e \in Events |-> IF Live(e) THEN [row[e] EXCEPT !.ttl = @ - 1] ELSE row[e]]
  /\ UNCHANGED <<claim, shown>>

Enqueued(e) ==
  /\ row[e] = Absent
  /\ row' = [row EXCEPT ![e].state = "pending"]
  /\ UNCHANGED <<claim, shown>>

\* The tables change in one of these ways, or not at all.
TableStep ==
  \/ UNCHANGED <<row, claim, shown>>
  \/ Aged
  \/ \E e \in Events : Enqueued(e)
  \/ \E id \in Consumers, e \in Events, t \in Tokens : Granted(id, e, t)
  \/ \E id \in Consumers, e \in Events, t \in Tokens, mode \in {"presented", "released"} :
       Ended(id, e, t, mode)

\* What claim_notification answers: its own live claim, a fresh one, or nothing.
LEMMA ClaimAnswers ==
  ASSUME TablesTyped, WindowsTyped, LateTyped, WindowsOK,
         NEW id \in Consumers, id[2] <= win[id[1]].scope,
         NEW e \in Events \cup {0}, NEW t \in Tokens \cup {0},
         Claim(id, [event |-> e, token |-> t])
  PROVE  \/ /\ UNCHANGED <<row, claim, shown>>
            /\ \/ e = 0 /\ t = 0
               \/ e \in Events /\ Live(e) /\ row[e].by = id /\ t = row[e].token
         \/ e \in Events /\ t \in Tokens /\ Granted(id, e, t)
<1>0. [event |-> e, token |-> t].event = e /\ [event |-> e, token |-> t].token = t
  OBVIOUS
<1>1. CASE Owned(id) # {}
  <2>1. First(Owned(id)) \in Owned(id)
    BY <1>1, FirstIsIn DEF Owned, Deliverable
  <2>2. /\ e = First(Owned(id)) /\ t = row[First(Owned(id))].token
        /\ UNCHANGED <<row, claim, shown>>
    BY <1>0, <1>1 DEF Claim
  <2> QED BY <2>1, <2>2 DEF Owned, Deliverable
<1>2. CASE Owned(id) = {} /\ Unclaimed = {}
  BY <1>0, <1>2 DEF Claim
<1>3. CASE Owned(id) = {} /\ Unclaimed # {}
  <2>1. First(Unclaimed) \in Unclaimed
    BY <1>3, FirstIsIn DEF Unclaimed, Deliverable
  <2>2. /\ e = First(Unclaimed) /\ t = Fresh
        /\ row' = [row EXCEPT ![e] = [state |-> "claimed", by |-> id, token |-> t, ttl |-> Lease]]
        /\ claim' = [claim EXCEPT ![t] = [event |-> e, by |-> id, outcome |-> "claimed"]]
        /\ shown' = shown \ {t}
    BY <1>0, <1>3 DEF Claim
  <2>3. e \in Events /\ row[e].state \in {"pending", "claimed"} /\ ~Live(e)
    BY <2>1, <2>2 DEF Unclaimed, Deliverable
  <2> QED BY <2>2, <2>3, FreshIsFree DEF Granted
<1> QED BY <1>1, <1>2, <1>3

\* The tables keep their types.
LEMMA TablesKeepTypes ==
  ASSUME TablesTyped, RowsOK, TableStep
  PROVE  /\ row' \in [Events -> OutboxRow] /\ claim' \in [Tokens -> ClaimRow \cup {NoClaim}]
         /\ shown' \subseteq Tokens
<1> USE DEF TablesTyped
<1>1. CASE Aged
  <2>1. ASSUME NEW e \in Events, Live(e)
        PROVE  [row[e] EXCEPT !.ttl = @ - 1] \in OutboxRow
    BY <2>1, DeliveryConstants DEF Live, OutboxRow
  <2> QED BY <1>1, <2>1 DEF Aged
<1>2. CASE \E e \in Events : Enqueued(e)
  <2>1. PICK e \in Events : Enqueued(e)
    BY <1>2
  <2>2. [row[e] EXCEPT !.state = "pending"] \in OutboxRow
    BY DEF OutboxRow
  <2> QED BY <2>1, <2>2 DEF Enqueued
<1>3. CASE \E id \in Consumers, e \in Events, t \in Tokens : Granted(id, e, t)
  <2>1. PICK id \in Consumers, e \in Events, t \in Tokens : Granted(id, e, t)
    BY <1>3
  <2>2. /\ [state |-> "claimed", by |-> id, token |-> t, ttl |-> Lease] \in OutboxRow
        /\ [event |-> e, by |-> id, outcome |-> "claimed"] \in ClaimRow
    BY DeliveryConstants DEF OutboxRow, ClaimRow
  <2> QED BY <2>1, <2>2 DEF Granted
<1>4. CASE \E id \in Consumers, e \in Events, t \in Tokens, mode \in {"presented", "released"} :
             Ended(id, e, t, mode)
  <2>1. PICK id \in Consumers, e \in Events, t \in Tokens, mode \in {"presented", "released"} :
               Ended(id, e, t, mode)
    BY <1>4
  <2>2. claim[t] \in ClaimRow
    BY <2>1 DEF Ended, Settles, NoClaim
  <2>3. [claim[t] EXCEPT !.outcome = mode] \in ClaimRow
    BY <2>2 DEF ClaimRow
  <2>4. [row[e] EXCEPT !.state = "presented", !.ttl = 0] \in OutboxRow
    <3>1. row[e] \in OutboxRow /\ 0 \in 0..Lease
      BY DeliveryConstants
    <3> QED BY <3>1 DEF OutboxRow
  <2>5. [Absent EXCEPT !.state = "pending"] \in OutboxRow
    BY DeliveryConstants DEF OutboxRow, Absent
  <2> QED BY <2>1, <2>3, <2>4, <2>5 DEF Ended
<1>5. CASE UNCHANGED <<row, claim, shown>>
  BY <1>5
<1> QED BY <1>1, <1>2, <1>3, <1>4, <1>5 DEF TableStep

\* A token in use keeps its event and its consumer, and stays shown or not.
LEMMA UsedTokensStand ==
  ASSUME TablesTyped, TableStep, NEW t \in Tokens, t \in InUse
  PROVE  /\ claim'[t].event = claim[t].event /\ claim'[t].by = claim[t].by
         /\ t \in shown' <=> t \in shown
<1>1. CASE \E id \in Consumers, e \in Events, s \in Tokens : Granted(id, e, s)
  BY <1>1 DEF Granted, TablesTyped
<1>2. CASE \E id \in Consumers, e \in Events, s \in Tokens, mode \in {"presented", "released"} :
             Ended(id, e, s, mode)
  <2>1. PICK id \in Consumers, e \in Events, s \in Tokens, mode \in {"presented", "released"} :
               Ended(id, e, s, mode)
    BY <1>2
  <2>2. CASE s = t
    <3>1. claim[t] \in ClaimRow
      BY <2>1, <2>2 DEF Ended, Settles, NoClaim, TablesTyped
    <3>2. claim'[t] = [claim[t] EXCEPT !.outcome = mode] /\ shown' = shown
      BY <2>1, <2>2 DEF Ended, TablesTyped
    <3> QED BY <3>1, <3>2 DEF ClaimRow
  <2>3. CASE s # t
    BY <2>1, <2>3 DEF Ended, TablesTyped
  <2> QED BY <2>2, <2>3
<1>3. CASE UNCHANGED <<claim, shown>>
  BY <1>3
<1> QED BY <1>1, <1>2, <1>3 DEF TableStep, Aged, Enqueued

\* A live row was live with the same claim, or is granted under a fresh token.
LEMMA LiveFrom ==
  ASSUME TablesTyped, TableStep, NEW e \in Events, Live(e)'
  PROVE  \/ Live(e) /\ row'[e].token = row[e].token /\ row'[e].by = row[e].by
         \/ /\ row'[e].token \notin InUse /\ row'[e].token \notin shown'
            /\ \E id \in Consumers : row'[e].by = id /\ id[2] <= win[id[1]].scope
<1>0. row[e] \in OutboxRow
  BY DEF TablesTyped
<1>1. CASE Aged
  <2>1. row'[e] = IF Live(e) THEN [row[e] EXCEPT !.ttl = @ - 1] ELSE row[e]
    BY <1>1 DEF Aged
  <2>2. Live(e)
    BY <2>1 DEF Live
  <2>3. row'[e].token = row[e].token /\ row'[e].by = row[e].by
    BY <1>0, <2>1 DEF OutboxRow
  <2> QED BY <2>2, <2>3
<1>2. CASE \E f \in Events : Enqueued(f)
  BY <1>0, <1>2 DEF Enqueued, Live, TablesTyped, OutboxRow
<1>3. CASE \E id \in Consumers, f \in Events, t \in Tokens : Granted(id, f, t)
  <2>1. PICK id \in Consumers, f \in Events, t \in Tokens : Granted(id, f, t)
    BY <1>3
  <2>2. CASE f = e
    <3>1. row'[e] = [state |-> "claimed", by |-> id, token |-> t, ttl |-> Lease]
      BY <2>1, <2>2 DEF Granted, TablesTyped
    <3> QED BY <2>1, <3>1 DEF Granted
  <2>3. CASE f # e
    BY <2>1, <2>3 DEF Granted, Live, TablesTyped
  <2> QED BY <2>2, <2>3
<1>4. CASE \E id \in Consumers, f \in Events, t \in Tokens, mode \in {"presented", "released"} :
             Ended(id, f, t, mode)
  <2>1. PICK id \in Consumers, f \in Events, t \in Tokens, mode \in {"presented", "released"} :
               Ended(id, f, t, mode)
    BY <1>4
  <2>2. CASE f = e
    <3>1. row'[e] = IF mode = "presented" THEN [row[e] EXCEPT !.state = "presented", !.ttl = 0]
                    ELSE [Absent EXCEPT !.state = "pending"]
      BY <2>1, <2>2 DEF Ended, TablesTyped
    <3>2. row'[e].state # "claimed"
      BY <1>0, <3>1 DEF OutboxRow, Absent
    <3> QED BY <3>2 DEF Live
  <2>3. CASE f # e
    BY <2>1, <2>3 DEF Ended, Live, TablesTyped
  <2> QED BY <2>2, <2>3
<1>5. CASE UNCHANGED <<row, claim, shown>>
  BY <1>5 DEF Live
<1> QED BY <1>1, <1>2, <1>3, <1>4, <1>5 DEF TableStep

\* What the settlement of a live claim finds and leaves.
Leaves(id, e, t, mode) ==
  /\ claim[t] = [event |-> e, by |-> id, outcome |-> "claimed"]
  /\ claim'[t] = [event |-> e, by |-> id, outcome |-> mode]
  /\ row[e].state = "claimed" /\ row[e].token = t /\ row[e].by = id /\ Live(e)
  /\ mode = "presented" =>
       t \in shown /\ row'[e] = [state |-> "presented", token |-> t, by |-> id, ttl |-> 0]
  /\ mode = "released" =>
       row'[e] = [state |-> "pending", token |-> 0, by |-> NoConsumer, ttl |-> 0]
  /\ \A f \in Events : f # e => row'[f] = row[f]
  /\ \A s \in Tokens : s # t => claim'[s] = claim[s]
  /\ shown' = shown

LEMMA EndedRow ==
  ASSUME TablesTyped, RowsOK, NEW id \in Consumers, NEW e \in Events, NEW t \in Tokens,
         NEW mode \in {"presented", "released"}, Ended(id, e, t, mode)
  PROVE  Leaves(id, e, t, mode)
<1>1. /\ row[e].state = "claimed" /\ row[e].by = id /\ row[e].token = t /\ Live(e)
      /\ claim[t].outcome = "claimed"
  BY DEF Ended, Settles, Live
<1>2. claim[t] = [event |-> e, by |-> id, outcome |-> "claimed"]
  BY <1>1 DEF RowsOK, RowOK
<1>5. claim'[t] = [claim[t] EXCEPT !.outcome = mode]
  BY DEF Ended, TablesTyped
<1>6. claim'[t] = [event |-> e, by |-> id, outcome |-> mode]
  BY <1>2, <1>5
<1>7. row'[e] = IF mode = "presented" THEN [row[e] EXCEPT !.state = "presented", !.ttl = 0]
                ELSE [Absent EXCEPT !.state = "pending"]
  BY DEF Ended, TablesTyped
<1>8. CASE mode = "presented"
  <2> DEFINE r == [row[e] EXCEPT !.state = "presented", !.ttl = 0]
  <2>1. row[e] \in OutboxRow /\ 0 \in 0..Lease
    BY DeliveryConstants DEF TablesTyped
  <2>2. r \in OutboxRow
    BY <2>1 DEF OutboxRow
  <2>3. r.state = "presented" /\ r.ttl = 0 /\ r.token = t /\ r.by = id
    BY <1>1, <2>1 DEF OutboxRow
  <2> HIDE DEF r
  <2>4. r = [state |-> r.state, token |-> r.token, by |-> r.by, ttl |-> r.ttl]
    BY <2>2 DEF OutboxRow
  <2>5. r = [state |-> "presented", token |-> t, by |-> id, ttl |-> 0]
    BY <2>3, <2>4
  <2>6. row'[e] = r
    BY <1>7, <1>8 DEF r
  <2>7. t \in shown
    BY <1>8 DEF Ended
  <2> QED BY <1>1, <1>2, <1>6, <1>8, <2>5, <2>6, <2>7 DEF Ended, TablesTyped, Leaves
<1>9. CASE mode = "released"
  <2>1. row'[e] = [state |-> "pending", token |-> 0, by |-> NoConsumer, ttl |-> 0]
    BY <1>7, <1>9 DEF Absent
  <2> QED BY <1>1, <1>2, <1>6, <1>9, <2>1 DEF Ended, TablesTyped, Leaves
<1> QED BY <1>8, <1>9

\* No window goes back to an earlier scope.
ScopesRise == \A w \in Windows : win[w].scope <= win'[w].scope

\* The consumer of a claimed or presented row is a window's.
LEMMA RowsHaveConsumers ==
  ASSUME TablesTyped, RowsOK, NEW e \in Events, row[e].state \in {"claimed", "presented"}
  PROVE  row[e].by \in Consumers /\ row[e].token \in Tokens /\ row[e].token \in InUse
<1>0. /\ row[e].token \in Tokens
      /\ claim[row[e].token] =
           [event |-> e, by |-> row[e].by,
            outcome |-> IF row[e].state = "claimed" THEN "claimed" ELSE "presented"]
  BY DEF RowsOK, RowOK
<1>1. /\ row[e].token \in Tokens
      /\ claim[row[e].token].by = row[e].by /\ claim[row[e].token].outcome # "free"
  BY <1>0
<1>2. claim[row[e].token] \in ClaimRow
  BY <1>1 DEF TablesTyped, NoClaim
<1> QED BY <1>1, <1>2 DEF ClaimRow, InUse

\* The scopes a claim or a late call speaks of stay below the window's.
LEMMA ScopeHolds ==
  ASSUME WindowsTyped, WindowsTyped', ScopesRise, NEW id \in Consumers,
         id[2] <= win[id[1]].scope
  PROVE  id[2] <= win'[id[1]].scope
<1>1. id[1] \in Windows /\ id[2] \in Nat
  BY DeliveryConstants DEF Consumers
<1>2. win[id[1]].scope \in Nat /\ win'[id[1]].scope \in Nat
  BY <1>1, DeliveryConstants DEF WindowsTyped, WindowRow
<1> QED BY <1>1, <1>2 DEF ScopesRise

\* Every row and its claim still agree.
LEMMA RowsHold ==
  ASSUME TablesTyped, WindowsTyped, WindowsTyped', RowsOK, TableStep, ScopesRise
  PROVE  RowsOK'
<1> SUFFICES ASSUME NEW e \in Events
             PROVE  RowOK(e)'
  BY DEF RowsOK
<1>0. RowOK(e) /\ row[e] \in OutboxRow
  BY DEF RowsOK, TablesTyped
<1>1. ASSUME row[e].state \in {"claimed", "presented"}
      PROVE  row[e].by[2] <= win'[row[e].by[1]].scope
  BY <1>0, <1>1, RowsHaveConsumers, ScopeHolds DEF RowOK
<1>2. CASE Aged
  <2>1. row'[e] = IF Live(e) THEN [row[e] EXCEPT !.ttl = @ - 1] ELSE row[e]
    BY <1>2 DEF Aged
  <2>2. /\ row'[e].state = row[e].state /\ row'[e].token = row[e].token
        /\ row'[e].by = row[e].by /\ (row'[e].ttl = row[e].ttl \/ Live(e))
    BY <1>0, <2>1 DEF OutboxRow
  <2>3. claim' = claim /\ shown' = shown
    BY <1>2 DEF Aged
  <2> QED BY <1>0, <1>1, <2>2, <2>3 DEF RowOK, Live
<1>3. CASE \E f \in Events : Enqueued(f)
  <2>1. PICK f \in Events : Enqueued(f)
    BY <1>3
  <2>2. CASE f = e
    <3>1. row'[e] = [Absent EXCEPT !.state = "pending"]
      BY <2>1, <2>2 DEF Enqueued, TablesTyped
    <3> QED BY <3>1 DEF RowOK, Absent
  <2>3. CASE f # e
    <3>1. row'[e] = row[e] /\ claim' = claim /\ shown' = shown
      BY <2>1, <2>3 DEF Enqueued, TablesTyped
    <3> QED BY <1>0, <1>1, <3>1 DEF RowOK
  <2> QED BY <2>2, <2>3
<1>4. CASE \E id \in Consumers, f \in Events, t \in Tokens : Granted(id, f, t)
  <2>1. PICK id \in Consumers, f \in Events, t \in Tokens : Granted(id, f, t)
    BY <1>4
  <2>2. CASE f = e
    <3>1. /\ row'[e] = [state |-> "claimed", by |-> id, token |-> t, ttl |-> Lease]
          /\ claim'[t] = [event |-> e, by |-> id, outcome |-> "claimed"]
      BY <2>1, <2>2 DEF Granted, TablesTyped
    <3>2. id[2] <= win'[id[1]].scope
      BY <2>1, ScopeHolds DEF Granted
    <3> QED BY <3>1, <3>2 DEF RowOK
  <2>3. CASE f # e
    <3>1. row'[e] = row[e]
      BY <2>1, <2>3 DEF Granted, TablesTyped
    <3>2. ASSUME row[e].state \in {"claimed", "presented"}
          PROVE  claim'[row[e].token] = claim[row[e].token] /\ row[e].token # t
      BY <2>1, <3>2, RowsHaveConsumers DEF Granted, TablesTyped
    <3>3. row[e].state = "presented" => row[e].token \in shown'
      BY <1>0, <2>1, <3>2 DEF Granted, RowOK
    <3> QED BY <1>0, <1>1, <3>1, <3>2, <3>3 DEF RowOK
  <2> QED BY <2>2, <2>3
<1>5. CASE \E id \in Consumers, f \in Events, t \in Tokens, mode \in {"presented", "released"} :
             Ended(id, f, t, mode)
  <2>1. PICK id \in Consumers, f \in Events, t \in Tokens, mode \in {"presented", "released"} :
               Ended(id, f, t, mode)
    BY <1>5
  <2>0. Leaves(id, f, t, mode)
    BY <2>1, EndedRow
  <2>2. shown' = shown
    BY <2>1 DEF Ended
  <2>3. CASE f = e
    <3>1. row[e].by[2] <= win'[row[e].by[1]].scope
      BY <1>1, <2>0, <2>3 DEF Leaves
    <3> QED BY <2>0, <2>2, <2>3, <3>1 DEF RowOK, Leaves
  <2>4. CASE f # e
    <3>1. row'[e] = row[e]
      BY <2>0, <2>4 DEF Leaves
    <3>2. ASSUME row[e].state \in {"claimed", "presented"}
          PROVE  claim'[row[e].token] = claim[row[e].token]
      <4>1. claim[row[e].token].event = e /\ row[e].token \in Tokens
        BY <1>0, <3>2 DEF RowOK
      <4>2. claim[t].event = f
        BY <2>0 DEF Leaves
      <4> QED BY <2>0, <2>4, <4>1, <4>2 DEF Leaves
    <3> QED BY <1>0, <1>1, <2>2, <3>1, <3>2 DEF RowOK
  <2> QED BY <2>3, <2>4
<1>6. CASE UNCHANGED <<row, claim, shown>>
  BY <1>0, <1>1, <1>6 DEF RowOK
<1> QED BY <1>2, <1>3, <1>4, <1>5, <1>6 DEF TableStep

\* Only the token of a presented row still is a claim that was presented.
LEMMA PresentedHold ==
  ASSUME TablesTyped, RowsOK, PresentedClaims, TableStep
  PROVE  PresentedClaims'
<1> DEFINE Marks(s) == /\ claim[s].event \in Events
                       /\ row[claim[s].event].state = "presented"
                       /\ row[claim[s].event].token = s
<1> SUFFICES ASSUME NEW s \in Tokens, claim'[s].outcome = "presented"
             PROVE  Marks(s)'
  BY DEF PresentedClaims
<1>1. claim[s].outcome = "presented" => Marks(s)
  BY DEF PresentedClaims
<1>2. CASE Aged
  BY <1>1, <1>2 DEF Aged, Live
<1>3. CASE \E f \in Events : Enqueued(f)
  BY <1>1, <1>3 DEF Enqueued, Absent, TablesTyped
<1>4. CASE \E id \in Consumers, f \in Events, t \in Tokens : Granted(id, f, t)
  <2>1. PICK id \in Consumers, f \in Events, t \in Tokens : Granted(id, f, t)
    BY <1>4
  <2>2. s # t
    BY <2>1 DEF Granted, TablesTyped
  <2>3. claim'[s] = claim[s]
    BY <2>1, <2>2 DEF Granted, TablesTyped
  <2>4. Marks(s) /\ claim[s].event # f
    BY <1>1, <2>1, <2>3 DEF Granted
  <2>5. row'[claim[s].event] = row[claim[s].event]
    BY <2>1, <2>4 DEF Granted, TablesTyped
  <2> QED BY <2>3, <2>4, <2>5
<1>5. CASE \E id \in Consumers, f \in Events, t \in Tokens, mode \in {"presented", "released"} :
             Ended(id, f, t, mode)
  <2>1. PICK id \in Consumers, f \in Events, t \in Tokens, mode \in {"presented", "released"} :
               Ended(id, f, t, mode)
    BY <1>5
  <2>0. Leaves(id, f, t, mode)
    BY <2>1, EndedRow
  <2>2. CASE s = t
    <3>1. claim'[t] = [event |-> f, by |-> id, outcome |-> mode]
      BY <2>0 DEF Leaves
    <3>2. mode = "presented"
      BY <2>2, <3>1
    <3>3. row'[f].state = "presented" /\ row'[f].token = t
      BY <2>0, <3>2 DEF Leaves
    <3> QED BY <2>2, <3>1, <3>3
  <2>3. CASE s # t
    <3>1. claim'[s] = claim[s]
      BY <2>0, <2>3 DEF Leaves
    <3>2. Marks(s)
      BY <1>1, <3>1
    <3>3. row[f].state = "claimed"
      BY <2>0 DEF Leaves
    <3>4. row'[claim[s].event] = row[claim[s].event]
      BY <2>0, <3>2, <3>3 DEF Leaves
    <3> QED BY <3>1, <3>2, <3>4
  <2> QED BY <2>2, <2>3
<1>6. CASE UNCHANGED <<row, claim, shown>>
  BY <1>1, <1>6
<1> QED BY <1>2, <1>3, <1>4, <1>5, <1>6 DEF TableStep

\* A showing that counts after a call already counted before it.
LEMMA CountsFrom ==
  ASSUME TablesTyped, RowsOK, TableStep, NEW w \in Windows, NEW e \in Events,
         NEW s \in shown', Counts(w, e, s)'
  PROVE  s \in shown /\ Counts(w, e, s)
<1>0. s \in Tokens
  BY TablesKeepTypes
<1>1. ASSUME Live(e)', row'[e].token = s
      PROVE  Live(e) /\ row[e].token = s
  BY <1>1, LiveFrom
<1>2. CASE \E id \in Consumers, f \in Events, t \in Tokens : Granted(id, f, t)
  <2>1. PICK id \in Consumers, f \in Events, t \in Tokens : Granted(id, f, t)
    BY <1>2
  <2>2. s \in shown /\ claim'[s] = claim[s]
    BY <1>0, <2>1 DEF Granted, TablesTyped
  <2> QED BY <1>1, <2>2 DEF Counts
<1>3. CASE \E id \in Consumers, f \in Events, t \in Tokens, mode \in {"presented", "released"} :
             Ended(id, f, t, mode)
  <2>1. PICK id \in Consumers, f \in Events, t \in Tokens, mode \in {"presented", "released"} :
               Ended(id, f, t, mode)
    BY <1>3
  <2>0. Leaves(id, f, t, mode)
    BY <2>1, EndedRow
  <2>2. shown' = shown
    BY <2>1 DEF Ended
  <2>3. CASE s = t
    <3>1. /\ claim[s].event = f /\ claim[s].by = id
          /\ claim'[s].event = f /\ claim'[s].by = id
      BY <2>0, <2>3 DEF Leaves
    <3>2. Live(f) /\ row[f].token = s
      BY <2>1, <2>3 DEF Ended, Settles
    <3> QED BY <2>2, <3>1, <3>2 DEF Counts
  <2>4. CASE s # t
    <3>1. claim'[s] = claim[s]
      BY <1>0, <2>0, <2>4 DEF Leaves
    <3> QED BY <1>1, <2>2, <3>1 DEF Counts
  <2> QED BY <2>3, <2>4
<1>4. CASE claim' = claim /\ shown' = shown
  BY <1>1, <1>4 DEF Counts
<1> QED BY <1>2, <1>3, <1>4 DEF TableStep, Aged, Enqueued

\* A call given up still speaks of an earlier or the present scope, and of a showing.
LEMMA CallsHold ==
  ASSUME TablesTyped, WindowsTyped, WindowsTyped', LateTyped, LateOK, TableStep, ScopesRise,
         NEW m \in late
  PROVE  CallOK(m)'
<1>1. m \in LateCall /\ CallOK(m)
  BY DEF LateTyped, LateOK
<1>2. m.by \in Consumers /\ m.mode \in {"none", "presented", "released"}
  BY <1>1 DEF LateCall
<1>3. m.by[2] <= win'[m.by[1]].scope
  BY <1>1, <1>2, ScopeHolds DEF CallOK
<1>4. ASSUME m.mode = "presented" PROVE m.token \in shown'
  <2>1. m.token \in Tokens /\ m.token \in InUse
    BY <1>1, <1>4 DEF CallOK, TablesTyped, InUse
  <2> QED BY <1>1, <1>4, <2>1, UsedTokensStand DEF CallOK
<1> QED BY <1>3, <1>4 DEF CallOK

-----------------------------------------------------------------------------
(* What a window knows.                                                    *)

\* The step leaves what window w knows and asks for.
SameWindow(w) ==
  /\ win'[w].scope = win[w].scope /\ win'[w].retained = win[w].retained
  /\ win'[w].call.phase = win[w].call.phase
  /\ win'[w].call.event = win[w].call.event /\ win'[w].call.token = win[w].call.token

\* What a window carries stays its own, whatever else is served.
LEMMA CarriesHold ==
  ASSUME TablesTyped, TableStep, NEW w \in Windows, win'[w].scope = win[w].scope,
         NEW e, NEW t \in Tokens, t \in InUse, Carries(w, e, t)
  PROVE  Carries(w, e, t)'
<1>1. Me(w)' = Me(w)
  BY DEF Me
<1> QED BY <1>1, UsedTokensStand DEF Carries

\* A claim that is dead in the tables does not come back to life.
LEMMA DeadHold ==
  ASSUME TablesTyped, TableStep, NEW e \in Events, NEW t, t \in InUse,
         ~(Live(e) /\ row[e].token = t)
  PROVE  ~(Live(e) /\ row[e].token = t)'
<1> SUFFICES ASSUME Live(e)', row'[e].token = t
             PROVE  FALSE
  OBVIOUS
<1> QED BY LiveFrom

\* What a window retains is typed, and its token is in use.
LEMMA RetainedIsUsed ==
  ASSUME WindowsTyped, NEW w \in Windows, win[w].retained # NothingRetained
  PROVE  /\ win[w].retained \in RetainedRow
         /\ win[w].retained.event \in Events /\ win[w].retained.token \in Tokens
         /\ win[w].retained.token \in InUse
         /\ win[w].retained.mode \in {"presented", "released"}
<1>1. win[w].retained \in RetainedRow
  BY DEF WindowsTyped, WindowRow
<1> QED BY <1>1 DEF RetainedRow, InUse

\* A window the step leaves alone knows what it knew.
LEMMA WindowHolds ==
  ASSUME TablesTyped, WindowsTyped, WindowsTyped', RowsOK, TableStep,
         NEW w \in Windows, SameWindow(w), WindowOK(w)
  PROVE  WindowOK(w)'
<1> DEFINE call == win[w].call
           kept == win[w].retained
<1>0. call \in CallRow
  BY DEF WindowsTyped, WindowRow
<1>1. ASSUME call.phase = "answered", call.event # 0
      PROVE  /\ call.token \in Tokens /\ Carries(w, call.event, call.token)'
             /\ \A s \in shown' : ~Counts(w, call.event, s)'
  <2>1. /\ call.token \in Tokens /\ Carries(w, call.event, call.token)
        /\ \A s \in shown : ~Counts(w, call.event, s)
    BY <1>1 DEF WindowOK
  <2>2. call.token \in InUse /\ call.event \in Events
    BY <1>0, <1>1 DEF InUse, CallRow
  <2>3. Carries(w, call.event, call.token)'
    BY <2>1, <2>2, CarriesHold DEF SameWindow
  <2>4. \A s \in shown' : ~Counts(w, call.event, s)'
    BY <2>1, <2>2, CountsFrom DEF SameWindow
  <2> QED BY <2>1, <2>3, <2>4
<1>2. ASSUME kept # NothingRetained
      PROVE  Carries(w, kept.event, kept.token)'
  BY <1>2, RetainedIsUsed, CarriesHold DEF WindowOK, SameWindow
<1>3. ASSUME kept.mode = "presented"
      PROVE  kept.token \in shown'
  <2>1. kept # NothingRetained /\ kept.token \in shown
    BY <1>3 DEF WindowOK, NothingRetained
  <2> QED BY <2>1, RetainedIsUsed, UsedTokensStand
<1>4. ASSUME call.phase = "settled"
      PROVE  ~(Live(kept.event) /\ row[kept.event].token = kept.token)'
  <2>1. /\ kept # NothingRetained
        /\ ~(Live(kept.event) /\ row[kept.event].token = kept.token)
    BY <1>4 DEF WindowOK
  <2> QED BY <2>1, RetainedIsUsed, DeadHold DEF SameWindow
<1>5. /\ win'[w].retained = kept /\ win'[w].call.phase = call.phase
      /\ win'[w].call.event = call.event /\ win'[w].call.token = call.token
  BY DEF SameWindow
<1>6. /\ call.phase \in {"claim", "answered"} => kept = NothingRetained
      /\ call.phase \in {"settle", "settled"} => kept # NothingRetained
      /\ call.phase # "answered" \/ call.event = 0 => call.token = 0
  BY DEF WindowOK
<1> QED BY <1>1, <1>2, <1>3, <1>4, <1>5, <1>6 DEF WindowOK

\* Nor does it lose a showing that still counts.
LEMMA RetainsHold ==
  ASSUME TablesTyped, RowsOK, TableStep,
         NEW w \in Windows, SameWindow(w), Retains(w)
  PROVE  Retains(w)'
<1> SUFFICES ASSUME NEW e \in Events, Live(e)', row'[e].by = Me(w)', row'[e].token \in shown'
             PROVE  win'[w].retained = [event |-> e, token |-> row'[e].token, mode |-> "presented"]
  BY DEF Retains
<1>1. Live(e) /\ row'[e].token = row[e].token /\ row'[e].by = row[e].by
  BY LiveFrom
<1>2. row[e].token \in Tokens /\ row[e].token \in InUse
  BY <1>1, RowsHaveConsumers DEF Live
<1>3. row[e].token \in shown
  BY <1>1, <1>2, UsedTokensStand
<1>4. row[e].by = Me(w)
  BY <1>1 DEF Me, SameWindow
<1> QED BY <1>1, <1>3, <1>4 DEF Retains, SameWindow

-----------------------------------------------------------------------------
(* One lemma per action.                                                   *)

\* Enough for a step of the tables: the window and the call that act know what is true.
LEMMA StepKeeps ==
  ASSUME DeliveryInv, TableStep, WindowsTyped', LateTyped', ScopesRise,
         \A w \in Windows : SameWindow(w) \/ (WindowOK(w)' /\ Retains(w)'),
         \A m \in late' : m \in late \/ CallOK(m)',
         repeated' = repeated
  PROVE  DeliveryInv'
<1> USE DEF DeliveryInv
<1>1. TablesTyped'
  BY TablesKeepTypes DEF TablesTyped
<1>2. RowsOK' /\ PresentedClaims'
  BY RowsHold, PresentedHold
<1>3. ASSUME NEW w \in Windows PROVE WindowOK(w)' /\ Retains(w)'
  BY WindowHolds, RetainsHold DEF WindowsOK, ShownIsRetained
<1>4. WindowsOK' /\ ShownIsRetained'
  BY <1>3 DEF WindowsOK, ShownIsRetained
<1>5. LateOK'
  BY CallsHold DEF LateOK
<1> QED BY <1>1, <1>2, <1>4, <1>5

\* One window's call changes, and nothing else a window knows.
LEMMA CallChanges ==
  ASSUME WindowsTyped, NEW w \in Windows, NEW call \in CallRow, Call(w, call)
  PROVE  /\ WindowsTyped' /\ ScopesRise
         /\ win'[w].scope = win[w].scope /\ win'[w].retained = win[w].retained
         /\ win'[w].call = call /\ Me(w)' = Me(w)
         /\ \A v \in Windows : v # w => SameWindow(v)
<1>1. win[w] \in WindowRow /\ win' = [win EXCEPT ![w].call = call]
  BY DEF WindowsTyped, Call
<1>2. win'[w] = [win[w] EXCEPT !.call = call]
  BY <1>1 DEF WindowsTyped
<1>3. [win[w] EXCEPT !.call = call] \in WindowRow
  BY <1>1 DEF WindowRow
<1>4. WindowsTyped'
  BY <1>1, <1>3 DEF WindowsTyped
<1>5. /\ win'[w].scope = win[w].scope /\ win'[w].retained = win[w].retained
      /\ win'[w].call = call
  BY <1>1, <1>2 DEF WindowRow
<1>6. \A v \in Windows : v # w => win'[v] = win[v]
  BY <1>1 DEF WindowsTyped
<1>7. \A v \in Windows : win[v].scope \in Nat
  BY DeliveryConstants DEF WindowsTyped, WindowRow
<1>8. \A v \in Windows : win'[v].scope = win[v].scope
  BY <1>5, <1>6
<1>9. ScopesRise
  BY <1>7, <1>8 DEF ScopesRise
<1> QED BY <1>4, <1>5, <1>6, <1>9 DEF SameWindow, Me

\* The calls given up are unchanged.
LEMMA LateStays ==
  ASSUME LateTyped, late' = late
  PROVE  LateTyped' /\ \A m \in late' : m \in late
BY DEF LateTyped

LEMMA IdleCall == Idle \in CallRow
BY DEF Idle, CallRow

LEMMA EnqueueKeeps ==
  ASSUME DeliveryInv, NEW e \in Events, Enqueue(e)
  PROVE  DeliveryInv'
<1>1. TableStep
  BY DEF Enqueue, Enqueued, TableStep
<1>2. win' = win /\ late' = late /\ repeated' = repeated
  BY DEF Enqueue
<1>3. WindowsTyped' /\ LateTyped'
  BY <1>2, LateStays DEF DeliveryInv, WindowsTyped
<1>4. ScopesRise
  <2>1. \A w \in Windows : win[w].scope \in Nat
    BY DeliveryConstants DEF DeliveryInv, WindowsTyped, WindowRow
  <2> QED BY <1>2, <2>1 DEF ScopesRise
<1>5. \A w \in Windows : SameWindow(w)
  BY <1>2 DEF SameWindow
<1> QED BY <1>1, <1>2, <1>3, <1>4, <1>5, StepKeeps

\* A window between calls, and one that settles, know nothing new.
LEMMA QuietWindow ==
  ASSUME DeliveryInv, NEW w \in Windows, UNCHANGED <<row, claim, shown>>,
         win'[w].scope = win[w].scope, win'[w].retained = win[w].retained,
         win'[w].call.token = 0,
         \/ win'[w].call.phase = "idle"
         \/ win'[w].call.phase = "claim" /\ win[w].retained = NothingRetained
         \/ win'[w].call.phase = "settle" /\ win[w].retained # NothingRetained
  PROVE  WindowOK(w)' /\ Retains(w)'
<1>1. WindowOK(w) /\ Retains(w)
  BY DEF DeliveryInv, WindowsOK, ShownIsRetained
<1>2. Me(w)' = Me(w)
  BY DEF Me
<1>3. win[w].retained # NothingRetained =>
        Carries(w, win[w].retained.event, win[w].retained.token)'
  BY <1>1, <1>2 DEF WindowOK, Carries
<1>4. Retains(w)'
  BY <1>1, <1>2 DEF Retains, Live
<1>5. win'[w].retained.mode = "presented" => win'[w].retained.token \in shown'
  BY <1>1 DEF WindowOK
<1>6. win'[w].call.phase \notin {"answered", "settled"}
  OBVIOUS
<1>7. /\ win'[w].call.phase = "claim" => win'[w].retained = NothingRetained
      /\ win'[w].call.phase = "settle" => win'[w].retained # NothingRetained
  OBVIOUS
<1>8. WindowOK(w)'
  BY <1>3, <1>5, <1>6, <1>7 DEF WindowOK
<1> QED BY <1>4, <1>8

LEMMA WakeKeeps ==
  ASSUME DeliveryInv, NEW w \in Windows, Wake(w)
  PROVE  DeliveryInv'
<1>1. UNCHANGED <<row, claim, late, shown, repeated>> /\ TableStep
  BY DEF Wake, TableStep
<1>2. \/ win[w].retained # NothingRetained /\ Call(w, [Idle EXCEPT !.phase = "settle"])
      \/ win[w].retained = NothingRetained /\ Call(w, [Idle EXCEPT !.phase = "claim"])
  BY DEF Wake
<1>3. PICK phase \in {"settle", "claim"} :
        /\ phase = "settle" <=> win[w].retained # NothingRetained
        /\ Call(w, [Idle EXCEPT !.phase = phase])
  BY <1>2
<1> DEFINE call == [Idle EXCEPT !.phase = phase]
<1>4. call \in CallRow /\ call.phase = phase /\ call.token = 0
  BY DEF Idle, CallRow
<1> HIDE DEF call
<1>5. Call(w, call)
  BY <1>3 DEF call
<1>6. /\ WindowsTyped' /\ ScopesRise
      /\ win'[w].scope = win[w].scope /\ win'[w].retained = win[w].retained
      /\ win'[w].call = call
      /\ \A v \in Windows : v # w => SameWindow(v)
  BY <1>4, <1>5, CallChanges DEF DeliveryInv
<1>7. WindowOK(w)' /\ Retains(w)'
  BY <1>1, <1>3, <1>4, <1>6, QuietWindow
<1>8. \A v \in Windows : SameWindow(v) \/ (WindowOK(v)' /\ Retains(v)')
  BY <1>6, <1>7
<1>9. LateTyped' /\ \A m \in late' : m \in late
  BY <1>1, LateStays DEF DeliveryInv
<1> QED BY <1>1, <1>6, <1>8, <1>9, StepKeeps

\* A window's present consumer is one, of its present scope.
LEMMA MeIsConsumer ==
  ASSUME WindowsTyped, NEW w \in Windows
  PROVE  Me(w) \in Consumers /\ Me(w)[1] = w /\ Me(w)[2] <= win[Me(w)[1]].scope
<1>1. win[w].scope \in Scopes /\ win[w].scope \in Nat
  BY DeliveryConstants DEF WindowsTyped, WindowRow
<1> QED BY <1>1 DEF Me, Consumers

\* A row that is open has no claim that was presented.
LEMMA OpenIsNotPresented ==
  ASSUME PresentedClaims, NEW e \in Events, row[e].state # "presented",
         NEW s \in Tokens, claim[s].event = e
  PROVE  claim[s].outcome # "presented"
BY DEF PresentedClaims

\* A window that retains nothing has shown no live claim of its own.
LEMMA EmptyHanded ==
  ASSUME DeliveryInv, NEW w \in Windows, win[w].retained = NothingRetained,
         NEW e \in Events, Live(e), row[e].by = Me(w)
  PROVE  row[e].token \notin shown
<1>1. Retains(w)
  BY DEF DeliveryInv, ShownIsRetained
<1>2. win[w].retained.mode = "none"
  BY DEF NothingRetained
<1> QED BY <1>1, <1>2 DEF Retains

LEMMA ServeClaimKeeps ==
  ASSUME DeliveryInv, NEW w \in Windows, ServeClaim(w)
  PROVE  DeliveryInv'
<1>0. PICK e \in Events \cup {0}, t \in Tokens \cup {0} :
        /\ Claim(Me(w), [event |-> e, token |-> t])
        /\ Call(w, [win[w].call EXCEPT !.phase = "answered", !.event = e, !.token = t])
  BY DEF ServeClaim
<1> DEFINE call == [win[w].call EXCEPT !.phase = "answered", !.event = e, !.token = t]
<1>1. late' = late /\ repeated' = repeated /\ win[w].call.phase = "claim"
  BY DEF ServeClaim
<1>2. win[w].retained = NothingRetained
  BY <1>1 DEF DeliveryInv, WindowsOK, WindowOK
<1>3. call \in CallRow /\ call.phase = "answered" /\ call.event = e /\ call.token = t
  <2>1. win[w].call \in CallRow
    BY DEF DeliveryInv, WindowsTyped, WindowRow
  <2> QED BY <2>1 DEF CallRow
<1> HIDE DEF call
<1>4. Call(w, call)
  BY <1>0 DEF call
<1>5. /\ WindowsTyped' /\ ScopesRise
      /\ win'[w].scope = win[w].scope /\ win'[w].retained = win[w].retained
      /\ win'[w].call = call /\ Me(w)' = Me(w)
      /\ \A v \in Windows : v # w => SameWindow(v)
  BY <1>3, <1>4, CallChanges DEF DeliveryInv
<1>6. \/ /\ UNCHANGED <<row, claim, shown>>
         /\ \/ e = 0 /\ t = 0
            \/ e \in Events /\ Live(e) /\ row[e].by = Me(w) /\ t = row[e].token
      \/ e \in Events /\ t \in Tokens /\ Granted(Me(w), e, t)
  BY <1>0, MeIsConsumer, ClaimAnswers DEF DeliveryInv
<1>7. TableStep
  BY <1>6, MeIsConsumer DEF TableStep, DeliveryInv
<1>8. 0 \notin Events
  BY DeliveryConstants
<1>9. ASSUME e # 0
      PROVE  /\ t \in Tokens /\ Carries(w, e, t)'
             /\ \A s \in shown' : ~Counts(w, e, s)'
  <2>1. CASE /\ UNCHANGED <<row, claim, shown>>
             /\ e \in Events /\ Live(e) /\ row[e].by = Me(w) /\ t = row[e].token
    <3>1. /\ t \in Tokens /\ claim[t] = [event |-> e, by |-> Me(w), outcome |-> "claimed"]
      BY <2>1 DEF DeliveryInv, RowsOK, RowOK, Live
    <3>2. Carries(w, e, t)'
      BY <1>5, <2>1, <3>1 DEF Carries
    <3>3. t \notin shown
      BY <1>2, <2>1, EmptyHanded
    <3>4. ASSUME NEW s \in shown', Counts(w, e, s)'
          PROVE  FALSE
      <4>1. s \in shown /\ Counts(w, e, s) /\ s \in Tokens
        BY <1>7, <2>1, <3>4, CountsFrom DEF DeliveryInv, TablesTyped
      <4>2. claim[s].outcome # "presented"
        BY <2>1, <4>1, OpenIsNotPresented DEF DeliveryInv, Live, Counts
      <4> QED BY <2>1, <3>3, <4>1, <4>2 DEF Counts
    <3> QED BY <3>1, <3>2, <3>4
  <2>2. CASE e \in Events /\ t \in Tokens /\ Granted(Me(w), e, t)
    <3>1. claim'[t] = [event |-> e, by |-> Me(w), outcome |-> "claimed"]
      BY <2>2 DEF Granted, DeliveryInv, TablesTyped
    <3>2. Carries(w, e, t)'
      BY <1>5, <3>1 DEF Carries
    <3>3. row'[e] = [state |-> "claimed", by |-> Me(w), token |-> t, ttl |-> Lease]
      BY <2>2 DEF Granted, DeliveryInv, TablesTyped
    <3>4. ASSUME NEW s \in shown', Counts(w, e, s)'
          PROVE  FALSE
      <4>1. s \in shown /\ Counts(w, e, s) /\ s \in Tokens /\ s # t
        BY <1>7, <2>2, <3>4, CountsFrom DEF DeliveryInv, TablesTyped, Granted
      <4>2. claim[s].outcome # "presented"
        BY <2>2, <4>1, OpenIsNotPresented DEF DeliveryInv, Counts, Granted
      <4> QED BY <2>2, <4>1, <4>2 DEF Counts, Granted
    <3> QED BY <2>2, <3>2, <3>4
  <2> QED BY <1>6, <1>9, <2>1, <2>2
<1>10. e = 0 => t = 0
  BY <1>6, <1>8
<1>11. WindowOK(w)'
  <2>1. win'[w].retained = NothingRetained /\ win'[w].call.phase = "answered"
        /\ win'[w].call.event = e /\ win'[w].call.token = t
    BY <1>2, <1>3, <1>5
  <2>2. win'[w].retained.mode # "presented"
    BY <2>1 DEF NothingRetained
  <2> QED BY <1>9, <1>10, <2>1, <2>2 DEF WindowOK
<1>12. Retains(w)'
  <2> SUFFICES ASSUME NEW f \in Events, Live(f)', row'[f].by = Me(w)', row'[f].token \in shown'
               PROVE  FALSE
    BY DEF Retains
  <2>1. Live(f) /\ row'[f].token = row[f].token /\ row'[f].by = row[f].by
    BY <1>7, LiveFrom DEF DeliveryInv
  <2>2. row[f].token \in Tokens /\ row[f].token \in InUse
    BY <2>1, RowsHaveConsumers DEF Live, DeliveryInv
  <2>3. row[f].token \in shown /\ row[f].by = Me(w)
    BY <1>5, <1>7, <2>1, <2>2, UsedTokensStand DEF DeliveryInv
  <2> QED BY <1>2, <2>1, <2>3, EmptyHanded
<1>13. \A v \in Windows : SameWindow(v) \/ (WindowOK(v)' /\ Retains(v)')
  BY <1>5, <1>11, <1>12
<1>14. LateTyped' /\ \A m \in late' : m \in late
  BY <1>1, LateStays DEF DeliveryInv
<1> QED BY <1>1, <1>5, <1>7, <1>13, <1>14, StepKeeps

\* A settlement ends the claim it speaks of, or changes nothing.
LEMMA SettleAnswers ==
  ASSUME NEW id \in Consumers, NEW e \in Events, NEW t \in Tokens,
         NEW mode \in {"presented", "released"}, mode = "presented" => t \in shown,
         Settle(id, e, t, mode), shown' = shown
  PROVE  /\ TableStep
         /\ \/ Ended(id, e, t, mode)
            \/ ~Settles(id, e, t) /\ UNCHANGED <<row, claim>>
<1>1. CASE Settles(id, e, t)
  <2>1. Ended(id, e, t, mode)
    BY <1>1 DEF Settle, Ended
  <2> QED BY <2>1 DEF TableStep
<1>2. CASE ~Settles(id, e, t)
  <2>1. UNCHANGED <<row, claim>>
    BY <1>2 DEF Settle
  <2> QED BY <1>2, <2>1 DEF TableStep
<1> QED BY <1>1, <1>2

\* A settled claim is dead.
LEMMA ServeSettleKeeps ==
  ASSUME DeliveryInv, NEW w \in Windows, ServeSettle(w)
  PROVE  DeliveryInv'
<1>00. PICK r : r = win[w].retained
  OBVIOUS
<1> DEFINE call == [win[w].call EXCEPT !.phase = "settled"]
<1>0. /\ Settle(Me(w), r.event, r.token, r.mode) /\ Call(w, call)
      /\ late' = late /\ repeated' = repeated /\ shown' = shown
      /\ win[w].call.phase = "settle"
  BY <1>00 DEF ServeSettle
<1>1. /\ WindowOK(w) /\ r # NothingRetained
  BY <1>0, <1>00 DEF DeliveryInv, WindowsOK, WindowOK
<1>2. /\ r \in RetainedRow /\ r.event \in Events /\ r.token \in Tokens /\ r.token \in InUse
      /\ r.mode \in {"presented", "released"}
  BY <1>00, <1>1, RetainedIsUsed DEF DeliveryInv
<1>3. Carries(w, r.event, r.token) /\ (r.mode = "presented" => r.token \in shown)
  BY <1>00, <1>1 DEF WindowOK
<1>4. /\ call \in CallRow /\ call.phase = "settled" /\ call.token = 0
  <2>1. win[w].call \in CallRow /\ win[w].call.token = 0
    BY <1>0, <1>1 DEF DeliveryInv, WindowsTyped, WindowRow, WindowOK
  <2> QED BY <2>1 DEF CallRow
<1> HIDE DEF call
<1>5. /\ WindowsTyped' /\ ScopesRise
      /\ win'[w].scope = win[w].scope /\ win'[w].retained = r
      /\ win'[w].call = call /\ Me(w)' = Me(w)
      /\ \A v \in Windows : v # w => SameWindow(v)
  BY <1>0, <1>00, <1>4, CallChanges DEF DeliveryInv
<1>6. /\ TableStep
      /\ \/ Ended(Me(w), r.event, r.token, r.mode)
         \/ ~Settles(Me(w), r.event, r.token) /\ UNCHANGED <<row, claim>>
  BY <1>0, <1>2, <1>3, MeIsConsumer, SettleAnswers DEF DeliveryInv
<1>7. ~(Live(r.event)' /\ row'[r.event].token = r.token)
  <2>1. CASE Ended(Me(w), r.event, r.token, r.mode)
    <3>1. Leaves(Me(w), r.event, r.token, r.mode)
      BY <1>2, <2>1, MeIsConsumer, EndedRow DEF DeliveryInv
    <3>2. row'[r.event].state # "claimed"
      BY <1>2, <3>1 DEF Leaves
    <3> QED BY <3>2 DEF Live
  <2>2. CASE ~Settles(Me(w), r.event, r.token) /\ UNCHANGED <<row, claim>>
    <3> SUFFICES ASSUME Live(r.event), row[r.event].token = r.token
                 PROVE  Settles(Me(w), r.event, r.token)
      BY <2>2 DEF Live
    <3>1. claim[r.token] = [event |-> r.event, by |-> row[r.event].by, outcome |-> "claimed"]
      BY <1>2 DEF DeliveryInv, RowsOK, RowOK, Live
    <3>2. row[r.event].by = Me(w) /\ claim[r.token].by = Me(w) /\ claim[r.token].outcome = "claimed"
      BY <1>3, <3>1 DEF Carries
    <3> QED BY <3>2 DEF Settles
  <2> QED BY <1>6, <2>1, <2>2
<1>8. WindowOK(w)'
  <2>1. Carries(w, r.event, r.token)'
    BY <1>2, <1>3, <1>5, <1>6, CarriesHold DEF DeliveryInv
  <2>2. r.mode = "presented" => r.token \in shown'
    BY <1>0, <1>3
  <2>3. win'[w].call.phase = "settled" /\ win'[w].call.token = 0 /\ win'[w].retained = r
    BY <1>4, <1>5
  <2> QED BY <1>1, <1>7, <2>1, <2>2, <2>3 DEF WindowOK
<1>9. Retains(w)'
  <2> SUFFICES ASSUME NEW e \in Events, Live(e)', row'[e].by = Me(w)', row'[e].token \in shown'
               PROVE  win'[w].retained = [event |-> e, token |-> row'[e].token, mode |-> "presented"]
    BY DEF Retains
  <2>1. Live(e) /\ row'[e].token = row[e].token /\ row'[e].by = row[e].by
    BY <1>6, LiveFrom DEF DeliveryInv
  <2> QED BY <1>0, <1>00, <1>5, <2>1 DEF DeliveryInv, ShownIsRetained, Retains
<1>10. \A v \in Windows : SameWindow(v) \/ (WindowOK(v)' /\ Retains(v)')
  BY <1>5, <1>8, <1>9
<1>11. LateTyped' /\ \A m \in late' : m \in late
  BY <1>0, LateStays DEF DeliveryInv
<1> QED BY <1>0, <1>5, <1>6, <1>10, <1>11, StepKeeps

\* The answer holds no event: the window goes back to rest.
LEMMA ShowNothingKeeps ==
  ASSUME DeliveryInv, NEW w \in Windows, NEW accepted \in BOOLEAN, Show(w, accepted),
         win[w].call.event = 0
  PROVE  DeliveryInv'
<1>1. /\ Call(w, Idle) /\ UNCHANGED <<row, claim, late, shown, repeated>>
  BY DEF Show
<1>2. /\ WindowsTyped' /\ ScopesRise
      /\ win'[w].scope = win[w].scope /\ win'[w].retained = win[w].retained
      /\ win'[w].call = Idle
      /\ \A v \in Windows : v # w => SameWindow(v)
  BY <1>1, IdleCall, CallChanges DEF DeliveryInv
<1>3. win'[w].call.token = 0 /\ win'[w].call.phase = "idle"
  BY <1>2 DEF Idle
<1>4. WindowOK(w)' /\ Retains(w)'
  BY <1>1, <1>2, <1>3, QuietWindow
<1>5. \A v \in Windows : SameWindow(v) \/ (WindowOK(v)' /\ Retains(v)')
  BY <1>2, <1>4
<1>6. LateTyped' /\ (\A m \in late' : m \in late) /\ TableStep /\ repeated' = repeated
  BY <1>1, LateStays DEF DeliveryInv, TableStep
<1> QED BY <1>2, <1>5, <1>6, StepKeeps

\* The window shows the event, or its notification is refused: it retains the claim.
LEMMA ShowKeeps ==
  ASSUME DeliveryInv, NEW w \in Windows, NEW accepted \in BOOLEAN, Show(w, accepted),
         win[w].call.event # 0
  PROVE  DeliveryInv'
<1>00. PICK e, t : e = win[w].call.event /\ t = win[w].call.token
  OBVIOUS
<1> DEFINE kept == [event |-> e, token |-> t,
                    mode |-> IF accepted THEN "presented" ELSE "released"]
           call == [Idle EXCEPT !.phase = "settle"]
<1>0. /\ win[w].call.phase = "answered" /\ late' = late /\ row' = row /\ claim' = claim
      /\ win' = [win EXCEPT ![w].retained = kept, ![w].call = call]
  BY <1>00 DEF Show
<1>1. \/ accepted /\ shown' = shown \cup {t} /\ repeated' = (repeated \/ StillCounts(w, e) # {})
      \/ ~accepted /\ shown' = shown /\ repeated' = repeated
  BY <1>00 DEF Show
<1>2. /\ WindowOK(w) /\ Retains(w) /\ win[w] \in WindowRow /\ win[w].call \in CallRow
  BY DEF DeliveryInv, WindowsOK, ShownIsRetained, WindowsTyped, WindowRow
<1>3. /\ t \in Tokens /\ Carries(w, e, t) /\ (\A s \in shown : ~Counts(w, e, s))
      /\ win[w].retained = NothingRetained
  BY <1>0, <1>00, <1>2 DEF WindowOK
<1>4. e \in Events
  BY <1>00, <1>2 DEF CallRow
<1>5. /\ kept \in RetainedRow /\ kept # NothingRetained
      /\ kept.event = e /\ kept.token = t /\ (kept.mode = "presented" <=> accepted)
  BY <1>3, <1>4 DEF RetainedRow, NothingRetained
<1>6. call \in CallRow /\ call.phase = "settle" /\ call.token = 0
  BY DEF CallRow, Idle
<1> HIDE DEF kept, call
<1>7. win'[w] = [[win[w] EXCEPT !.retained = kept] EXCEPT !.call = call]
  BY <1>0, <1>2 DEF DeliveryInv, WindowsTyped
<1>8. /\ win'[w].scope = win[w].scope /\ win'[w].retained = kept /\ win'[w].call = call
      /\ win'[w] \in WindowRow
  BY <1>2, <1>5, <1>6, <1>7 DEF WindowRow
<1>9. \A v \in Windows : v # w => win'[v] = win[v]
  BY <1>0 DEF DeliveryInv, WindowsTyped
<1>10. WindowsTyped'
  BY <1>0, <1>8, <1>9 DEF DeliveryInv, WindowsTyped
<1>11. \A v \in Windows : Me(v)' = Me(v) /\ win'[v].scope = win[v].scope
  BY <1>8, <1>9 DEF Me
<1>12. shown \subseteq shown' /\ shown' \subseteq shown \cup {t} /\ (accepted => t \in shown')
  BY <1>1
<1>13. ~repeated'
  <2>1. StillCounts(w, e) = {}
    BY <1>3 DEF StillCounts, Counts
  <2> QED BY <1>1, <2>1 DEF DeliveryInv
<1>14. TablesTyped'
  <2>1. repeated \in BOOLEAN /\ ~repeated
    BY DEF DeliveryInv, TablesTyped
  <2>2. repeated' \in BOOLEAN
    BY <1>1, <2>1
  <2>3. shown' \subseteq Tokens
    BY <1>3, <1>12 DEF DeliveryInv, TablesTyped
  <2> QED BY <1>0, <2>2, <2>3 DEF DeliveryInv, TablesTyped
<1>15. PresentedClaims'
  BY <1>0 DEF DeliveryInv, PresentedClaims
<1>16. RowsOK'
  <2> SUFFICES ASSUME NEW f \in Events
               PROVE  RowOK(f)'
    BY DEF RowsOK
  <2>1. RowOK(f)
    BY DEF DeliveryInv, RowsOK
  <2>2. row[f].state \in {"claimed", "presented"} => row[f].by[1] \in Windows
    BY RowsHaveConsumers DEF Consumers, DeliveryInv
  <2> QED BY <1>0, <1>11, <1>12, <2>1, <2>2 DEF RowOK
<1>17. LateTyped' /\ LateOK'
  <2>1. \A m \in late : m.by[1] \in Windows
    BY DEF DeliveryInv, LateTyped, LateCall, Consumers
  <2> QED BY <1>0, <1>11, <1>12, <2>1, LateStays DEF DeliveryInv, LateOK, CallOK
<1>18. WindowOK(w)'
  <2>1. Carries(w, e, t)'
    BY <1>0, <1>3, <1>11 DEF Carries
  <2>2. win'[w].retained.event = e /\ win'[w].retained.token = t
    BY <1>5, <1>8
  <2> QED BY <1>5, <1>6, <1>8, <1>12, <2>1, <2>2 DEF WindowOK
<1>19. ASSUME NEW v \in Windows, v # w
       PROVE  WindowOK(v)'
  <2>1. WindowOK(v) /\ win'[v] = win[v] /\ Me(v)' = Me(v)
    BY <1>9, <1>11, <1>19 DEF DeliveryInv, WindowsOK
  <2>2. \A f : ~Counts(v, f, t)
    BY <1>3, <1>19 DEF Counts, Carries, Me
  <2>3. \A f, s : Counts(v, f, s)' <=> Counts(v, f, s)
    BY <1>0 DEF Counts, Live
  <2>4. \A f, s : Carries(v, f, s)' <=> Carries(v, f, s)
    BY <1>0, <2>1 DEF Carries
  <2>5. ASSUME win[v].call.phase = "answered", win[v].call.event # 0
        PROVE  /\ win[v].call.token \in Tokens
               /\ Carries(v, win[v].call.event, win[v].call.token)
               /\ \A s \in shown' : ~Counts(v, win[v].call.event, s)
    BY <1>12, <2>1, <2>2, <2>5 DEF WindowOK
  <2>6. win[v].retained.mode = "presented" => win[v].retained.token \in shown'
    BY <1>12, <2>1 DEF WindowOK
  <2>7. win[v].call.phase = "settled" =>
          ~(Live(win[v].retained.event) /\ row[win[v].retained.event].token = win[v].retained.token)
    BY <2>1 DEF WindowOK
  <2>8. win[v].retained # NothingRetained =>
          Carries(v, win[v].retained.event, win[v].retained.token)
    BY <2>1 DEF WindowOK
  <2>9. /\ win[v].call.phase \in {"claim", "answered"} => win[v].retained = NothingRetained
        /\ win[v].call.phase \in {"settle", "settled"} => win[v].retained # NothingRetained
        /\ win[v].call.phase # "answered" \/ win[v].call.event = 0 => win[v].call.token = 0
    BY <2>1 DEF WindowOK
  <2> QED BY <1>0, <2>1, <2>3, <2>4, <2>5, <2>6, <2>7, <2>8, <2>9 DEF WindowOK, Live
<1>20. WindowsOK'
  BY <1>18, <1>19 DEF WindowsOK
<1>21. ShownIsRetained'
  <2> SUFFICES ASSUME NEW v \in Windows, NEW f \in Events,
                      Live(f), row[f].by = Me(v), row[f].token \in shown'
               PROVE  win'[v].retained = [event |-> f, token |-> row[f].token, mode |-> "presented"]
    BY <1>0, <1>11 DEF ShownIsRetained, Retains, Live
  <2>1. CASE row[f].token \in shown
    <3>1. v # w
      BY <1>3, <2>1, EmptyHanded
    <3> QED BY <1>9, <2>1, <3>1 DEF DeliveryInv, ShownIsRetained, Retains
  <2>2. CASE row[f].token \notin shown
    <3>1. accepted /\ row[f].token = t
      BY <1>1, <2>2
    <3>2. claim[t] = [event |-> f, by |-> Me(v), outcome |-> "claimed"]
      BY <3>1 DEF DeliveryInv, RowsOK, RowOK, Live
    <3>3. f = e /\ v = w
      BY <1>3, <3>2 DEF Carries, Me
    <3> QED BY <1>8, <3>1, <3>3 DEF kept
  <2> QED BY <2>1, <2>2
<1> QED BY <1>10, <1>13, <1>14, <1>15, <1>16, <1>17, <1>20, <1>21 DEF DeliveryInv

LEMMA SettledKeeps ==
  ASSUME DeliveryInv, NEW w \in Windows, Settled(w)
  PROVE  DeliveryInv'
<1>0. /\ win[w].call.phase = "settled" /\ UNCHANGED <<row, claim, late, shown, repeated>>
      /\ win' = [win EXCEPT ![w].retained = NothingRetained, ![w].call = Idle]
  BY DEF Settled
<1>1. win[w] \in WindowRow /\ WindowOK(w) /\ Retains(w)
  BY DEF DeliveryInv, WindowsTyped, WindowsOK, ShownIsRetained
<1>2. win'[w] = [[win[w] EXCEPT !.retained = NothingRetained] EXCEPT !.call = Idle]
  BY <1>0, <1>1 DEF DeliveryInv, WindowsTyped
<1>3. /\ win'[w].scope = win[w].scope /\ win'[w].retained = NothingRetained
      /\ win'[w].call = Idle /\ win'[w] \in WindowRow
  BY <1>1, <1>2, IdleCall DEF WindowRow
<1>4. \A v \in Windows : v # w => win'[v] = win[v]
  BY <1>0 DEF DeliveryInv, WindowsTyped
<1>5. WindowsTyped'
  BY <1>0, <1>3, <1>4 DEF DeliveryInv, WindowsTyped
<1>6. ScopesRise
  <2>1. \A v \in Windows : win[v].scope \in Nat /\ win'[v].scope = win[v].scope
    BY <1>3, <1>4, DeliveryConstants DEF DeliveryInv, WindowsTyped, WindowRow
  <2> QED BY <2>1 DEF ScopesRise
<1>7. WindowOK(w)'
  BY <1>3 DEF WindowOK, Idle, NothingRetained
<1>8. Retains(w)'
  <2> SUFFICES ASSUME NEW e \in Events, Live(e), row[e].by = Me(w), row[e].token \in shown
               PROVE  FALSE
    BY <1>0, <1>3 DEF Retains, Live, Me
  <2>1. win[w].retained = [event |-> e, token |-> row[e].token, mode |-> "presented"]
    BY <1>1 DEF Retains
  <2>2. win[w].retained.event = e /\ win[w].retained.token = row[e].token
    BY <2>1
  <2> QED BY <1>0, <1>1, <2>2 DEF WindowOK
<1>9. \A v \in Windows : SameWindow(v) \/ (WindowOK(v)' /\ Retains(v)')
  BY <1>4, <1>7, <1>8 DEF SameWindow
<1>10. LateTyped' /\ (\A m \in late' : m \in late) /\ TableStep /\ repeated' = repeated
  BY <1>0, LateStays DEF DeliveryInv, TableStep
<1> QED BY <1>5, <1>6, <1>9, <1>10, StepKeeps

\* What a window gives up is one call of its present scope, of what it retains.
LEMMA AbandonedIs ==
  ASSUME DeliveryInv, NEW w \in Windows
  PROVE  \/ Abandoned(w) = {}
         \/ \E m \in LateCall :
              /\ Abandoned(w) = {m} /\ m.by = Me(w)
              /\ m.op = "settle" =>
                   m.event \in Events /\ m.token \in Tokens /\ m.mode \in {"presented", "released"}
              /\ m.mode = "presented" => m.token \in shown
<1>0. Me(w) \in Consumers
  BY MeIsConsumer DEF DeliveryInv
<1>1. CASE win[w].call.phase = "claim"
  <2> DEFINE m == [op |-> "claim", by |-> Me(w), event |-> 0, token |-> 0, mode |-> "none"]
  <2>1. m \in LateCall /\ m.by = Me(w) /\ m.op = "claim" /\ m.mode = "none"
    BY <1>0 DEF LateCall
  <2>2. Abandoned(w) = {m}
    BY <1>1 DEF Abandoned
  <2> QED BY <2>1, <2>2
<1>2. CASE win[w].call.phase = "settle"
  <2>0. PICK r : r = win[w].retained
    OBVIOUS
  <2> DEFINE m == [op |-> "settle", by |-> Me(w), event |-> r.event, token |-> r.token,
                   mode |-> r.mode]
  <2>1. /\ r.event \in Events /\ r.token \in Tokens /\ r.mode \in {"presented", "released"}
        /\ r.mode = "presented" => r.token \in shown
    BY <1>2, <2>0, RetainedIsUsed DEF DeliveryInv, WindowsOK, WindowOK
  <2>2. /\ m \in LateCall /\ m.by = Me(w) /\ m.op = "settle"
        /\ m.event = r.event /\ m.token = r.token /\ m.mode = r.mode
    BY <1>0, <2>1 DEF LateCall
  <2>3. Abandoned(w) = {m}
    BY <1>2, <2>0 DEF Abandoned
  <2> HIDE DEF m
  <2> QED BY <2>1, <2>2, <2>3
<1>3. CASE win[w].call.phase \notin {"claim", "settle"}
  BY <1>3 DEF Abandoned
<1> QED BY <1>1, <1>2, <1>3

\* The calls given up stay within their bound, and speak of what is so.
LEMMA LateKept ==
  ASSUME DeliveryInv, NEW w \in Windows, late' = KeepLate(w), shown' = shown,
         WindowsTyped', ScopesRise
  PROVE  LateTyped' /\ \A m \in late' : m \in late \/ CallOK(m)'
<1>1. CASE late' = late
  BY <1>1, LateStays DEF DeliveryInv
<1>2. CASE \E m \in LateCall :
             /\ late' = late \cup {m} /\ m \notin late /\ Cardinality(late) < MaxLate
             /\ m.by = Me(w)
             /\ m.op = "settle" =>
                  m.event \in Events /\ m.token \in Tokens /\ m.mode \in {"presented", "released"}
             /\ m.mode = "presented" => m.token \in shown
  <2>1. PICK m \in LateCall :
             /\ late' = late \cup {m} /\ m \notin late /\ Cardinality(late) < MaxLate
             /\ m.by = Me(w)
             /\ m.op = "settle" =>
                  m.event \in Events /\ m.token \in Tokens /\ m.mode \in {"presented", "released"}
             /\ m.mode = "presented" => m.token \in shown
    BY <1>2
  <2>2. CallOK(m)'
    <3>1. Me(w)[2] <= win'[Me(w)[1]].scope /\ Me(w) \in Consumers
      BY MeIsConsumer, ScopeHolds DEF DeliveryInv
    <3> QED BY <2>1, <3>1 DEF CallOK
  <2>3. IsFiniteSet(late') /\ Cardinality(late') = Cardinality(late) + 1
    BY <2>1, FS_AddElement DEF DeliveryInv, LateTyped
  <2>4. Cardinality(late) \in Nat /\ MaxLate \in Nat
    BY FS_CardinalityType, DeliveryConstants DEF DeliveryInv, LateTyped
  <2>5. Cardinality(late') <= MaxLate
    BY <2>1, <2>3, <2>4
  <2>6. LateTyped'
    BY <2>1, <2>3, <2>5 DEF DeliveryInv, LateTyped
  <2> QED BY <2>1, <2>2, <2>6
<1>3. \/ late' = late
      \/ \E m \in LateCall :
             /\ late' = late \cup {m} /\ m \notin late /\ Cardinality(late) < MaxLate
             /\ m.by = Me(w)
             /\ m.op = "settle" =>
                  m.event \in Events /\ m.token \in Tokens /\ m.mode \in {"presented", "released"}
             /\ m.mode = "presented" => m.token \in shown
  <2>1. CASE ~(Cardinality(late) < MaxLate) \/ Abandoned(w) \subseteq late
    BY <2>1 DEF KeepLate
  <2>2. CASE Cardinality(late) < MaxLate /\ ~(Abandoned(w) \subseteq late)
    BY <2>2, AbandonedIs DEF KeepLate
  <2> QED BY <2>1, <2>2
<1> QED BY <1>1, <1>2, <1>3

LEMMA GiveUpKeeps ==
  ASSUME DeliveryInv, NEW w \in Windows, GiveUp(w)
  PROVE  DeliveryInv'
<1>1. /\ Call(w, Idle) /\ late' = KeepLate(w)
      /\ UNCHANGED <<row, claim, shown, repeated>>
  BY DEF GiveUp
<1>2. /\ WindowsTyped' /\ ScopesRise
      /\ win'[w].scope = win[w].scope /\ win'[w].retained = win[w].retained
      /\ win'[w].call = Idle
      /\ \A v \in Windows : v # w => SameWindow(v)
  BY <1>1, IdleCall, CallChanges DEF DeliveryInv
<1>3. win'[w].call.token = 0 /\ win'[w].call.phase = "idle"
  BY <1>2 DEF Idle
<1>4. WindowOK(w)' /\ Retains(w)'
  BY <1>1, <1>2, <1>3, QuietWindow
<1>5. \A v \in Windows : SameWindow(v) \/ (WindowOK(v)' /\ Retains(v)')
  BY <1>2, <1>4
<1>6. LateTyped' /\ \A m \in late' : m \in late \/ CallOK(m)'
  BY <1>1, <1>2, LateKept
<1>7. TableStep /\ repeated' = repeated
  BY <1>1 DEF TableStep
<1> QED BY <1>2, <1>5, <1>6, <1>7, StepKeeps

\* A new scope is above every scope the rows and the calls know.
LEMMA RescopeKeeps ==
  ASSUME DeliveryInv, NEW w \in Windows, Rescope(w)
  PROVE  DeliveryInv'
<1> DEFINE fresh == [scope |-> win[w].scope + 1, call |-> Idle, retained |-> NothingRetained]
<1>0. /\ win[w].scope + 1 \in Scopes /\ late' = KeepLate(w)
      /\ UNCHANGED <<row, claim, shown, repeated>> /\ win' = [win EXCEPT ![w] = fresh]
  BY DEF Rescope
<1>1. /\ fresh \in WindowRow /\ fresh.call = Idle /\ fresh.retained = NothingRetained
      /\ fresh.scope = win[w].scope + 1
  BY <1>0, IdleCall DEF WindowRow
<1> HIDE DEF fresh
<1>2. win'[w] = fresh /\ \A v \in Windows : v # w => win'[v] = win[v]
  BY <1>0 DEF DeliveryInv, WindowsTyped
<1>3. WindowsTyped'
  BY <1>0, <1>1 DEF DeliveryInv, WindowsTyped
<1>4. \A v \in Windows : win[v].scope \in Nat
  BY DeliveryConstants DEF DeliveryInv, WindowsTyped, WindowRow
<1>5. ScopesRise
  BY <1>1, <1>2, <1>4 DEF ScopesRise
<1>6. WindowOK(w)'
  BY <1>1, <1>2 DEF WindowOK, Idle, NothingRetained
<1>7. Retains(w)'
  <2> SUFFICES ASSUME NEW e \in Events, Live(e), row[e].by = <<w, win[w].scope + 1>>
               PROVE  FALSE
    BY <1>0, <1>1, <1>2 DEF Retains, Live, Me
  <2>1. row[e].by[2] <= win[row[e].by[1]].scope
    BY DEF DeliveryInv, RowsOK, RowOK, Live
  <2> QED BY <1>4, <2>1
<1>8. \A v \in Windows : SameWindow(v) \/ (WindowOK(v)' /\ Retains(v)')
  BY <1>2, <1>6, <1>7 DEF SameWindow
<1>9. LateTyped' /\ \A m \in late' : m \in late \/ CallOK(m)'
  BY <1>0, <1>3, <1>5, LateKept
<1>10. TableStep /\ repeated' = repeated
  BY <1>0 DEF TableStep
<1> QED BY <1>3, <1>5, <1>8, <1>9, <1>10, StepKeeps

\* A call given up leaves the set of them.
LEMMA LateTaken ==
  ASSUME LateTyped, NEW m \in late, late' = late \ {m}
  PROVE  LateTyped' /\ \A n \in late' : n \in late
<1>1. IsFiniteSet(late') /\ Cardinality(late') <= Cardinality(late)
  BY FS_Subset DEF LateTyped
<1>2. Cardinality(late') \in Nat /\ Cardinality(late) \in Nat /\ MaxLate \in Nat
  BY <1>1, FS_CardinalityType, DeliveryConstants DEF LateTyped
<1>3. Cardinality(late') <= MaxLate
  BY <1>1, <1>2 DEF LateTyped
<1> QED BY <1>1, <1>3 DEF LateTyped

\* The windows do not change.
LEMMA WindowsStay ==
  ASSUME WindowsTyped, win' = win
  PROVE  WindowsTyped' /\ ScopesRise /\ \A w \in Windows : SameWindow(w)
<1>1. \A w \in Windows : win[w].scope \in Nat
  BY DeliveryConstants DEF WindowsTyped, WindowRow
<1> QED BY <1>1 DEF WindowsTyped, ScopesRise, SameWindow

\* A late call is served as a call of its own would be.
LEMMA ServeLateMoves ==
  ASSUME DeliveryInv, NEW m \in late, ServeLate(m)
  PROVE  TableStep
<1>1. m \in LateCall /\ CallOK(m)
  BY DEF DeliveryInv, LateTyped, LateOK
<1>2. m.by \in Consumers /\ m.op \in {"claim", "settle"} /\ m.by[2] <= win[m.by[1]].scope
  BY <1>1 DEF LateCall, CallOK
<1>3. CASE m.op = "claim"
  <2>1. PICK e \in Events \cup {0}, t \in Tokens \cup {0} :
          Claim(m.by, [event |-> e, token |-> t])
    BY <1>3 DEF ServeLate
  <2>2. UNCHANGED <<row, claim, shown>> \/ (e \in Events /\ t \in Tokens /\ Granted(m.by, e, t))
    BY <1>2, <2>1, ClaimAnswers DEF DeliveryInv
  <2> QED BY <1>2, <2>2 DEF TableStep
<1>4. CASE m.op = "settle"
  <2>1. Settle(m.by, m.event, m.token, m.mode) /\ shown' = shown
    BY <1>4 DEF ServeLate
  <2>2. /\ m.event \in Events /\ m.token \in Tokens /\ m.mode \in {"presented", "released"}
        /\ m.mode = "presented" => m.token \in shown
    BY <1>1, <1>4 DEF DeliveryInv, LateTyped, CallOK
  <2> QED BY <1>2, <2>1, <2>2, SettleAnswers
<1> QED BY <1>2, <1>3, <1>4

LEMMA ServeLateKeeps ==
  ASSUME DeliveryInv, NEW m \in late, ServeLate(m)
  PROVE  DeliveryInv'
<1>0. late' = late \ {m} /\ win' = win /\ repeated' = repeated
  BY DEF ServeLate
<1>3. TableStep
  BY ServeLateMoves
<1>4. WindowsTyped' /\ ScopesRise /\ \A w \in Windows : SameWindow(w)
  BY <1>0, WindowsStay DEF DeliveryInv
<1>5. LateTyped' /\ \A n \in late' : n \in late
  BY <1>0, LateTaken DEF DeliveryInv
<1> QED BY <1>0, <1>3, <1>4, <1>5, StepKeeps

LEMMA LoseLateKeeps ==
  ASSUME DeliveryInv, NEW m \in late, LoseLate(m)
  PROVE  DeliveryInv'
<1>0. /\ late' = late \ {m} /\ win' = win /\ repeated' = repeated
      /\ UNCHANGED <<row, claim, shown>>
  BY DEF LoseLate
<1>1. TableStep
  BY <1>0 DEF TableStep
<1>2. WindowsTyped' /\ ScopesRise /\ \A w \in Windows : SameWindow(w)
  BY <1>0, WindowsStay DEF DeliveryInv
<1>3. LateTyped' /\ \A n \in late' : n \in late
  BY <1>0, LateTaken DEF DeliveryInv
<1> QED BY <1>0, <1>1, <1>2, <1>3, StepKeeps

LEMMA TickKeeps ==
  ASSUME DeliveryInv, Tick
  PROVE  DeliveryInv'
<1>0. /\ Aged /\ late' = late /\ repeated' = repeated
      /\ win' = [w \in Windows |->
                   IF win[w].call = Idle THEN win[w] ELSE [win[w] EXCEPT !.call.wait = 1]]
  BY DEF Tick, Aged
<1>1. ASSUME NEW w \in Windows
      PROVE  win'[w] \in WindowRow /\ SameWindow(w)
  <2>1. win[w] \in WindowRow /\ win[w].call \in CallRow
    BY DEF DeliveryInv, WindowsTyped, WindowRow
  <2>2. CASE win[w].call = Idle
    <3>1. win'[w] = win[w]
      BY <1>0, <2>2
    <3> QED BY <2>1, <3>1 DEF SameWindow
  <2>3. CASE win[w].call # Idle
    <3> DEFINE call == [win[w].call EXCEPT !.wait = 1]
    <3>1. win'[w] = [win[w] EXCEPT !.call = call]
      BY <1>0, <2>3
    <3>2. /\ call \in CallRow /\ call.phase = win[w].call.phase
          /\ call.event = win[w].call.event /\ call.token = win[w].call.token
      BY <2>1 DEF CallRow
    <3> HIDE DEF call
    <3>3. /\ win'[w].call = call /\ win'[w].scope = win[w].scope
          /\ win'[w].retained = win[w].retained /\ win'[w] \in WindowRow
      BY <2>1, <3>1, <3>2 DEF WindowRow
    <3> QED BY <3>2, <3>3 DEF SameWindow
  <2> QED BY <2>2, <2>3
<1>2. WindowsTyped'
  BY <1>0, <1>1 DEF WindowsTyped
<1>3. ScopesRise
  <2>1. \A w \in Windows : win[w].scope \in Nat
    BY DeliveryConstants DEF DeliveryInv, WindowsTyped, WindowRow
  <2> QED BY <1>1, <2>1 DEF ScopesRise, SameWindow
<1>4. LateTyped' /\ \A n \in late' : n \in late
  BY <1>0, LateStays DEF DeliveryInv
<1>5. TableStep
  BY <1>0 DEF TableStep
<1> QED BY <1>0, <1>1, <1>2, <1>3, <1>4, <1>5, StepKeeps

-----------------------------------------------------------------------------
(* The theorems.                                                           *)

LEMMA InitHolds == DeliveryInit => DeliveryInv
<1> SUFFICES ASSUME DeliveryInit
             PROVE  DeliveryInv
  OBVIOUS
<1> USE DEF DeliveryInit
<1>1. 0 \in Scopes /\ 0 \in 0..Lease /\ MaxLate \in Nat
  BY DeliveryConstants
<1>2. TablesTyped
  <2>1. Absent \in OutboxRow
    BY <1>1 DEF Absent, OutboxRow
  <2> QED BY <2>1 DEF TablesTyped
<1>3. \A w \in Windows : win[w] = [scope |-> 0, call |-> Idle, retained |-> NothingRetained]
  OBVIOUS
<1>4. WindowsTyped
  BY <1>1, IdleCall DEF WindowsTyped, WindowRow
<1>5. LateTyped /\ LateOK
  BY <1>1, FS_EmptySet DEF LateTyped, LateOK
<1>6. RowsOK
  BY DEF RowsOK, RowOK, Absent
<1>7. PresentedClaims
  BY DEF PresentedClaims, NoClaim
<1>8. WindowsOK
  BY <1>3 DEF WindowsOK, WindowOK, Idle, NothingRetained
<1>9. ShownIsRetained
  BY DEF ShownIsRetained, Retains
<1> QED BY <1>2, <1>4, <1>5, <1>6, <1>7, <1>8, <1>9 DEF DeliveryInv

LEMMA DeliveryKeeps ==
  ASSUME DeliveryInv, DeliveryStep
  PROVE  DeliveryInv'
<1>1. CASE \E e \in Events : Enqueue(e)
  BY <1>1, EnqueueKeeps
<1>2. CASE \E w \in Windows : \/ Wake(w) \/ ServeClaim(w) \/ ServeSettle(w) \/ Settled(w)
                              \/ GiveUp(w) \/ Rescope(w)
  BY <1>2, WakeKeeps, ServeClaimKeeps, ServeSettleKeeps, SettledKeeps, GiveUpKeeps, RescopeKeeps
<1>3. CASE \E w \in Windows : \E accepted \in BOOLEAN : Show(w, accepted)
  BY <1>3, ShowNothingKeeps, ShowKeeps
<1>4. CASE \E m \in late : ServeLate(m) \/ LoseLate(m)
  BY <1>4, ServeLateKeeps, LoseLateKeeps
<1>5. CASE Tick
  BY <1>5, TickKeeps
<1>6. CASE UNCHANGED deliveryVars
  <2>1. /\ UNCHANGED <<row, claim, late, shown, repeated>> /\ win' = win
    BY <1>6 DEF deliveryVars
  <2>2. WindowsTyped' /\ ScopesRise /\ \A w \in Windows : SameWindow(w)
    BY <2>1, WindowsStay DEF DeliveryInv
  <2>3. LateTyped' /\ (\A m \in late' : m \in late) /\ TableStep
    BY <2>1, LateStays DEF DeliveryInv, TableStep
  <2> QED BY <2>1, <2>2, <2>3, StepKeeps
<1> QED BY <1>1, <1>2, <1>3, <1>4, <1>5, <1>6 DEF DeliveryStep, DeliveryNext

LEMMA DeliveryInvariant == DeliverySpec => []DeliveryInv
<1>1. DeliveryInit => DeliveryInv
  BY InitHolds
<1>2. DeliveryInv /\ [DeliveryNext]_deliveryVars => DeliveryInv'
  BY DeliveryKeeps DEF DeliveryStep
<1> QED BY <1>1, <1>2, PTL DEF DeliverySpec

(***************************************************************************)
(* The mark and the showings agree (plugin.js settles a claim only with    *)
(* the receipt of the notification it showed, and store.py:                *)
(* _settle_notification accepts it only for the live claim): an event is   *)
(* presented only if it was shown under the claim that marked it, and it   *)
(* is shown again only when no earlier showing can still count, for any    *)
(* number of events, windows and late calls.                               *)
(***************************************************************************)
THEOREM ShownUnderClaim == DeliverySpec => []ShownUnderItsClaim
<1>1. DeliveryInv => ShownUnderItsClaim
  <2> SUFFICES ASSUME DeliveryInv
               PROVE  ShownUnderItsClaim
    OBVIOUS
  <2>1. Fresh \in Tokens
    BY FreshIsFree DEF DeliveryInv
  <2>2. ASSUME NEW w \in Windows
        PROVE  win[w].scope \in Scopes /\ win[w].call.wait \in 0..1
    BY DEF DeliveryInv, WindowsTyped, WindowRow, CallRow
  <2>3. ASSUME NEW e \in Events
        PROVE  /\ row[e].ttl > 0 => row[e].state = "claimed"
               /\ row[e].state \in {"claimed", "presented"} =>
                    claim[row[e].token] =
                      [event |-> e, by |-> row[e].by,
                       outcome |-> IF row[e].state = "claimed" THEN "claimed" ELSE "presented"]
    BY DEF DeliveryInv, RowsOK, RowOK
  <2>4. DeliveryTypeOK
    BY <2>1, <2>2, <2>3 DEF DeliveryInv, TablesTyped, DeliveryTypeOK
  <2>5. PresentedWasShown
    BY DEF DeliveryInv, RowsOK, RowOK, PresentedWasShown
  <2>6. RepeatOnlyAfterExpiry
    BY DEF DeliveryInv, RepeatOnlyAfterExpiry
  <2> QED BY <2>4, <2>5, <2>6 DEF ShownUnderItsClaim
<1> QED BY <1>1, DeliveryInvariant, PTL

\* What a step does to the tables, whichever action it is.
LEMMA TablesMove ==
  ASSUME DeliveryInv, DeliveryStep
  PROVE  TableStep \/ UNCHANGED <<row, claim>>
<1>1. ASSUME NEW w \in Windows, ServeClaim(w)
      PROVE  TableStep
  <2>1. PICK e \in Events \cup {0}, t \in Tokens \cup {0} :
          Claim(Me(w), [event |-> e, token |-> t])
    BY <1>1 DEF ServeClaim
  <2>2. UNCHANGED <<row, claim, shown>> \/ (e \in Events /\ t \in Tokens /\ Granted(Me(w), e, t))
    BY <2>1, MeIsConsumer, ClaimAnswers DEF DeliveryInv
  <2> QED BY <2>2, MeIsConsumer DEF TableStep, DeliveryInv
<1>2. ASSUME NEW w \in Windows, ServeSettle(w)
      PROVE  TableStep
  <2>0. PICK r : r = win[w].retained
    OBVIOUS
  <2>1. /\ Settle(Me(w), r.event, r.token, r.mode) /\ shown' = shown
        /\ win[w].call.phase = "settle"
    BY <1>2, <2>0 DEF ServeSettle
  <2>2. WindowOK(w)
    BY DEF DeliveryInv, WindowsOK
  <2>3. /\ r.event \in Events /\ r.token \in Tokens /\ r.mode \in {"presented", "released"}
        /\ r.mode = "presented" => r.token \in shown
    BY <2>0, <2>1, <2>2, RetainedIsUsed DEF DeliveryInv, WindowOK
  <2> QED BY <2>1, <2>3, MeIsConsumer, SettleAnswers DEF DeliveryInv
<1>3. ASSUME NEW m \in late, ServeLate(m)
      PROVE  TableStep
  BY <1>3, ServeLateMoves
<1>4. ASSUME NEW e \in Events, Enqueue(e)
      PROVE  TableStep
  BY <1>4 DEF Enqueue, Enqueued, TableStep
<1>5. CASE Tick
  BY <1>5 DEF Tick, Aged, TableStep
<1>6. CASE UNCHANGED <<row, claim>>
  BY <1>6
<1> QED BY <1>1, <1>2, <1>3, <1>4, <1>5, <1>6
        DEF DeliveryStep, DeliveryNext, Wake, Settled, GiveUp, Rescope, Show, LoseLate, deliveryVars

(***************************************************************************)
(* A presented event stays presented under the claim that presented it,    *)
(* and a live claim leaves its consumer only by that consumer's own        *)
(* settlement (store.py: claim_notification and _settle_notification),     *)
(* whatever late and repeated calls the store serves.                      *)
(***************************************************************************)
THEOREM ClaimsKept == DeliverySpec => ClaimsStand
<1> DEFINE Stands(e) ==
      /\ row[e].state = "presented" => row'[e] = row[e]
      /\ Live(e) /\ row'[e].token # row[e].token =>
           /\ row'[e] = [Absent EXCEPT !.state = "pending"]
           /\ claim'[row[e].token].outcome = "released"
<1>1. ASSUME DeliveryInv, DeliveryStep, NEW e \in Events
      PROVE  Stands(e)
  <2>0. row[e] \in OutboxRow
    BY <1>1 DEF DeliveryInv, TablesTyped
  <2>1. CASE Aged
    <3>1. row'[e] = IF Live(e) THEN [row[e] EXCEPT !.ttl = @ - 1] ELSE row[e]
      BY <2>1 DEF Aged
    <3>2. row'[e].token = row[e].token
      BY <2>0, <3>1 DEF OutboxRow
    <3>3. row[e].state = "presented" => ~Live(e)
      BY DEF Live
    <3> QED BY <3>1, <3>2, <3>3
  <2>2. CASE \E f \in Events : Enqueued(f)
    <3>1. PICK f \in Events : Enqueued(f)
      BY <2>2
    <3>2. CASE f = e
      <4>1. row[e].state = "absent"
        BY <3>1, <3>2 DEF Enqueued, Absent
      <4> QED BY <4>1 DEF Live
    <3>3. CASE f # e
      BY <1>1, <3>1, <3>3 DEF Enqueued, DeliveryInv, TablesTyped
    <3> QED BY <3>2, <3>3
  <2>3. CASE \E id \in Consumers, f \in Events, t \in Tokens : Granted(id, f, t)
    <3>1. PICK id \in Consumers, f \in Events, t \in Tokens : Granted(id, f, t)
      BY <2>3
    <3>2. CASE f = e
      BY <3>1, <3>2 DEF Granted
    <3>3. CASE f # e
      BY <1>1, <3>1, <3>3 DEF Granted, DeliveryInv, TablesTyped
    <3> QED BY <3>2, <3>3
  <2>4. CASE \E id \in Consumers, f \in Events, t \in Tokens, mode \in {"presented", "released"} :
               Ended(id, f, t, mode)
    <3>1. PICK id \in Consumers, f \in Events, t \in Tokens, mode \in {"presented", "released"} :
                 Ended(id, f, t, mode)
      BY <2>4
    <3>2. Leaves(id, f, t, mode)
      BY <1>1, <3>1, EndedRow DEF DeliveryInv
    <3>3. CASE f # e
      BY <3>2, <3>3 DEF Leaves
    <3>4. CASE f = e /\ mode = "presented"
      BY <3>2, <3>4 DEF Leaves
    <3>5. CASE f = e /\ mode = "released"
      BY <3>2, <3>5 DEF Leaves, Absent
    <3> QED BY <3>3, <3>4, <3>5
  <2>5. CASE UNCHANGED <<row, claim>>
    BY <2>5
  <2> QED BY <1>1, <2>1, <2>2, <2>3, <2>4, <2>5, TablesMove DEF TableStep
<1>2. DeliveryInv /\ [DeliveryNext]_deliveryVars => [\A e \in Events : Stands(e)]_deliveryVars
  BY <1>1 DEF DeliveryStep
<1> QED BY <1>2, DeliveryInvariant, PTL DEF DeliverySpec, ClaimsStand
=============================================================================
