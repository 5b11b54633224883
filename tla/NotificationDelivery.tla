------------------------- MODULE NotificationDelivery -------------------------
(***************************************************************************)
(* Delivery of the notification outbox: the store's claims and leases, and *)
(* the Desktop windows that poll it, show an event and settle its claim    *)
(* over calls that may be slow, lost or answered too late.                 *)
(*                                                                         *)
(* Time is counted in ticks, the length of the window's call timeout (5 s).*)
(* A token nobody can send any more is used again, so that no run is cut   *)
(* short by a counter.                                                     *)
(***************************************************************************)
EXTENDS Integers, FiniteSets

CONSTANTS
  Events,     \* sequence numbers of the outbox, a set of naturals
  Completion, \* those of type completion: the others come first
  Windows,    \* running Desktop windows
  Scopes,     \* consumer UUIDs a window may draw, one per scope, in order
  Lease,      \* ticks of a claim, 30 s in the code
  Tokens,     \* claim tokens that may be in use at once
  MaxLate     \* calls given up that may still be served; one more is lost

ASSUME DeliveryConstants ==
  /\ Events \subseteq Nat \ {0} /\ IsFiniteSet(Events) /\ Completion \subseteq Events
  /\ Scopes \subseteq Nat /\ 0 \in Scopes
  /\ Lease \in Nat \ {0} /\ Tokens \subseteq Nat \ {0} /\ MaxLate \in Nat
  /\ IsFiniteSet(Windows)

\* Each row, window and late call carries one token at most.
ASSUME TokensSuffice ==
  IsFiniteSet(Tokens) =>
    Cardinality(Tokens) > Cardinality(Events) + Cardinality(Windows) + MaxLate

VARIABLES
  row,      \* notification_outbox: delivery columns of each row
  claim,    \* notification_claims: the row of each token
  win,      \* each window's scope, its call in flight and its retained claim
  late,     \* calls a window gave up that the store may still serve
  shown,    \* history: tokens whose claim was shown to the user
  repeated, \* history: an event was shown although an earlier showing still counted
  crossed   \* history: an event was shown while another consumer's claim was live

deliveryVars == <<row, claim, win, late, shown, repeated, crossed>>

Consumers == Windows \X Scopes
NoConsumer == <<>>
NoClaim == [event |-> 0, by |-> NoConsumer, outcome |-> "free"]
NothingRetained == [event |-> 0, token |-> 0, mode |-> "none"]
Absent == [state |-> "absent", by |-> NoConsumer, token |-> 0, ttl |-> 0]
Idle == [phase |-> "idle", event |-> 0, token |-> 0, wait |-> 0]

OutboxRow == [state: {"absent", "pending", "claimed", "presented"}, token: Tokens \cup {0},
              by: Consumers \cup {NoConsumer}, ttl: 0..Lease]
ClaimRow == [event: Events, by: Consumers, outcome: {"claimed", "presented", "released"}]

DeliveryInit ==
  /\ row = [e \in Events |-> Absent]
  /\ claim = [t \in Tokens |-> NoClaim]
  /\ win = [w \in Windows |-> [scope |-> 0, call |-> Idle, retained |-> NothingRetained]]
  /\ late = {}
  /\ shown = {} /\ repeated = FALSE /\ crossed = FALSE

Me(w) == <<w, win[w].scope>>
Urgency(e) == IF e \in Completion THEN 1 ELSE 0

\* The first of these rows in delivery order: what needs action, then by sequence.
First(rows) == CHOOSE e \in rows : \A f \in rows :
                 Urgency(e) < Urgency(f) \/ (Urgency(e) = Urgency(f) /\ e <= f)

Deliverable == {e \in Events : row[e].state \in {"pending", "claimed"}}
Live(e) == row[e].state = "claimed" /\ row[e].ttl > 0
Owned(id) == {e \in Deliverable : Live(e) /\ row[e].by = id}
Unclaimed_Faulty == {e \in Deliverable : row[e].state = "pending" \/ row[e].ttl <= 1}  \* an early expiry
Unclaimed_Stuck == {e \in Deliverable : row[e].state = "pending"}  \* no lease ever ends
Unclaimed == {e \in Deliverable : ~Live(e)}

\* Tokens some window or call can still send.
InUse == {row[e].token : e \in Events}
         \cup {win[w].retained.token : w \in Windows} \cup {win[w].call.token : w \in Windows}
         \cup {m.token : m \in late}
Fresh == CHOOSE t \in Tokens : t \notin InUse

-----------------------------------------------------------------------------
(* The store.                                                              *)

\* _enqueue_completion, _enqueue_actionable: a semantic key is inserted once.
Enqueue(e) ==
  /\ row[e] = Absent
  /\ row' = [row EXCEPT ![e].state = "pending"]
  /\ UNCHANGED <<claim, win, late, shown, repeated, crossed>>

\* claim_notification: the consumer's own live claim once more, otherwise the first row
\* that is pending or whose lease is over.  answer is the event and token it returns.
Claim(id, answer) ==
  IF Owned(id) # {}
  THEN /\ answer = [event |-> First(Owned(id)), token |-> row[First(Owned(id))].token]
       /\ UNCHANGED <<row, claim, shown>>
  ELSE IF Unclaimed = {}
  THEN answer = [event |-> 0, token |-> 0] /\ UNCHANGED <<row, claim, shown>>
  ELSE LET e == First(Unclaimed)
       IN  /\ answer = [event |-> e, token |-> Fresh]
           /\ row' = [row EXCEPT ![e] = [state |-> "claimed", by |-> id, token |-> Fresh, ttl |-> Lease]]
           /\ claim' = [claim EXCEPT ![Fresh] = [event |-> e, by |-> id, outcome |-> "claimed"]]
           /\ shown' = shown \ {Fresh}

\* _settle_notification: only the claim that still is live settles the row.
Settles(id, e, t) ==
  /\ claim[t].by = id /\ claim[t].outcome = "claimed"
  /\ row[e].by = id /\ row[e].token = t /\ Live(e)

Settle(id, e, t, mode) ==
  IF Settles(id, e, t)
  THEN /\ claim' = [claim EXCEPT ![t].outcome = mode]
       /\ row' = [row EXCEPT ![e] =
                    IF mode = "presented" THEN [@ EXCEPT !.state = "presented", !.ttl = 0]
                    ELSE [Absent EXCEPT !.state = "pending"]]
  ELSE UNCHANGED <<row, claim>>

-----------------------------------------------------------------------------
(* The window: plugin.js.                                                  *)

Call(w, call) == win' = [win EXCEPT ![w].call = call]

\* lane: a wake of the poll timer or the socket; a retained claim is settled before
\* anything else is asked for.
Wake(w) ==
  /\ win[w].call = Idle
  /\ IF win[w].retained # NothingRetained
     THEN Call(w, [Idle EXCEPT !.phase = "settle"])
     ELSE Deliverable # {} /\ Call(w, [Idle EXCEPT !.phase = "claim"])
  /\ UNCHANGED <<row, claim, late, shown, repeated, crossed>>

ServeClaim(w) ==
  /\ win[w].call.phase = "claim"
  /\ \E e \in Events \cup {0}, t \in Tokens \cup {0} :
       /\ Claim(Me(w), [event |-> e, token |-> t])
       /\ Call(w, [win[w].call EXCEPT !.phase = "answered", !.event = e, !.token = t])
  /\ UNCHANGED <<late, repeated, crossed>>

\* This window's earlier showings of an event that still counted when it is shown once
\* more: settled as presented, or under a claim that is live.
StillCounts(w, e) == {s \in shown : /\ claim[s].event = e /\ claim[s].by[1] = w
                                    /\ \/ claim[s].outcome = "presented"
                                       \/ Live(e) /\ row[e].token = s}

\* The answer arrives: notify, retain the claim with the receipt, settle it.
Show_Faulty(w, accepted) ==  \* a refused notify is settled as presented
  /\ win[w].call.phase = "answered"
  /\ win[w].call.event # 0
  /\ win' = [win EXCEPT ![w].retained = [event |-> win[w].call.event, token |-> win[w].call.token,
                                         mode |-> "presented"],
                        ![w].call = [Idle EXCEPT !.phase = "settle"]]
  /\ shown' = IF accepted THEN shown \cup {win[w].call.token} ELSE shown
  /\ UNCHANGED <<row, claim, late, repeated, crossed>>

Show(w, accepted) ==
  LET e == win[w].call.event
      t == win[w].call.token
  IN  /\ win[w].call.phase = "answered"
      /\ IF e = 0 THEN Call(w, Idle) /\ UNCHANGED <<shown, repeated, crossed>>
         ELSE /\ win' = [win EXCEPT
                   ![w].retained = [event |-> e, token |-> t,
                                    mode |-> IF accepted THEN "presented" ELSE "released"],
                   ![w].call = [Idle EXCEPT !.phase = "settle"]]
              /\ IF accepted
                 THEN /\ shown' = shown \cup {t}
                      /\ repeated' = (repeated \/ StillCounts(w, e) # {})
                      /\ crossed' = (crossed \/ (Live(e) /\ row[e].by # Me(w)))
                 ELSE UNCHANGED <<shown, repeated, crossed>>
      /\ UNCHANGED <<row, claim, late>>

ServeSettle(w) ==
  /\ win[w].call.phase = "settle"
  /\ LET r == win[w].retained IN Settle(Me(w), r.event, r.token, r.mode)
  /\ Call(w, [win[w].call EXCEPT !.phase = "settled"])
  /\ UNCHANGED <<late, shown, repeated, crossed>>

\* presented, already_presented and stale_claim alike end the claim.
Settled(w) ==
  /\ win[w].call.phase = "settled"
  /\ win' = [win EXCEPT ![w].retained = NothingRetained, ![w].call = Idle]
  /\ UNCHANGED <<row, claim, late, shown, repeated, crossed>>

\* What the store may still serve of a call nobody waits for.
Abandoned(w) ==
  LET r == win[w].retained IN
  CASE win[w].call.phase = "claim" ->
         {[op |-> "claim", by |-> Me(w), event |-> 0, token |-> 0, mode |-> "none"]}
    [] win[w].call.phase = "settle" ->
         {[op |-> "settle", by |-> Me(w), event |-> r.event, token |-> r.token, mode |-> r.mode]}
    [] OTHER -> {}

KeepLate(w) == IF Cardinality(late) < MaxLate THEN late \cup Abandoned(w) ELSE late

\* The call timed out; the retained claim is kept and settled again on a later wake.
GiveUp(w) ==
  /\ win[w].call # Idle
  /\ Call(w, Idle)
  /\ late' = KeepLate(w)
  /\ UNCHANGED <<row, claim, shown, repeated, crossed>>

\* retire and activate: the profile, connection or gateway changed.
Rescope(w) ==
  /\ win[w].scope + 1 \in Scopes
  /\ win' = [win EXCEPT ![w] = [scope |-> @.scope + 1, call |-> Idle, retained |-> NothingRetained]]
  /\ late' = KeepLate(w)
  /\ UNCHANGED <<row, claim, shown, repeated, crossed>>

ServeLate(m) ==
  /\ m \in late
  /\ late' = late \ {m}
  /\ IF m.op = "claim"
     THEN \E e \in Events \cup {0}, t \in Tokens \cup {0} : Claim(m.by, [event |-> e, token |-> t])
     ELSE Settle(m.by, m.event, m.token, m.mode) /\ UNCHANGED shown
  /\ UNCHANGED <<win, repeated, crossed>>

LoseLate(m) ==
  /\ m \in late
  /\ late' = late \ {m}
  /\ UNCHANGED <<row, claim, win, shown, repeated, crossed>>

\* A call that was answered or timed out within one tick is over before the next.
Tick ==
  /\ \E e \in Events : Live(e)
  /\ \A w \in Windows : win[w].call.wait = 0
  /\ row' = [e \in Events |-> IF Live(e) THEN [row[e] EXCEPT !.ttl = @ - 1] ELSE row[e]]
  /\ win' = [w \in Windows |->
               IF win[w].call = Idle THEN win[w] ELSE [win[w] EXCEPT !.call.wait = 1]]
  /\ UNCHANGED <<claim, late, shown, repeated, crossed>>

DeliveryNext ==
  \/ \E e \in Events : Enqueue(e)
  \/ \E w \in Windows : \/ Wake(w) \/ ServeClaim(w) \/ ServeSettle(w) \/ Settled(w)
                        \/ GiveUp(w) \/ Rescope(w)
                        \/ \E accepted \in BOOLEAN : Show(w, accepted)
  \/ \E m \in late : ServeLate(m) \/ LoseLate(m)
  \/ Tick

DeliverySpec == DeliveryInit /\ [][DeliveryNext]_deliveryVars

\* The claim the window is told of still is the live one.
InTime(w) == \E e \in Events : Live(e) /\ win[w].call.event = e /\ win[w].call.token = row[e].token

\* Timers run; a call that is made again and again is at last answered within its
\* timeout and within the lease it speaks of, and the host at last accepts a notification
\* it is offered again and again.
DeliveryFairness ==
  /\ WF_deliveryVars(Tick)
  /\ \A w \in Windows :
       /\ WF_deliveryVars(Wake(w)) /\ WF_deliveryVars(GiveUp(w))
       /\ SF_deliveryVars(ServeClaim(w))
       /\ SF_deliveryVars(Show(w, TRUE)) /\ SF_deliveryVars(Show(w, TRUE) /\ InTime(w))
       /\ SF_deliveryVars(ServeSettle(w))
       /\ SF_deliveryVars(/\ ServeSettle(w) /\ win[w].retained.mode = "presented"
                          /\ Settles(Me(w), win[w].retained.event, win[w].retained.token))
       /\ SF_deliveryVars(Settled(w))
DeliveryFairSpec == DeliverySpec /\ DeliveryFairness

-----------------------------------------------------------------------------
(* Properties.                                                             *)

\* Types, and what the store demands of its rows: the token of a claimed row belongs to
\* that row and consumer ("notification claim history changed" otherwise).
DeliveryTypeOK ==
  /\ row \in [Events -> OutboxRow] /\ claim \in [Tokens -> ClaimRow \cup {NoClaim}]
  /\ \A e \in Events :
       /\ row[e].ttl > 0 => row[e].state = "claimed"
       /\ row[e].state \in {"claimed", "presented"} =>
            claim[row[e].token] = [event |-> e, by |-> row[e].by,
                                   outcome |-> IF row[e].state = "claimed" THEN "claimed" ELSE "presented"]
  /\ \A w \in Windows : win[w].scope \in Scopes /\ win[w].call.wait \in 0..1
  /\ Fresh \in Tokens

\* An event marked presented was shown under the very claim that marked it: neither a
\* failed notify, nor an answer nobody waited for, nor another window's claim marks it.
PresentedWasShown == \A e \in Events : row[e].state = "presented" => row[e].token \in shown

\* A window never shows an event again while an earlier showing still counts: a lost or
\* late answer is retried under the same token until it is certain.
RepeatOnlyAfterExpiry == ~repeated

\* The mark and the showings agree: an event is presented only if it was shown under the
\* claim that marked it, and it is shown again only when an earlier showing cannot count.
ShownUnderItsClaim == DeliveryTypeOK /\ PresentedWasShown /\ RepeatOnlyAfterExpiry

\* A presented event stays presented under the claim that presented it, and a live claim
\* leaves its consumer only by that consumer's own settlement: late and repeated calls
\* change neither.
ClaimsStand ==
  [][\A e \in Events :
       /\ row[e].state = "presented" => row'[e] = row[e]
       /\ Live(e) /\ row'[e].token # row[e].token =>
            /\ row'[e] = [Absent EXCEPT !.state = "pending"]
            /\ claim'[row[e].token].outcome = "released"]_deliveryVars

\* Every event is presented in the end, whatever calls, answers and scopes were lost.
EventIsPresented == \A e \in Events : row[e].state = "pending" ~> row[e].state = "presented"

\* Docs/plans/2026-09-12-hermes-download-manager.md:386: "Claim lease avoids multiple
\* windows presenting the same event simultaneously".
ShowsAlone == ~crossed
=============================================================================
