--------------------------- MODULE PaymentsProofs ---------------------------
(***************************************************************************)
(* Proofs about the webhook, for any number of sessions and concurrent     *)
(* deliveries, in any order, with any number of replays and crashes; and   *)
(* that money and access agree where nothing crashes or is reversed before *)
(* it was granted.                                                         *)
(***************************************************************************)
EXTENDS MCRetries, TLAPS

\* The shape of the tables survives every statement.
LEMMA PaymentsTypeInit == Init => TypeOK
BY PaymentsAssumption DEF Init, TypeOK, HandlerRow, Idle, Points, Outcomes, NoEvent, Events

LEMMA EventShape ==
  ASSUME NEW e \in Events
  PROVE  Ref(e) \in Sessions /\ Kind(e) \in {"completed"} \cup Reversals /\ e = <<Kind(e), Ref(e)>>
BY DEF Events, Ref, Kind

LEMMA FreshRow ==
  ASSUME NEW e \in Events
  PROVE  /\ [Idle EXCEPT !.at = "lookup", !.event = e] \in HandlerRow
         /\ [Idle EXCEPT !.at = "lookup", !.event = e].at = "lookup"
         /\ [Idle EXCEPT !.at = "lookup", !.event = e].event = e
BY DEF Idle, HandlerRow, Points, Outcomes

LEMMA IdleRow == Idle \in HandlerRow /\ Idle.at = "idle"
BY DEF Idle, HandlerRow, Points, Outcomes

\* An invocation that keeps its event and moves on.
LEMMA MovedRow ==
  ASSUME NEW r \in HandlerRow, NEW p \in Points
  PROVE  /\ [r EXCEPT !.at = p] \in HandlerRow
         /\ [r EXCEPT !.at = p].at = p /\ [r EXCEPT !.at = p].event = r.event
BY DEF HandlerRow

\* What TypeOK says of the invocations after one of them got the row r.
LEMMA HandlersTyped ==
  ASSUME TypeOK, NEW h \in Handlers, NEW r \in HandlerRow,
         handler' = [handler EXCEPT ![h] = r],
         r.at # "idle" => r.event \in emitted, emitted \subseteq emitted'
  PROVE  /\ handler' \in [Handlers -> HandlerRow]
         /\ \A g \in Handlers : handler'[g].at # "idle" => handler'[g].event \in emitted'
BY DEF TypeOK

\* A running invocation moves on with its own event.
LEMMA MovedTyped ==
  ASSUME TypeOK, NEW h \in Handlers, NEW p \in Points, NEW o \in Outcomes,
         handler[h].at # "idle", UNCHANGED emitted,
         \/ handler' = [handler EXCEPT ![h].at = p]
         \/ Decide(h, p, o)
  PROVE  /\ handler' \in [Handlers -> HandlerRow]
         /\ \A g \in Handlers : handler'[g].at # "idle" => handler'[g].event \in emitted'
<1>1. handler[h] \in HandlerRow /\ handler[h].event \in emitted
  BY DEF TypeOK
<1>2. PICK r \in HandlerRow : handler' = [handler EXCEPT ![h] = r] /\ r.event = handler[h].event
  <2>1. CASE handler' = [handler EXCEPT ![h].at = p]
    BY <1>1, <2>1, MovedRow
  <2>2. CASE Decide(h, p, o)
    BY <1>1, <2>2 DEF Decide, Event, HandlerRow
  <2> QED BY <2>1, <2>2
<1> QED BY <1>1, <1>2, HandlersTyped

LEMMA PaymentsTypeStep == TypeOK /\ [Next]_vars => TypeOK'
<1> SUFFICES ASSUME TypeOK, [Next]_vars PROVE TypeOK'
  OBVIOUS
<1> DEFINE HandlersOK == /\ handler \in [Handlers -> HandlerRow]
                         /\ \A g \in Handlers : handler[g].at # "idle" => handler[g].event \in emitted
<1>1. ASSUME NEW s \in Sessions, StartCheckout(s) PROVE TypeOK'
  BY <1>1 DEF StartCheckout, TypeOK
<1>2. ASSUME NEW s \in Sessions, Pay(s) PROVE TypeOK'
  BY <1>2 DEF Pay, Events, TypeOK
<1>3. ASSUME NEW s \in Sessions, NEW kind \in Reversals, Reverse(s, kind) PROVE TypeOK'
  BY <1>3 DEF Reverse, Events, TypeOK
<1>4. ASSUME NEW h \in Handlers, HandlerStep(h) PROVE TypeOK'
  <2>0. \A g \in Handlers : handler[g].at # "idle" => Event(g) \in Events /\ Event(g) \in emitted
    BY DEF TypeOK, Event
  <2>1. CASE Duplicate(h)
    <3>1. HandlersOK'
      BY <2>1, IdleRow, HandlersTyped DEF Duplicate
    <3>2. acked' \subseteq emitted
      BY <2>0, <2>1 DEF Duplicate, TypeOK
    <3> QED BY <2>1, <3>1, <3>2 DEF Duplicate, TypeOK
  <2>2. CASE NewEvent(h)
    <3>1. HandlersOK'
      BY <2>2, MovedTyped DEF NewEvent, Goto, provider, Points, Outcomes
    <3> QED BY <2>2, <3>1 DEF NewEvent, TypeOK, provider
  <2>3. CASE StoreEvent(h)
    <3>1. PICK p \in {"revoke", "check"} : Goto(h, p)
      BY <2>3 DEF StoreEvent
    <3>2. HandlersOK'
      BY <2>3, <3>1, MovedTyped DEF StoreEvent, Goto, provider, Points, Outcomes
    <3>3. stored' \in [Events -> {"none", "stored"} \cup Outcomes]
      BY <2>3 DEF StoreEvent, TypeOK
    <3> QED BY <2>3, <3>2, <3>3 DEF StoreEvent, TypeOK, provider
  <2>4. CASE StoreConflict(h)
    <3>1. HandlersOK'
      BY <2>4, IdleRow, HandlersTyped DEF StoreConflict, provider
    <3> QED BY <2>4, <3>1 DEF StoreConflict, TypeOK, provider
  <2>5. CASE GrantCheck(h)
    <3>1. PICK p \in {"outcome", "grant"} : Decide(h, p, "granted")
      BY <2>5 DEF GrantCheck
    <3>2. HandlersOK'
      BY <2>5, <3>1, MovedTyped DEF GrantCheck, provider, Points, Outcomes
    <3> QED BY <2>5, <3>2 DEF GrantCheck, TypeOK, provider
  <2>6. CASE GrantInsert(h)
    <3>1. HandlersOK'
      BY <2>6, MovedTyped DEF GrantInsert, Goto, provider, Points, Outcomes
    <3>2. entitlement' \in [Sessions -> {"none", "active", "refunded"}]
      BY <2>6 DEF GrantInsert, TypeOK
    <3> QED BY <2>6, <3>1, <3>2 DEF GrantInsert, TypeOK, provider
  <2>7. CASE Revoke(h)
    <3>1. PICK o \in {"revoked", "ignored"} : Decide(h, "outcome", o)
      BY <2>7 DEF Revoke
    <3>2. HandlersOK'
      BY <2>7, <3>1, MovedTyped DEF Revoke, provider, Points, Outcomes
    <3>3. entitlement' \in [Sessions -> {"none", "active", "refunded"}]
      BY <2>7 DEF Revoke, RevokedStatus, TypeOK
    <3> QED BY <2>7, <3>2, <3>3 DEF Revoke, TypeOK, provider
  <2>8. CASE StoreOutcome(h)
    <3>1. HandlersOK'
      BY <2>8, IdleRow, HandlersTyped DEF StoreOutcome
    <3>2. acked' \subseteq emitted
      BY <2>0, <2>8 DEF StoreOutcome, TypeOK
    <3>3. handler[h].outcome \in Outcomes
      BY DEF TypeOK, HandlerRow
    <3>4. stored' \in [Events -> {"none", "stored"} \cup Outcomes]
      BY <2>8, <3>3 DEF StoreOutcome, TypeOK
    <3> QED BY <2>8, <3>1, <3>2, <3>4 DEF StoreOutcome, TypeOK
  <2> QED BY <1>4, <2>1, <2>2, <2>3, <2>4, <2>5, <2>6, <2>7, <2>8 DEF HandlerStep
<1>5. ASSUME NEW h \in Handlers, Crash(h) PROVE TypeOK'
  <2>1. HandlersOK'
    BY <1>5, IdleRow, HandlersTyped DEF Crash
  <2> QED BY <1>5, <2>1 DEF Crash, TypeOK
<1>6. ASSUME NEW h \in Handlers, NEW e \in Events, Deliver(h, e) PROVE TypeOK'
  <2>1. replays' \in Nat
    BY <1>6 DEF Deliver, TypeOK
  <2>2. HandlersOK'
    BY <1>6, FreshRow, HandlersTyped DEF Deliver
  <2> QED BY <1>6, <2>1, <2>2 DEF Deliver, TypeOK
<1>7. CASE UNCHANGED vars
  BY <1>7 DEF vars, provider, TypeOK
<1> QED BY <1>1, <1>2, <1>3, <1>4, <1>5, <1>6, <1>7 DEF Next

\* The payment tables are always well-typed.
THEOREM PaymentsTypeCorrect == Spec => []TypeOK
BY PaymentsTypeInit, PaymentsTypeStep, PTL DEF Spec

-----------------------------------------------------------------------------

\* Only completions grant, and until a completion's grant is inserted its
\* session has no entitlement row.
GrantInv ==
  /\ \A h \in Handlers : handler[h].at \in {"check", "grant"} =>
       Kind(Event(h)) = "completed" /\ entitlement[Ref(Event(h))] = "none"
  /\ \A s \in Sessions : stored[<<"completed", s>>] = "none" => entitlement[s] = "none"

\* The inductive invariant.
PaymentsInv == TypeOK /\ ActsOnce /\ GrantInv

LEMMA PaymentsInvInit == Init => PaymentsInv
BY PaymentsTypeInit DEF Init, Idle, PaymentsInv, ActsOnce, Acting, GrantInv, Event

\* An invocation moves and writes no table: nothing it knows is lost as long
\* as it does not enter the acting points.
LEMMA Moves ==
  ASSUME PaymentsInv, TypeOK', NEW h \in Handlers, UNCHANGED <<stored, entitlement>>,
         NEW r, handler' = [handler EXCEPT ![h] = r], r.at \notin Acting
  PROVE  PaymentsInv'
<1>1. handler'[h] = r /\ \A g \in Handlers \ {h} : handler'[g] = handler[g]
  BY DEF PaymentsInv, TypeOK
<1> QED BY <1>1 DEF PaymentsInv, ActsOnce, Acting, GrantInv, Event

LEMMA PaymentsInvStep == PaymentsInv /\ [Next]_vars => PaymentsInv'
<1> SUFFICES ASSUME PaymentsInv, [Next]_vars PROVE PaymentsInv'
  OBVIOUS
<1>0. TypeOK /\ TypeOK'
  BY PaymentsTypeStep DEF PaymentsInv
<1>1. ASSUME NEW s \in Sessions, StartCheckout(s) PROVE PaymentsInv'
  BY <1>0, <1>1 DEF StartCheckout, PaymentsInv, ActsOnce, GrantInv, Event
<1>2. ASSUME NEW s \in Sessions, Pay(s) PROVE PaymentsInv'
  BY <1>0, <1>2 DEF Pay, PaymentsInv, ActsOnce, GrantInv, Event
<1>3. ASSUME NEW s \in Sessions, NEW kind \in Reversals, Reverse(s, kind) PROVE PaymentsInv'
  BY <1>0, <1>3 DEF Reverse, PaymentsInv, ActsOnce, GrantInv, Event
<1>4. ASSUME NEW h \in Handlers, HandlerStep(h) PROVE PaymentsInv'
  <2>0. \A g \in Handlers : handler[g].at # "idle" => Event(g) \in Events
    BY <1>0 DEF TypeOK, Event
  <2>1. CASE Duplicate(h) \/ StoreConflict(h)
    BY <1>0, <2>1, IdleRow, Moves DEF Duplicate, StoreConflict, Acting, provider
  <2>2. CASE NewEvent(h)
    <3>1. /\ handler' = [handler EXCEPT ![h] = [handler[h] EXCEPT !.at = "insert"]]
          /\ [handler[h] EXCEPT !.at = "insert"].at \notin Acting
      BY <1>0, <2>2 DEF NewEvent, Goto, TypeOK, HandlerRow, Acting
    <3> QED BY <1>0, <2>2, <3>1, Moves DEF NewEvent
  <2>3. CASE StoreEvent(h)
    <3> DEFINE e == Event(h)
    <3>1. /\ e \in Events /\ stored[e] = "none"
          /\ stored'[e] = "stored" /\ \A d \in Events \ {e} : stored'[d] = stored[d]
          /\ UNCHANGED entitlement
      BY <1>0, <2>0, <2>3 DEF StoreEvent, RowFree, TypeOK
    <3>2. /\ handler'[h].event = e
          /\ handler'[h].at = IF Kind(e) \in Reversals THEN "revoke" ELSE "check"
          /\ \A g \in Handlers \ {h} : handler'[g] = handler[g]
      BY <1>0, <2>3 DEF StoreEvent, Goto, TypeOK, HandlerRow, Event
    <3>3. \A g \in Handlers : handler[g].at \in Acting => Event(g) \in Events \ {e}
      BY <2>0, <3>1 DEF PaymentsInv, ActsOnce, Acting
    <3>4. ActsOnce'
      BY <3>1, <3>2, <3>3 DEF PaymentsInv, ActsOnce, Acting, Event
    <3>5. Kind(e) \notin Reversals => Kind(e) = "completed" /\ entitlement[Ref(e)] = "none"
      BY <3>1, EventShape DEF PaymentsInv, GrantInv
    <3>6. GrantInv'
      <4>1. \A g \in Handlers : handler'[g].at \in {"check", "grant"} =>
              Kind(Event(g)') = "completed" /\ entitlement[Ref(Event(g)')] = "none"
        BY <3>2, <3>5 DEF PaymentsInv, GrantInv, Event
      <4>2. \A s \in Sessions : stored'[<<"completed", s>>] = "none" => entitlement[s] = "none"
        BY <3>1 DEF PaymentsInv, GrantInv, Events
      <4> QED BY <3>1, <4>1, <4>2 DEF GrantInv, Event, Kind, Ref
    <3> QED BY <1>0, <3>4, <3>6 DEF PaymentsInv
  <2>4. CASE GrantCheck(h)
    <3>1. /\ handler'[h].event = handler[h].event /\ handler'[h].at \in {"outcome", "grant"}
          /\ \A g \in Handlers \ {h} : handler'[g] = handler[g]
          /\ handler[h].at = "check"
          /\ UNCHANGED <<stored, entitlement>>
      BY <1>0, <2>4 DEF GrantCheck, Decide, Event, TypeOK
    <3>2. ActsOnce'
      BY <3>1 DEF PaymentsInv, ActsOnce, Acting, Event
    <3>3. GrantInv'
      BY <3>1 DEF PaymentsInv, GrantInv, Event
    <3> QED BY <1>0, <3>2, <3>3 DEF PaymentsInv
  <2>5. CASE GrantInsert(h)
    <3> DEFINE e == Event(h)
               s == Ref(e)
    <3>1. /\ handler'[h].event = handler[h].event /\ handler'[h].at = "outcome"
          /\ \A g \in Handlers \ {h} : handler'[g] = handler[g]
          /\ handler[h].at = "grant"
          /\ UNCHANGED stored
          /\ \A t \in Sessions \ {s} : entitlement'[t] = entitlement[t]
      BY <1>0, <2>5 DEF GrantInsert, Goto, TypeOK, HandlerRow
    <3>2. e \in Events /\ s \in Sessions /\ e = <<"completed", s>> /\ stored[e] = "stored"
      BY <2>0, <3>1, EventShape DEF PaymentsInv, GrantInv, ActsOnce, Acting
    <3>3. ActsOnce'
      BY <3>1 DEF PaymentsInv, ActsOnce, Acting, Event
    <3>4. \A g \in Handlers \ {h} : handler[g].at \in {"check", "grant"} => Ref(Event(g)) \in Sessions \ {s}
      BY <2>0, <3>1, <3>2, EventShape DEF PaymentsInv, GrantInv, ActsOnce, Acting
    <3>5. GrantInv'
      BY <3>1, <3>2, <3>4 DEF PaymentsInv, GrantInv, Event
    <3> QED BY <1>0, <3>3, <3>5 DEF PaymentsInv
  <2>6. CASE Revoke(h)
    <3> DEFINE s == Ref(Event(h))
    <3>1. /\ handler'[h].event = handler[h].event /\ handler'[h].at = "outcome"
          /\ \A g \in Handlers \ {h} : handler'[g] = handler[g]
          /\ handler[h].at = "revoke"
          /\ UNCHANGED stored
      BY <1>0, <2>6 DEF Revoke, Decide, Event, TypeOK, provider
    <3>2. \A t \in Sessions : entitlement[t] = "none" => entitlement'[t] = "none"
      BY <1>0, <2>0, <2>6, EventShape DEF Revoke, RevokedStatus, TypeOK
    <3>3. ActsOnce'
      BY <3>1 DEF PaymentsInv, ActsOnce, Acting, Event
    <3>4. GrantInv'
      BY <2>0, <3>1, <3>2, EventShape DEF PaymentsInv, GrantInv, Event
    <3> QED BY <1>0, <3>3, <3>4 DEF PaymentsInv
  <2>7. CASE StoreOutcome(h)
    <3> DEFINE e == Event(h)
    <3>1. /\ handler'[h].at = "idle"
          /\ \A g \in Handlers \ {h} : handler'[g] = handler[g]
          /\ handler[h].at = "outcome"
          /\ stored[e] = "stored" /\ stored'[e] # "none"
          /\ \A d \in Events \ {e} : stored'[d] = stored[d]
          /\ e \in Events
          /\ UNCHANGED entitlement
      BY <1>0, <2>0, <2>7, IdleRow DEF StoreOutcome, TypeOK, HandlerRow, Outcomes, PaymentsInv, ActsOnce, Acting
    <3>2. \A g \in Handlers \ {h} : handler[g].at \in Acting => Event(g) \in Events \ {e}
      BY <2>0, <3>1 DEF PaymentsInv, ActsOnce, Acting
    <3>3. ActsOnce'
      BY <3>1, <3>2 DEF PaymentsInv, ActsOnce, Acting, Event
    <3>4. GrantInv'
      BY <3>1 DEF PaymentsInv, GrantInv, Event, Events
    <3> QED BY <1>0, <3>3, <3>4 DEF PaymentsInv
  <2> QED BY <1>4, <2>1, <2>2, <2>3, <2>4, <2>5, <2>6, <2>7 DEF HandlerStep
<1>5. ASSUME NEW h \in Handlers, Crash(h) PROVE PaymentsInv'
  BY <1>0, <1>5, IdleRow, Moves DEF Crash, Acting
<1>6. ASSUME NEW h \in Handlers, NEW e \in Events, Deliver(h, e) PROVE PaymentsInv'
  BY <1>0, <1>6, FreshRow, Moves DEF Deliver, Acting
<1>7. CASE UNCHANGED vars
  BY <1>0, <1>7 DEF vars, provider, PaymentsInv, ActsOnce, GrantInv, Event
<1> QED BY <1>1, <1>2, <1>3, <1>4, <1>5, <1>6, <1>7 DEF Next

\* Of all deliveries of one event at most one acts on it.
THEOREM WebhookActsOnce == Spec => []ActsOnce
<1>1. PaymentsInv => ActsOnce
  BY DEF PaymentsInv
<1> QED BY <1>1, PaymentsInvInit, PaymentsInvStep, PTL DEF Spec

\* No replay ever revives a refunded entitlement.
THEOREM RefundsStay == Spec => RefundIsFinal
<1>1. PaymentsInv /\ [Next]_vars =>
        [\A s \in Sessions : entitlement[s] = "refunded" => entitlement'[s] = "refunded"]_vars
  <2> SUFFICES ASSUME PaymentsInv, Next, NEW s \in Sessions, entitlement[s] = "refunded"
               PROVE  entitlement'[s] = "refunded"
    OBVIOUS
  <2>1. ASSUME NEW h \in Handlers, HandlerStep(h) PROVE entitlement'[s] = "refunded"
    <3>1. CASE GrantInsert(h)
      <4>1. entitlement[Ref(Event(h))] = "none"
        BY <3>1 DEF PaymentsInv, GrantInv, GrantInsert
      <4> QED BY <3>1, <4>1 DEF GrantInsert, PaymentsInv, TypeOK
    <3>2. CASE Revoke(h)
      BY <3>2 DEF Revoke, RevokedStatus, PaymentsInv, TypeOK
    <3> QED BY <2>1, <3>1, <3>2
            DEF HandlerStep, Duplicate, NewEvent, StoreEvent, StoreConflict, GrantCheck, StoreOutcome
  <2> QED BY <2>1 DEF Next, StartCheckout, Pay, Reverse, Crash, Deliver
<1> QED BY <1>1, PaymentsInvInit, PaymentsInvStep, PTL DEF Spec, RefundIsFinal

-----------------------------------------------------------------------------
(* Calm weather.                                                           *)

\* What each session has come to.  The provider's events and its sessions agree;
\* without crashes a row without outcome has an invocation at work on it; a
\* completion that was acted on left an entitlement, a reversal a refunded one.
EventsAgree ==
  \A s \in Sessions :
    /\ session[s] \in {"paid", "reversed"} => <<"completed", s>> \in emitted
    /\ session[s] = "reversed" <=> \E kind \in Reversals : <<kind, s>> \in emitted

Worked ==
  \A e \in Events :
    /\ e \in acked => stored[e] # "none"
    /\ stored[e] = "stored" => \E h \in Handlers : handler[h].at \in Acting /\ Event(h) = e

\* An event was acted on: an invocation has only its outcome to store, or has.
Done(e) == \/ stored[e] \in Outcomes
           \/ \E h \in Handlers : handler[h].at = "outcome" /\ Event(h) = e

Effects ==
  \A s \in Sessions :
    /\ Done(<<"completed", s>>) => entitlement[s] # "none"
    /\ \A kind \in Reversals : Done(<<kind, s>>) => entitlement[s] = "refunded"
    /\ entitlement[s] = "refunded" => session[s] = "reversed"

\* A reversal is delivered once its completion was handled, and only it revokes.
Ordered ==
  \A h \in Handlers :
    /\ handler[h].at # "idle" => InOrder(Event(h))
    /\ handler[h].at = "revoke" => Kind(Event(h)) \in Reversals

CalmInv == EventsAgree /\ Worked /\ Effects /\ Ordered

LEMMA CalmInit == Init => CalmInv
  <1> SUFFICES ASSUME Init PROVE CalmInv
    OBVIOUS
  <1>1. \A e \in Events : stored[e] = "none"
    BY DEF Init
  <1>2. \A h \in Handlers : handler[h].at = "idle"
    BY DEF Init, Idle
  <1>3. \A s \in Sessions, kind \in {"completed"} \cup Reversals : <<kind, s>> \in Events
    BY DEF Events
  <1>4. \A e \in Events : ~Done(e)
    BY <1>1, <1>2 DEF Done, Outcomes
  <1> QED BY <1>1, <1>2, <1>3, <1>4 DEF Init, CalmInv, EventsAgree, Worked, Effects, Ordered

\* Every event is of the three kinds.
LEMMA EventKinds ==
  ASSUME NEW s \in Sessions, NEW kind \in {"completed"} \cup Reversals
  PROVE  /\ <<kind, s>> \in Events /\ Kind(<<kind, s>>) = kind /\ Ref(<<kind, s>>) = s
  BY DEF Events, Kind, Ref

\* An invocation that moves without acting, and writes no table.
LEMMA CalmMoves ==
  ASSUME TypeOK, CalmInv, NEW h \in Handlers, NEW r, handler' = [handler EXCEPT ![h] = r],
         handler[h].at \notin Acting, r.at \notin Acting,
         UNCHANGED <<session, emitted, stored, entitlement>>,
         \A e \in acked' \ acked : e \in Events /\ stored[e] # "none",
         r.at # "idle" => InOrder(r.event)
  PROVE  CalmInv'
  <1>1. handler'[h] = r /\ \A g \in Handlers \ {h} : handler'[g] = handler[g]
    BY DEF TypeOK
  <1>2. \A e \in Events : Done(e)' <=> Done(e)
    BY <1>1 DEF Done, Acting, Event
  <1>3. EventsAgree'
    BY DEF CalmInv, EventsAgree
  <1>4. Worked'
    BY <1>1 DEF CalmInv, Worked, Event
  <1>5. Effects'
    BY <1>2, EventKinds DEF CalmInv, Effects
  <1>6. Ordered'
    BY <1>1 DEF CalmInv, Ordered, Event, InOrder, Acting
  <1> QED BY <1>3, <1>4, <1>5, <1>6 DEF CalmInv

LEMMA CalmProvider ==
  ASSUME TypeOK, CalmInv, UNCHANGED <<acked, replays, crashes, stored, entitlement, handler>>,
         NEW s \in Sessions, StartCheckout(s) \/ Pay(s) \/ \E kind \in Reversals : Reverse(s, kind)
  PROVE  CalmInv'
  <1>1. EventsAgree' /\ \A t \in Sessions : session[t] = "reversed" => session'[t] = "reversed"
    <2>1. CASE StartCheckout(s)
      BY <2>1 DEF StartCheckout, CalmInv, EventsAgree, TypeOK
    <2>2. CASE Pay(s)
      BY <2>2 DEF Pay, CalmInv, EventsAgree, TypeOK, Reversals
    <2>3. ASSUME NEW kind \in Reversals, Reverse(s, kind)
          PROVE  EventsAgree' /\ \A t \in Sessions : session[t] = "reversed" => session'[t] = "reversed"
      BY <2>3 DEF Reverse, CalmInv, EventsAgree, TypeOK, Reversals
    <2> QED BY <2>1, <2>2, <2>3
  <1>2. \A e \in Events : Done(e)' <=> Done(e)
    BY DEF Done, Event
  <1>3. Effects'
    BY <1>1, <1>2, EventKinds DEF CalmInv, Effects
  <1>4. Worked' /\ Ordered'
    BY DEF CalmInv, Worked, Ordered, InOrder, Event
  <1> QED BY <1>1, <1>3, <1>4 DEF CalmInv

\* An invocation at work writes the row of its event, an entitlement, or moves.
LEMMA CalmStoreEvent ==
  ASSUME PaymentsInv, CalmInv, NEW h \in Handlers, StoreEvent(h)
  PROVE  CalmInv'
  <1> DEFINE e == Event(h)
  <1>0. TypeOK
    BY DEF PaymentsInv
  <1>1. /\ e \in Events /\ stored[e] = "none" /\ stored'[e] = "stored"
        /\ \A d \in Events \ {e} : stored'[d] = stored[d]
        /\ UNCHANGED <<session, emitted, acked, entitlement>>
    BY <1>0 DEF StoreEvent, RowFree, TypeOK, Event, provider
  <1>2. /\ handler'[h].event = e /\ handler'[h].at \in {"revoke", "check"}
        /\ handler'[h].at = "revoke" => Kind(e) \in Reversals
        /\ handler[h].at = "insert" /\ \A g \in Handlers \ {h} : handler'[g] = handler[g]
    BY <1>0 DEF StoreEvent, Goto, TypeOK, HandlerRow, Event
  <1>3. \A g \in Handlers : handler[g].at \in Acting => Event(g) # e
    BY <1>1 DEF PaymentsInv, ActsOnce
  <1> HIDE DEF e
  <1>4. \A d \in Events : Done(d)' <=> Done(d)
    BY <1>1, <1>2, <1>3 DEF Done, Acting, Event, Outcomes
  <1>5. EventsAgree'
    BY <1>1 DEF CalmInv, EventsAgree
  <1>6. Worked'
    <2>1. \A d \in Events \ {e} : stored[d] = "stored" =>
            \E g \in Handlers \ {h} : handler[g].at \in Acting /\ Event(g) = d
      BY <1>2 DEF CalmInv, Worked, Acting
    <2>2. h \in Handlers /\ handler'[h].at \in Acting /\ handler'[h].event = e
      BY <1>2 DEF Acting
    <2> QED BY <1>1, <1>2, <2>1, <2>2 DEF CalmInv, Worked, Event
  <1>7. Effects'
    BY <1>1, <1>4, EventKinds DEF CalmInv, Effects
  <1>8. Ordered'
    <2>1. \A d \in Events : stored[d] \in Outcomes => stored'[d] \in Outcomes
      BY <1>1 DEF Outcomes
    <2>2. \A g \in Handlers : handler'[g].at # "idle" =>
            handler[g].at # "idle" /\ Event(g)' = Event(g) /\ Event(g) \in Events
      BY <1>0, <1>1, <1>2 DEF Event, e, TypeOK
    <2>4. \A g \in Handlers : handler'[g].at = "revoke" => Kind(Event(g)) \in Reversals
      BY <1>2 DEF Event, e, CalmInv, Ordered
    <2>3. \A d \in Events : InOrder(d) => InOrder(d)'
      BY <2>1, EventShape, EventKinds DEF InOrder
    <2> QED BY <2>2, <2>3, <2>4 DEF CalmInv, Ordered, InOrder
  <1> QED BY <1>5, <1>6, <1>7, <1>8 DEF CalmInv

\* One that acts on its event and goes on acting on it.
LEMMA CalmActs ==
  ASSUME PaymentsInv, CalmInv, NEW h \in Handlers, handler[h].at \in Acting,
         handler'[h].event = handler[h].event, handler'[h].at \in Acting \ {"revoke"},
         \A g \in Handlers \ {h} : handler'[g] = handler[g],
         UNCHANGED <<provider, stored>>
  PROVE  EventsAgree' /\ Worked' /\ Ordered'
  <1>1. EventsAgree' /\ acked' = acked
    BY DEF CalmInv, EventsAgree, provider
  <1>2. \A g \in Handlers : /\ Event(g)' = Event(g)
                            /\ handler'[g].at \in Acting <=> handler[g].at \in Acting
                            /\ handler'[g].at # "idle" => handler[g].at # "idle"
                            /\ handler'[g].at = "revoke" => handler[g].at = "revoke"
    BY DEF Event, Acting
  <1>3. Worked'
    BY <1>1, <1>2 DEF CalmInv, Worked
  <1>4. Ordered'
    BY <1>2 DEF CalmInv, Ordered, InOrder
  <1> QED BY <1>1, <1>3, <1>4

\* With a session for each tier, no other session's entitlement stands in for it.
OneSessionPerTier == \A s, t \in Sessions : Tier[s] = Tier[t] => s = t

LEMMA CalmGrantCheck ==
  ASSUME OneSessionPerTier, PaymentsInv, CalmInv, NEW h \in Handlers, GrantCheck(h)
  PROVE  CalmInv'
  <1> DEFINE e == Event(h)
  <1>0. TypeOK
    BY DEF PaymentsInv
  <1>1. handler[h].at = "check" /\ e \in Events /\ Ref(e) \in Sessions
    BY <1>0, EventShape DEF GrantCheck, TypeOK, Event
  <1>2. ~AlreadyGranted(e)
    BY <1>1 DEF OneSessionPerTier, PaymentsInv, GrantInv, AlreadyGranted, Active
  <1>3. /\ handler'[h].event = handler[h].event /\ handler'[h].at = "grant"
        /\ \A g \in Handlers \ {h} : handler'[g] = handler[g]
        /\ UNCHANGED <<provider, stored, entitlement, session>>
    BY <1>0, <1>2 DEF GrantCheck, Decide, Event, TypeOK, provider
  <1>4. EventsAgree' /\ Worked' /\ Ordered'
    BY <1>1, <1>3, CalmActs DEF Acting
  <1>5. \A d \in Events : Done(d)' <=> Done(d)
    BY <1>1, <1>3 DEF Done, Event
  <1>6. Effects'
    BY <1>3, <1>5, EventKinds DEF CalmInv, Effects
  <1> QED BY <1>4, <1>6 DEF CalmInv

LEMMA CalmGrantInsert ==
  ASSUME PaymentsInv, CalmInv, NEW h \in Handlers, GrantInsert(h)
  PROVE  CalmInv'
  <1> DEFINE e == Event(h)
             s == Ref(e)
  <1>0. TypeOK
    BY DEF PaymentsInv
  <1>1. /\ handler[h].at = "grant" /\ handler'[h].event = e /\ handler'[h].at = "outcome"
        /\ \A g \in Handlers \ {h} : handler'[g] = handler[g]
        /\ UNCHANGED <<provider, stored, session>>
    BY <1>0 DEF GrantInsert, Goto, TypeOK, HandlerRow, Event, provider
  <1>2. e \in Events /\ s \in Sessions /\ e = <<"completed", s>> /\ entitlement[s] = "none"
    BY <1>0, <1>1, EventShape DEF PaymentsInv, GrantInv, TypeOK, Event
  <1>3. entitlement'[s] = "active" /\ \A t \in Sessions \ {s} : entitlement'[t] = entitlement[t]
    BY <1>0, <1>2 DEF GrantInsert, TypeOK
  <1>4. EventsAgree' /\ Worked' /\ Ordered'
    BY <1>1, CalmActs DEF Acting, Event
  <1> HIDE DEF e, s
  <1>5. \A d \in Events \ {e} : Done(d)' <=> Done(d)
    BY <1>1 DEF Done, Event, e
  <1>6. Effects'
    <2>1. \A t \in Sessions \ {s} : \A kind \in {"completed"} \cup Reversals : <<kind, t>> \in Events \ {e}
      BY <1>2, EventKinds
    <2>2. \A kind \in Reversals : <<kind, s>> \in Events \ {e}
      BY <1>2, EventKinds DEF Reversals
    <2>3. \A kind \in Reversals : ~Done(<<kind, s>>)
      BY <1>2 DEF CalmInv, Effects
    <2> QED BY <1>1, <1>3, <1>5, <2>1, <2>2, <2>3 DEF CalmInv, Effects
  <1> QED BY <1>4, <1>6 DEF CalmInv

LEMMA CalmRevoke ==
  ASSUME PaymentsInv, CalmInv, NEW h \in Handlers, Revoke(h), Kind(Event(h)) \in Reversals
  PROVE  CalmInv'
  <1> DEFINE e == Event(h)
             s == Ref(e)
  <1>0. TypeOK
    BY DEF PaymentsInv
  <1>1. /\ handler[h].at = "revoke" /\ handler'[h].event = e /\ handler'[h].at = "outcome"
        /\ \A g \in Handlers \ {h} : handler'[g] = handler[g]
        /\ UNCHANGED <<provider, stored, session>>
    BY <1>0 DEF Revoke, Decide, Event, TypeOK, provider
  <1>2. e \in Events /\ e \in emitted /\ s \in Sessions /\ e = <<Kind(e), s>>
    BY <1>0, <1>1, EventShape DEF TypeOK, Event
  <1>3. session[s] = "reversed"
    BY <1>2 DEF CalmInv, EventsAgree
  <1>4. entitlement[s] # "none"
    <2>1. stored[<<"completed", s>>] \in Outcomes
      BY <1>1 DEF CalmInv, Ordered, InOrder
    <2> QED BY <1>2, <2>1 DEF CalmInv, Effects, Done
  <1>5. entitlement'[s] = "refunded" /\ \A t \in Sessions \ {s} : entitlement'[t] = entitlement[t]
    BY <1>0, <1>2, <1>4 DEF Revoke, RevokedStatus, TypeOK
  <1>6. EventsAgree' /\ Worked' /\ Ordered'
    BY <1>1, CalmActs DEF Acting, Event
  <1> HIDE DEF e, s
  <1>7. \A d \in Events \ {e} : Done(d)' <=> Done(d)
    BY <1>1 DEF Done, Event, e
  <1>8. Effects'
    <2>1. \A t \in Sessions \ {s} : \A kind \in {"completed"} \cup Reversals : <<kind, t>> \in Events \ {e}
      <3>1. Ref(e) = s
        BY DEF s
      <3> QED BY <3>1, EventKinds
    <2> QED BY <1>1, <1>3, <1>5, <1>7, <2>1 DEF CalmInv, Effects
  <1> QED BY <1>6, <1>8 DEF CalmInv

LEMMA CalmStoreOutcome ==
  ASSUME PaymentsInv, CalmInv, NEW h \in Handlers, StoreOutcome(h)
  PROVE  CalmInv'
  <1> DEFINE e == Event(h)
  <1>0. TypeOK
    BY DEF PaymentsInv
  <1>1. /\ e \in Events /\ handler[h].at = "outcome"
        /\ stored'[e] \in Outcomes /\ \A d \in Events \ {e} : stored'[d] = stored[d]
        /\ acked' = acked \cup {e} /\ UNCHANGED <<session, emitted, entitlement>>
    BY <1>0 DEF StoreOutcome, TypeOK, HandlerRow, Event
  <1>2. handler'[h].at = "idle" /\ \A g \in Handlers \ {h} : handler'[g] = handler[g]
    BY <1>0, IdleRow DEF StoreOutcome, TypeOK
  <1>3. \A g \in Handlers \ {h} : handler[g].at \in Acting => Event(g) # e
    BY <1>1 DEF PaymentsInv, ActsOnce, Acting
  <1>4. Done(e)
    BY <1>1 DEF Done
  <1> HIDE DEF e
  <1>5. ASSUME NEW d \in Events PROVE Done(d)' <=> Done(d)
    <2>1. CASE d = e
      <3>1. stored'[d] \in Outcomes
        BY <1>1, <2>1
      <3> QED BY <1>4, <2>1, <3>1 DEF Done
    <2>2. CASE d # e
      BY <1>1, <1>2, <2>2 DEF Done, Event, e
    <2> QED BY <2>1, <2>2
  <1>6. EventsAgree'
    BY <1>1 DEF CalmInv, EventsAgree
  <1>7. Worked'
    <2>1. \A d \in Events \ {e} : stored[d] = "stored" =>
            \E g \in Handlers \ {h} : handler[g].at \in Acting /\ Event(g) = d
      BY <1>1 DEF CalmInv, Worked, e
    <2>2. stored'[e] # "none" /\ stored'[e] # "stored"
      BY <1>1 DEF Outcomes
    <2> QED BY <1>1, <1>2, <2>1, <2>2 DEF CalmInv, Worked, Event
  <1>8. Effects'
    BY <1>1, <1>5, EventKinds DEF CalmInv, Effects
  <1>9. Ordered'
    <2>1. \A d \in Events : stored[d] \in Outcomes => stored'[d] \in Outcomes
      BY <1>1
    <2>2. \A g \in Handlers : handler'[g].at # "idle" =>
            handler[g].at # "idle" /\ Event(g)' = Event(g) /\ Event(g) \in Events
      BY <1>0, <1>2 DEF Event, TypeOK
    <2>4. \A g \in Handlers : handler'[g].at = "revoke" => handler[g].at = "revoke"
      BY <1>2
    <2>3. \A d \in Events : InOrder(d) => InOrder(d)'
      BY <2>1, EventShape, EventKinds DEF InOrder
    <2> QED BY <2>2, <2>3, <2>4 DEF CalmInv, Ordered, InOrder
  <1> QED BY <1>6, <1>7, <1>8, <1>9 DEF CalmInv

LEMMA CalmSteps ==
  ASSUME OneSessionPerTier, PaymentsInv, CalmInv, Next, Calm
  PROVE  CalmInv'
  <1>0. TypeOK
    BY DEF PaymentsInv
  <1>1. ASSUME NEW s \in Sessions,
               StartCheckout(s) \/ Pay(s) \/ \E kind \in Reversals : Reverse(s, kind)
        PROVE  CalmInv'
    BY <1>0, <1>1, CalmProvider DEF StartCheckout, Pay, Reverse
  <1>2. ASSUME NEW h \in Handlers, HandlerStep(h)
        PROVE  CalmInv'
    <2>0. handler[h].at # "idle" => Event(h) \in Events /\ InOrder(Event(h))
      BY <1>0 DEF TypeOK, Event, CalmInv, Ordered
    <2>1. CASE Duplicate(h)
      BY <1>0, <2>0, <2>1, IdleRow, CalmMoves DEF Duplicate, Known, Acting
    <2>2. CASE NewEvent(h)
      <3>1. /\ handler' = [handler EXCEPT ![h] = [handler[h] EXCEPT !.at = "insert"]]
            /\ [handler[h] EXCEPT !.at = "insert"].at = "insert"
            /\ [handler[h] EXCEPT !.at = "insert"].event = Event(h)
        BY <1>0, <2>2 DEF NewEvent, Goto, TypeOK, HandlerRow, Event
      <3>2. handler[h].at = "lookup" /\ UNCHANGED <<session, emitted, acked, stored, entitlement>>
        BY <2>2 DEF NewEvent, provider
      <3> DEFINE r == [handler[h] EXCEPT !.at = "insert"]
      <3>3. handler' = [handler EXCEPT ![h] = r] /\ r.at = "insert" /\ InOrder(r.event)
        BY <2>0, <3>1, <3>2
      <3> HIDE DEF r
      <3> QED BY <1>0, <3>2, <3>3, CalmMoves DEF Acting
    <2>3. CASE StoreEvent(h)
      BY <2>3, CalmStoreEvent
    <2>4. CASE StoreConflict(h)
      BY <1>0, <2>4, IdleRow, CalmMoves DEF StoreConflict, Acting, provider
    <2>5. CASE GrantCheck(h)
      BY <2>5, CalmGrantCheck
    <2>6. CASE GrantInsert(h)
      BY <2>6, CalmGrantInsert
    <2>7. CASE Revoke(h)
      BY <2>7, CalmRevoke DEF Revoke, CalmInv, Ordered
    <2>8. CASE StoreOutcome(h)
      BY <2>8, CalmStoreOutcome
    <2> QED BY <1>2, <2>1, <2>2, <2>3, <2>4, <2>5, <2>6, <2>7, <2>8 DEF HandlerStep
  <1>3. ASSUME NEW h \in Handlers, Crash(h)
        PROVE  CalmInv'
    BY <1>0, <1>3 DEF Crash, Calm, TypeOK
  <1>4. ASSUME NEW h \in Handlers, NEW e \in Events, Deliver(h, e)
        PROVE  CalmInv'
    <2> DEFINE r == [Idle EXCEPT !.at = "lookup", !.event = e]
    <2>1. /\ handler[h].at = "idle" /\ handler' = [handler EXCEPT ![h] = r]
          /\ UNCHANGED <<session, emitted, acked, stored, entitlement>>
      BY <1>4 DEF Deliver
    <2>2. r.at = "lookup" /\ r.event = e
      BY FreshRow
    <2> HIDE DEF r
    <2>3. handler'[h] = r
      BY <1>0, <2>1 DEF TypeOK
    <2>4. InOrder(r.event)
      BY <2>1, <2>2, <2>3 DEF Calm, Event
    <2> QED BY <1>0, <2>1, <2>2, <2>4, CalmMoves DEF Acting
  <1> QED BY <1>1, <1>2, <1>3, <1>4 DEF Next

\* The invariant of a behaviour with a setting.
SettingInv == PaymentsInv /\ (setting = "calm" => CalmInv)

\* Money and access in calm weather, when all that was delivered has been worked off.
LEMMA CalmMatches ==
  ASSUME PaymentsInv, CalmInv
  PROVE  RefundRevokes /\ PaidIsEntitled
  <1>0. TypeOK
    BY DEF PaymentsInv
  <1>1. ASSUME Settled, NEW s \in Sessions, NEW kind \in {"completed"} \cup Reversals,
               <<kind, s>> \in emitted
        PROVE  Done(<<kind, s>>)
    <2> DEFINE e == <<kind, s>>
    <2>1. e \in Events /\ e \in acked
      BY <1>1, EventKinds DEF Settled
    <2>2. stored[e] # "none"
      BY <2>1 DEF CalmInv, Worked
    <2>3. stored[e] # "stored"
      BY <1>1, <2>1 DEF CalmInv, Worked, Settled, Acting
    <2>4. stored[e] \in Outcomes
      BY <1>0, <2>1, <2>2, <2>3 DEF TypeOK
    <2> QED BY <2>4 DEF Done
  <1>2. RefundRevokes
    <2> SUFFICES ASSUME Settled, NEW s \in Sessions, session[s] = "reversed"
                 PROVE  entitlement[s] # "active"
      BY DEF RefundRevokes
    <2>1. PICK kind \in Reversals : <<kind, s>> \in emitted
      BY DEF CalmInv, EventsAgree
    <2>2. entitlement[s] = "refunded"
      BY <1>1, <2>1 DEF CalmInv, Effects
    <2> QED BY <2>2
  <1>3. PaidIsEntitled
    <2> SUFFICES ASSUME Settled, NEW s \in Sessions, session[s] = "paid"
                 PROVE  HasEntitlement(Tier[s])
      BY DEF PaidIsEntitled
    <2>1. <<"completed", s>> \in emitted
      BY DEF CalmInv, EventsAgree
    <2>2. entitlement[s] # "none"
      BY <1>1, <2>1 DEF CalmInv, Effects
    <2>3. entitlement[s] # "refunded"
      BY DEF CalmInv, Effects
    <2>4. entitlement[s] = "active"
      BY <1>0, <2>2, <2>3 DEF TypeOK
    <2>5. Tier[s] \in {"case_pass", "claim_pack"}
      BY PaymentsAssumption
    <2> QED BY <2>4, <2>5 DEF HasEntitlement, Active
  <1> QED BY <1>2, <1>3

\* In calm weather, with one session for each tier: when all that was raised has
\* been delivered, in any order, however often and however concurrently, no
\* reversed session leaves its entitlement and no paid one is without.
THEOREM CalmMoney ==
  ASSUME OneSessionPerTier
  PROVE  MCSpec => []CalmMoneyMatches
  <1>1. MCInit => SettingInv
    BY PaymentsInvInit, CalmInit DEF MCInit, SettingInv
  <1>2. SettingInv /\ [MCNext]_<<setting, vars, queueVars>> => SettingInv'
    <2> SUFFICES ASSUME SettingInv, [MCNext]_<<setting, vars, queueVars>> PROVE SettingInv'
      OBVIOUS
    <2>1. setting' = setting /\ [Next]_vars
      BY DEF MCNext
    <2>2. PaymentsInv'
      BY <2>1, PaymentsInvStep DEF SettingInv
    <2>3. ASSUME setting = "calm" PROVE CalmInv'
      <3>1. CASE Next /\ Calm
        BY <2>3, <3>1, CalmSteps DEF SettingInv
      <3>2. CASE UNCHANGED vars
        BY <2>3, <3>2 DEF vars, provider, SettingInv, CalmInv, EventsAgree, Worked, Effects, Done,
                          Ordered, InOrder, Event
      <3> QED BY <2>1, <2>3, <3>1, <3>2 DEF MCNext
    <2> QED BY <2>1, <2>2, <2>3 DEF SettingInv
  <1>3. SettingInv => CalmMoneyMatches
    BY CalmMatches DEF SettingInv, CalmMoneyMatches
  <1> QED BY <1>1, <1>2, <1>3, PTL DEF MCSpec

=============================================================================
