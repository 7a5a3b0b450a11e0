------------------------------ MODULE Payments ------------------------------
(***************************************************************************)
(* Checkout, webhooks and entitlements of one user's case:                 *)
(* coffeecup/src/payments/service.ts and entitlements/service.ts.          *)
(*                                                                         *)
(* The payment provider is outside src/: it takes the money, then delivers *)
(* each event at least once, until it is acknowledged with a 200.  Every   *)
(* delivery is a handleWebhook invocation; there is no transaction, so     *)
(* invocations interleave between statements and die between them.         *)
(***************************************************************************)
EXTENDS Integers

CONSTANTS
  Sessions,    \* checkout sessions, the paymentRef of an entitlement
  Tier,        \* the tier each session buys
  Handlers,    \* concurrent handleWebhook invocations
  MaxReplays,  \* bound: deliveries of events already acknowledged
  MaxCrashes,  \* bound: invocations that die
  Reorder      \* may a reversal overtake the completion of its session?

ASSUME PaymentsAssumption ==
  /\ Tier \in [Sessions -> {"case_pass", "claim_pack"}]
  /\ MaxReplays \in Nat /\ MaxCrashes \in Nat
  /\ Reorder \in BOOLEAN

VARIABLES
  session,      \* the provider's view of each checkout session
  emitted,      \* events the provider has raised
  acked,        \* events it no longer has to deliver
  replays,      \* deliveries after the acknowledgement, so far
  crashes,      \* invocations that died, so far
  stored,       \* payment_events: no row, a row without outcome, its outcome
  entitlement,  \* the entitlements row that carries each session's paymentRef
  handler       \* where each invocation is, its event and its outcome

provider == <<session, emitted, acked, replays, crashes>>
vars     == <<provider, stored, entitlement, handler>>

Reversals == {"refund", "dispute"}
Events    == ({"completed"} \cup Reversals) \X Sessions
Kind(e)   == e[1]
Ref(e)    == e[2]

Outcomes == {"granted", "revoked", "ignored"}
Points   == {"idle", "lookup", "insert", "check", "grant", "revoke", "outcome"}
NoEvent  == <<"none">>
Idle     == [at |-> "idle", event |-> NoEvent, outcome |-> "ignored"]

\* An invocation that has inserted the row of its event and acts on it.
Acting == {"check", "grant", "revoke", "outcome"}

Init ==
  /\ session = [s \in Sessions |-> "none"]
  /\ emitted = {} /\ acked = {} /\ replays = 0 /\ crashes = 0
  /\ stored = [e \in Events |-> "none"]
  /\ entitlement = [s \in Sessions |-> "none"]
  /\ handler = [h \in Handlers |-> Idle]

-----------------------------------------------------------------------------
(* The user and the provider.                                              *)

\* startCheckout: nothing looks at what the user already bought.
StartCheckout(s) ==
  /\ session[s] = "none"
  /\ session' = [session EXCEPT ![s] = "open"]
  /\ UNCHANGED <<emitted, acked, replays, crashes, stored, entitlement, handler>>

Pay(s) ==
  /\ session[s] = "open"
  /\ session' = [session EXCEPT ![s] = "paid"]
  /\ emitted' = emitted \cup {<<"completed", s>>}
  /\ UNCHANGED <<acked, replays, crashes, stored, entitlement, handler>>

\* A charge is refunded or disputed (or both); both decode to "refund".
Reverse(s, kind) ==
  /\ session[s] \in {"paid", "reversed"}
  /\ <<kind, s>> \notin emitted
  /\ session' = [session EXCEPT ![s] = "reversed"]
  /\ emitted' = emitted \cup {<<kind, s>>}
  /\ UNCHANGED <<acked, replays, crashes, stored, entitlement, handler>>

\* A reversal normally comes long after its session's completion was handled.
InOrder(e) == Kind(e) \in Reversals => stored[<<"completed", Ref(e)>>] \in Outcomes

\* A delivery whose signature verifies enters handleWebhook.
Deliver(h, e) ==
  /\ handler[h].at = "idle"
  /\ e \in emitted
  /\ Reorder \/ InOrder(e)
  /\ IF e \in acked THEN replays < MaxReplays /\ replays' = replays + 1
                    ELSE replays' = replays
  /\ handler' = [handler EXCEPT ![h] = [Idle EXCEPT !.at = "lookup", !.event = e]]
  /\ UNCHANGED <<session, emitted, acked, crashes, stored, entitlement>>

-----------------------------------------------------------------------------
(* handleWebhook, one action per statement.                                *)

Event(h)   == handler[h].event
Goto(h, p) == handler' = [handler EXCEPT ![h].at = p]

\* Goto with an outcome.
Decide(h, p, o) == handler' = [handler EXCEPT ![h] = [at |-> p, event |-> Event(h), outcome |-> o]]

\* Variant: the select never finds a row.
KnownNever(e) == FALSE

Known(e) == stored[e] # "none"

\* A known event is a duplicate: 200, and the provider stops.
Duplicate(h) ==
  /\ handler[h].at = "lookup"
  /\ Known(Event(h))
  /\ acked' = acked \cup {Event(h)}
  /\ handler' = [handler EXCEPT ![h] = Idle]
  /\ UNCHANGED <<session, emitted, replays, crashes, stored, entitlement>>

NewEvent(h) ==
  /\ handler[h].at = "lookup"
  /\ ~Known(Event(h))
  /\ Goto(h, "insert")
  /\ UNCHANGED <<provider, stored, entitlement>>

\* Variant: no unique index on (provider, provider_event_id).
RowFreeAlways(e) == TRUE

RowFree(e) == stored[e] = "none"

StoreEvent(h) ==
  /\ handler[h].at = "insert"
  /\ RowFree(Event(h))
  /\ stored' = [stored EXCEPT ![Event(h)] = "stored"]
  /\ Goto(h, IF Kind(Event(h)) \in Reversals THEN "revoke" ELSE "check")
  /\ UNCHANGED <<provider, entitlement>>

\* The unique index rejects the insert: the route answers 400 and the
\* provider will deliver again.
StoreConflict(h) ==
  /\ handler[h].at = "insert"
  /\ ~RowFree(Event(h))
  /\ handler' = [handler EXCEPT ![h] = Idle]
  /\ UNCHANGED <<provider, stored, entitlement>>

Active(t) == \E s \in Sessions : entitlement[s] = "active" /\ Tier[s] = t

\* Variant: any active row will do, whatever its tier.
AlreadyGrantedAnyTier(e) == \E t \in {"case_pass", "claim_pack"} : Active(t)

\* grantEntitlement's early return: the tier is already active.
AlreadyGranted(e) == Active(Tier[Ref(e)])

GrantCheck(h) ==
  /\ handler[h].at = "check"
  /\ Decide(h, IF AlreadyGranted(Event(h)) THEN "outcome" ELSE "grant", "granted")
  /\ UNCHANGED <<provider, stored, entitlement>>

GrantInsert(h) ==
  /\ handler[h].at = "grant"
  /\ entitlement' = [entitlement EXCEPT ![Ref(Event(h))] = "active"]
  /\ Goto(h, "outcome")
  /\ UNCHANGED <<provider, stored>>

\* Variant: the status of another reason.
RevokedStatusOther(s) == IF entitlement[s] = "active" THEN "revoked" ELSE entitlement[s]

\* Variant: the revocation keeps the rows bought as a case pass.
RevokedStatusKeepsPass(s) ==
  IF entitlement[s] = "active" /\ Tier[s] = "claim_pack" THEN "refunded" ELSE entitlement[s]

\* revokeEntitlement: the active rows with this paymentRef.
RevokedStatus(s) == IF entitlement[s] = "active" THEN "refunded" ELSE entitlement[s]

Revoke(h) ==
  LET s == Ref(Event(h)) IN
  /\ handler[h].at = "revoke"
  /\ entitlement' = [entitlement EXCEPT ![s] = RevokedStatus(s)]
  /\ Decide(h, "outcome", IF entitlement[s] = "active" THEN "revoked" ELSE "ignored")
  /\ UNCHANGED <<provider, stored>>

\* processedAt and outcome, then the 200.
StoreOutcome(h) ==
  /\ handler[h].at = "outcome"
  /\ stored' = [stored EXCEPT ![Event(h)] = handler[h].outcome]
  /\ acked' = acked \cup {Event(h)}
  /\ handler' = [handler EXCEPT ![h] = Idle]
  /\ UNCHANGED <<session, emitted, replays, crashes, entitlement>>

\* The invocation dies, or a statement throws: no 200.
Crash(h) ==
  /\ handler[h].at # "idle"
  /\ crashes < MaxCrashes
  /\ crashes' = crashes + 1
  /\ handler' = [handler EXCEPT ![h] = Idle]
  /\ UNCHANGED <<session, emitted, acked, replays, stored, entitlement>>

HandlerStep(h) ==
  \/ Duplicate(h) \/ NewEvent(h) \/ StoreEvent(h) \/ StoreConflict(h)
  \/ GrantCheck(h) \/ GrantInsert(h) \/ Revoke(h) \/ StoreOutcome(h)

Next ==
  \/ \E s \in Sessions :
       StartCheckout(s) \/ Pay(s) \/ \E kind \in Reversals : Reverse(s, kind)
  \/ \E h \in Handlers :
       HandlerStep(h) \/ Crash(h) \/ \E e \in Events : Deliver(h, e)

\* An unacknowledged event is delivered again and again, and an invocation
\* that is not killed takes its next step.
Fairness ==
  /\ \A e \in Events : WF_vars(e \notin acked /\ \E h \in Handlers : Deliver(h, e))
  /\ \A h \in Handlers : WF_vars(HandlerStep(h))

Spec     == Init /\ [][Next]_vars
FairSpec == Spec /\ Fairness

-----------------------------------------------------------------------------

HandlerRow == [at : Points, event : Events \cup {NoEvent}, outcome : Outcomes]

\* The tables and the invocations are of the shape the schema and the code give them.
TypeOK ==
  /\ session \in [Sessions -> {"none", "open", "paid", "reversed"}]
  /\ emitted \subseteq Events /\ acked \subseteq emitted
  /\ replays \in Nat /\ crashes \in Nat
  /\ stored \in [Events -> {"none", "stored"} \cup Outcomes]
  /\ entitlement \in [Sessions -> {"none", "active", "refunded"}]
  /\ handler \in [Handlers -> HandlerRow]
  /\ \A h \in Handlers : handler[h].at # "idle" => handler[h].event \in emitted

\* "Every webhook event is stored once ... so a replayed event is a no-op":
\* of all the deliveries of one event, concurrent ones included, at most one
\* ever acts on it, and none does once its outcome is stored.
ActsOnce ==
  /\ \A g, h \in Handlers : handler[g].at \in Acting /\ handler[h].at \in Acting
                            /\ Event(g) = Event(h) => g = h
  /\ \A h \in Handlers : handler[h].at \in Acting => stored[Event(h)] = "stored"

\* An entitlement that was refunded is never active again: no replay of the
\* completion, however late, brings it back.
RefundIsFinal ==
  [][\A s \in Sessions : entitlement[s] = "refunded" => entitlement'[s] = "refunded"]_vars

\* Every event raised is acknowledged, and no invocation is under way.
Settled == emitted = acked /\ \A h \in Handlers : handler[h].at = "idle"

\* hasEntitlement: a claim pack also covers what a case pass does.
HasEntitlement(t) == IF t = "case_pass" THEN Active("case_pass") \/ Active("claim_pack")
                                        ELSE Active("claim_pack")

\* "Refund/dispute events revoke the entitlement": when all events have been
\* delivered, no reversed session leaves its entitlement active.
RefundRevokes ==
  Settled => \A s \in Sessions : session[s] = "reversed" => entitlement[s] # "active"

\* "Only a verified webhook does [grant]": when all events have been
\* delivered, whoever has paid and was not refunded may use what was bought.
PaidIsEntitled ==
  Settled => \A s \in Sessions : session[s] = "paid" => HasEntitlement(Tier[s])

\* The provider's retries end: every event is acknowledged at last, the ones
\* whose concurrent deliveries collided on the unique index included.
EveryEventAcknowledged == \A e \in Events : e \in emitted ~> e \in acked

=============================================================================
