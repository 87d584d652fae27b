------------------------------ MODULE Checkout ------------------------------
(***************************************************************************)
(* The seats of one departure and the requests that buy them: the          *)
(* immediate checkout (hold, booking, payment intent, widget) and the      *)
(* deferred one (hold, customer, card, booking without a charge), the job  *)
(* that expires holds, the reconciler of unpaid bookings and the webhook.  *)
(*                                                                         *)
(* Every server action makes a session of its own, so a request has at     *)
(* most one hold, one booking and one payment row, and they all carry the  *)
(* request's name.  A request is a sequence of calls; it may die between   *)
(* two of them, and a call may fail before or after it took effect.  The   *)
(* charge of a deferred booking is DepartureCharge's subject: here it is   *)
(* one step that settles it or gives it up.                                *)
(***************************************************************************)
EXTENDS Integers, FiniteSets, FiniteSetsExt

CONSTANTS
    Requests,   \* submissions of a checkout form
    Departures, \* pairs: capacity_total, the requests of the deferred checkout
    Resubmitted, \* requests whose second step is sent twice
    Seats,      \* tickets asked for by each
    OtherAmount, \* requests whose payment may show another amount
    Cap         \* DEFERRED_MAX_LIVE_SEATS_PER_IDENTITY (one tourist asks)

ASSUME CheckoutAssumption ==
    /\ IsFiniteSet(Requests)
    /\ Departures \subseteq Nat \X SUBSET Requests
    /\ Resubmitted \subseteq Requests
    /\ OtherAmount \subseteq Requests
    /\ Seats \in [Requests -> Nat \ {0}]
    /\ Cap \in Nat

VARIABLES
    capacity,   \* tour_instances.capacity_total
    deferred,   \* requests of the deferred checkout; the others pay at once
    pc,         \* the server action of each request
    step2,      \* two submissions of the deferred checkout's second step
    dep,        \* tour_instances.status
    reserved,   \* tour_instances.capacity_reserved
    hold,       \* tour_holds.status
    lapsed,     \* requests whose hold is past expires_at
    outlived,   \* history: requests still running when their hold lapsed
    booking,    \* bookings.status
    old,        \* requests whose booking is more than 30 minutes old
    row,        \* payments.status
    intent,     \* the payment intent at the gateway
    refund,     \* refunds: why the payment is given back
    event,      \* processed_webhook_events
    cycle       \* the reconciler: what it knows of each booking it visits

request == <<capacity, deferred, pc, step2>>
seats   == <<reserved, hold, lapsed, outlived>>
money   == <<row, intent, refund, event>>
vars    == <<request, seats, dep, booking, old, money, cycle>>

\* The submissions of the second step of a deferred checkout.
Calls(r) == IF r \in Resubmitted THEN {1, 2} ELSE {1}

Unpaid == {"pending_payment", "pending_minimum"}
Steps  == {"hold", "booking", "intent", "row", "promote", "customer", "link"}

TypeOK ==
    /\ capacity \in Nat
    /\ deferred \subseteq Requests
    /\ pc \in [Requests -> Steps \cup {"idle", "undo", "refused", "card",
                                     "done"}]
    /\ step2 \in [Requests \X {1, 2} ->
          {"idle", "create", "over", "done", "refused"}]
    /\ dep \in {"available", "cancelled"}
    /\ reserved \in Nat
    /\ hold \in [Requests -> {"none", "active", "paying", "converted",
                              "released", "expired"}]
    /\ {lapsed, outlived, old, event} \subseteq SUBSET Requests
    /\ booking \in [Requests -> Unpaid \cup
          {"none", "confirmed", "cancelled", "payment_mismatch",
           "overbooked_refunded"}]
    /\ row \in [Requests -> {"none", "pending", "failed", "succeeded"}]
    /\ intent \in [Requests -> {"none", "requires_payment_method",
          "processing", "succeeded", "succeeded_other", "canceled"}]
    /\ refund \in [Requests -> {"none", "late_payment", "overbooked_refunded",
                                "requested_by_customer", "not_due"}]
    /\ cycle \in [Requests -> {"idle", "no_payment", "ask", "paid",
                               "paid_other", "not_paid"}]

Init ==
    /\ \E d \in Departures : capacity = d[1] /\ deferred = d[2]
    /\ pc = [r \in Requests |-> "idle"]
    /\ step2 = [c \in Requests \X {1, 2} |-> "idle"]
    /\ dep = "available"
    /\ reserved = 0
    /\ hold = [r \in Requests |-> "none"]
    /\ lapsed = {} /\ outlived = {} /\ old = {} /\ event = {}
    /\ booking = [r \in Requests |-> "none"]
    /\ row = [r \in Requests |-> "none"]
    /\ intent = [r \in Requests |-> "none"]
    /\ refund = [r \in Requests |-> "none"]
    /\ cycle = [r \in Requests |-> "idle"]

-----------------------------------------------------------------------------
(* Seats. *)

SeatsOf(R) == MapThenSumSet(LAMBDA r : Seats[r], R)

\* A hold counts while it is active and unexpired, and while it is paying.
Holding == {r \in Requests : \/ hold[r] = "active" /\ r \notin lapsed
                             \/ hold[r] = "paying"}

\* checkAvailability and create_hold_atomic count the same.
Available == capacity - reserved - SeatsOf(Holding)

\* An update of the hold guarded by its status, as every one of them is.
HoldIf(r, from, to) == [hold EXCEPT ![r] = IF @ \in from THEN to ELSE @]

\* releaseHold: an active or paying hold.
Released(r) == HoldIf(r, {"active", "paying"}, "released")

-----------------------------------------------------------------------------
(* The two checkouts, call by call. *)

Goto(r, to) == pc' = [pc EXCEPT ![r] = to]

\* A call takes effect and the request goes on, or fails before or after it
\* did: then the catch of the action runs.
Call(r, next, effect, none) ==
    \/ effect /\ Goto(r, next)
    \/ (effect \/ none) /\ Goto(r, "undo")

\* checkoutAction and startDeferredCheckoutAction: the gates of the sale, the
\* acceptance, the input, the throttle and the captcha, then the price shown
\* against the price of the day.  Nothing was created when one refuses.
Submit(r) ==
    /\ pc[r] = "idle"
    /\ pc' \in {[pc EXCEPT ![r] = "hold"], [pc EXCEPT ![r] = "refused"]}
    /\ UNCHANGED <<capacity, deferred, step2, seats, dep, booking, old, money,
                   cycle>>

\* create_hold_atomic, under the lock of the departure.  An answer that is
\* lost leaves the hold to its expiry: the call is outside the try.
CanHold(r) == dep = "available" /\ Available >= Seats[r]

CreateHold(r) ==
    /\ pc[r] = "hold"
    /\ \/ /\ CanHold(r)
          /\ hold' = [hold EXCEPT ![r] = "active"]
          /\ \/ Goto(r, IF r \in deferred THEN "customer" ELSE "booking")
             \/ Goto(r, "refused")
       \/ UNCHANGED hold /\ Goto(r, "refused")
    /\ UNCHANGED <<capacity, deferred, step2, reserved, lapsed, outlived, dep,
                   booking, old, money, cycle>>

\* initCheckout inserts the booking, ...
InsertBooking(r) ==
    /\ pc[r] = "booking"
    /\ Call(r, "intent",
            booking' = [booking EXCEPT ![r] = "pending_payment"],
            UNCHANGED booking)
    /\ UNCHANGED <<capacity, deferred, step2, seats, dep, old, money, cycle>>

\* ... creates the intent, ...
CreatePaymentSession(r) ==
    /\ pc[r] = "intent"
    /\ Call(r, "row",
            intent' = [intent EXCEPT ![r] = "requires_payment_method"],
            UNCHANGED intent)
    /\ UNCHANGED <<capacity, deferred, step2, seats, dep, booking, old, row,
                   refund, event, cycle>>

\* ... inserts its row, and cancels the intent as best it can when that
\* fails, ...
InsertPayment(r) ==
    /\ pc[r] = "row"
    /\ \/ /\ row' = [row EXCEPT ![r] = "pending"]
          /\ UNCHANGED intent
          /\ Goto(r, "promote")
       \/ /\ row' \in {row, [row EXCEPT ![r] = "pending"]}
          /\ intent' \in {intent, [intent EXCEPT ![r] = "canceled"]}
          /\ Goto(r, "undo")
    /\ UNCHANGED <<capacity, deferred, step2, seats, dep, booking, old,
                   refund, event, cycle>>

\* ... and moves the hold to `paying`.  No row is touched when the hold is no
\* longer active, and the request does not notice: the widget is mounted.
PromoteHold(r) ==
    /\ pc[r] = "promote"
    /\ Call(r, "done",
            hold' = HoldIf(r, {"active"}, "paying"),
            UNCHANGED hold)
    /\ UNCHANGED <<capacity, deferred, step2, reserved, lapsed, outlived, dep,
                   booking, old, money, cycle>>

\* startDeferredCheckout: the customer at the gateway, ...
CreateCustomer(r) ==
    /\ pc[r] = "customer"
    /\ pc' \in {[pc EXCEPT ![r] = "link"], [pc EXCEPT ![r] = "undo"]}
    /\ UNCHANGED <<capacity, deferred, step2, seats, dep, booking, old, money,
                   cycle>>

\* ... saved on the hold, which must still be active.
LinkCustomer(r) ==
    /\ pc[r] = "link"
    /\ \/ hold[r] = "active" /\ Goto(r, "card")
       \/ Goto(r, "undo")
    /\ UNCHANGED <<capacity, deferred, step2, seats, dep, booking, old, money,
                   cycle>>

\* The catch: the hold is released, unless that call fails too.  A process
\* that dies between two calls is one whose catch did nothing.
Undo(r) ==
    /\ pc[r] = "undo"
    /\ hold' \in {hold, Released(r)}
    /\ Goto(r, "refused")
    /\ UNCHANGED <<capacity, deferred, step2, reserved, lapsed, outlived, dep,
                   booking, old, money, cycle>>

\* create_deferred_booking under the lock of the hold: still active and
\* unexpired, the departure not cancelled, and the live seats of the tourist
\* within the cap.
LiveDeferred == {r \in deferred : booking[r] \in Unpaid}
OverCap(r)   == SeatsOf(LiveDeferred) + Seats[r] > Cap

CanCreateDeferred(r) ==
    /\ hold[r] = "active" /\ r \notin lapsed
    /\ dep = "available"

\* completeDeferredCheckoutAction refuses when the sale closed since the first
\* step; completeDeferredCheckout reads the hold: a second submission of a
\* step that succeeded gets the same booking.
ReadHold(r, c) ==
    /\ pc[r] = "card"
    /\ step2[<<r, c>>] = "idle"
    /\ \/ step2' = [step2 EXCEPT ![<<r, c>>] =
             CASE hold[r] = "paying" /\ booking[r] \in Unpaid -> "done"
               [] hold[r] = "active" -> "create"
               [] OTHER -> "refused"]
       \/ step2' = [step2 EXCEPT ![<<r, c>>] = "refused"]
    /\ UNCHANGED <<capacity, deferred, pc, seats, dep, booking, old, money,
                   cycle>>

\* The card is read at the gateway and the price compared with the accepted
\* one: either may refuse, and the hold stays.
RefuseCard(r, c) ==
    /\ step2[<<r, c>>] = "create"
    /\ step2' = [step2 EXCEPT ![<<r, c>>] = "refused"]
    /\ UNCHANGED <<capacity, deferred, pc, seats, dep, booking, old, money,
                   cycle>>

CreateDeferredBooking(r, c) ==
    /\ step2[<<r, c>>] = "create"
    /\ CanCreateDeferred(r) /\ ~OverCap(r)
    /\ booking' = [booking EXCEPT ![r] = "pending_minimum"]
    /\ hold' = [hold EXCEPT ![r] = "paying"]
    /\ step2' \in {[step2 EXCEPT ![<<r, c>>] = "done"],
                   [step2 EXCEPT ![<<r, c>>] = "refused"]}
    /\ UNCHANGED <<capacity, deferred, pc, reserved, lapsed, outlived, dep,
                   old, money, cycle>>

\* The function refuses; over the cap, one more call gives the hold back.
RefuseDeferredBooking(r, c) ==
    /\ step2[<<r, c>>] = "create"
    /\ ~CanCreateDeferred(r) \/ OverCap(r)
    /\ step2' = [step2 EXCEPT ![<<r, c>>] =
                    IF CanCreateDeferred(r) THEN "over" ELSE "refused"]
    /\ UNCHANGED <<capacity, deferred, pc, seats, dep, booking, old, money,
                   cycle>>

\* Mutant: the release of the other paths, which takes paying holds as well.
ReleasedAny(r) == Released(r)

\* releaseHoldOverCap takes an active hold only: another submission of the
\* same step may have made the booking meanwhile.
ReleasedOverCap(r) == HoldIf(r, {"active"}, "released")

ReleaseHoldOverCap(r, c) ==
    /\ step2[<<r, c>>] = "over"
    /\ hold' \in {hold, ReleasedOverCap(r)}
    /\ step2' = [step2 EXCEPT ![<<r, c>>] = "refused"]
    /\ UNCHANGED <<capacity, deferred, pc, reserved, lapsed, outlived, dep,
                   booking, old, money, cycle>>

-----------------------------------------------------------------------------
(* What the database does with a payment, or with its absence. *)

Booked(r, to) == booking' = [booking EXCEPT ![r] = to]

\* Mutant: the branch that refunds in full when the seats are gone is missing.
NeverOverbooked(r) == FALSE

\* Capacity is counted again when a payment confirms, under the same lock.
Overbooked(r) == reserved + Seats[r] > capacity

\* Mutant: only a row that is still pending can be settled late.
Pending(r) == row[r] = "pending"

\* A row whose payment was not recorded yet.
Unsettled(r) == row[r] \in {"pending", "failed"}

\* confirm_booking with the amount that was paid.  A booking of a cancelled
\* departure is cancelled first; the payment of a cancelled booking is given
\* back whole; another amount is never confirmed.
ConfirmBooking(r, other) ==
    LET gone   == booking[r] \in Unpaid /\ dep = "cancelled"
        late   == (booking[r] = "cancelled" \/ gone) /\ ~other /\ Unsettled(r)
        paying == booking[r] \in Unpaid /\ ~gone
        seated == paying /\ ~other /\ ~Overbooked(r)
    IN
    /\ booking' = [booking EXCEPT ![r] =
          CASE gone   -> "cancelled"
            [] seated -> "confirmed"
            [] paying /\ ~seated -> IF other THEN "payment_mismatch"
                         ELSE "overbooked_refunded"
            [] OTHER  -> @]
    /\ hold' = CASE seated -> [hold EXCEPT ![r] = "converted"]
                 [] paying /\ ~other /\ ~seated ->
                       [hold EXCEPT ![r] = "released"]
                 [] gone \/ (paying /\ other) -> Released(r)
                 [] OTHER -> hold
    /\ reserved' = IF seated THEN reserved + Seats[r] ELSE reserved
    /\ row' = IF late \/ (paying /\ ~other) THEN [row EXCEPT ![r] = "succeeded"]
              ELSE row
    /\ refund' = [refund EXCEPT ![r] =
          CASE late /\ @ \in {"none", "not_due"} -> "late_payment"
            [] paying /\ ~other /\ ~seated -> "overbooked_refunded"
            [] OTHER -> @]

\* flag_payment_mismatch
FlagMismatch(r) ==
    IF booking[r] \in Unpaid
    THEN Booked(r, "payment_mismatch") /\ hold' = Released(r)
    ELSE UNCHANGED <<booking, hold>>

\* Mutant: as before holds in payment existed.
ExpiredActive(r) == HoldIf(r, {"active"}, "expired")

\* The hold of an abandoned booking, in payment or not.
ExpiredHold(r) == HoldIf(r, {"active", "paying"}, "expired")

\* cancel_stale_pending_booking only touches a booking that is still unpaid.
StaleCancels(r) == booking[r] = "pending_payment"

CancelStalePending(r) ==
    IF StaleCancels(r)
    THEN /\ Booked(r, "cancelled")
         /\ row' = [row EXCEPT ![r] = IF @ = "pending" THEN "failed" ELSE @]
         /\ hold' = ExpiredHold(r)
    ELSE UNCHANGED <<booking, row, hold>>

\* payment-intent.succeeded, delivered until it is answered with 200.  An
\* amount that differs is only flagged, and flagged again when redelivered.
Webhook(r) ==
    /\ \/ /\ intent[r] = "succeeded" /\ r \notin event
          /\ ConfirmBooking(r, FALSE)
          /\ event' = event \cup {r}
       \/ /\ intent[r] = "succeeded_other"
          /\ FlagMismatch(r)
          /\ UNCHANGED <<reserved, row, refund, event>>
    /\ UNCHANGED <<request, lapsed, outlived, dep, old, intent, cycle>>

\* The engine of DepartureCharge charges the saved card or gives up; both go
\* through the same functions as the immediate checkout.
ChargeSettles(r) ==
    /\ booking[r] = "pending_minimum"
    /\ ConfirmBooking(r, FALSE)
    /\ intent' = [intent EXCEPT ![r] = "succeeded"]
    /\ event' = event \cup {r}
    /\ UNCHANGED <<request, lapsed, outlived, dep, old, cycle>>

ChargeGivesUp(r) ==
    /\ booking[r] = "pending_minimum"
    /\ Booked(r, "cancelled")
    /\ hold' = Released(r)
    /\ UNCHANGED <<request, reserved, lapsed, outlived, dep, old, money,
                   cycle>>

\* Two cancellations: the second one finds the booking cancelled.
StillConfirmed(r) == booking[r] = "confirmed"

\* cancel_booking of a confirmed booking: its seats go back, and the money
\* does when the departure is 24 hours away or more.
CancelConfirmed(r) ==
    /\ StillConfirmed(r)
    /\ Booked(r, "cancelled")
    /\ reserved' = reserved - Seats[r]
    /\ \E why \in {"requested_by_customer", "not_due"} :
          refund' = [refund EXCEPT ![r] = why]
    /\ UNCHANGED <<request, hold, lapsed, outlived, dep, old, row, intent,
                   event, cycle>>

\* The departure is cancelled and its confirmed bookings are given back;
\* payments under way in the widget are left to the webhook.
CancelDeparture ==
    /\ dep = "available"
    /\ dep' = "cancelled"
    /\ booking' = [r \in Requests |->
          IF booking[r] \in {"confirmed", "pending_minimum"} THEN "cancelled"
          ELSE booking[r]]
    /\ hold' = [r \in Requests |->
          IF booking[r] = "pending_minimum" /\ hold[r] \in {"active", "paying"}
          THEN "released" ELSE hold[r]]
    /\ refund' = [r \in Requests |->
          IF booking[r] = "confirmed" THEN "requested_by_customer"
          ELSE refund[r]]
    /\ reserved' = 0
    /\ UNCHANGED <<request, lapsed, outlived, old, row, intent, event, cycle>>

-----------------------------------------------------------------------------
(* Jobs, time, tourist and gateway. *)

\* release-expired-holds: one UPDATE over the active holds past their expiry.
ReleaseExpiredHolds ==
    /\ \E r \in lapsed : hold[r] = "active"
    /\ hold' = [r \in Requests |->
          IF hold[r] = "active" /\ r \in lapsed THEN "expired" ELSE hold[r]]
    /\ UNCHANGED <<request, reserved, lapsed, outlived, dep, booking, old,
                   money, cycle>>

\* reconcile-pending-payments, one cycle at a time: the unpaid bookings of
\* more than 30 minutes are read with their payments, ...
FetchStale ==
    /\ \A r \in Requests : cycle[r] = "idle"
    /\ cycle' = [r \in Requests |->
          IF booking[r] = "pending_payment" /\ r \in old
          THEN IF row[r] = "none" THEN "no_payment" ELSE "ask"
          ELSE "idle"]
    /\ cycle' # cycle
    /\ UNCHANGED <<request, seats, dep, booking, old, money>>

\* ... one with a payment is asked for at the gateway, ...
GetPaymentIntent(r) ==
    /\ cycle[r] = "ask"
    /\ cycle' = [cycle EXCEPT ![r] =
          CASE intent[r] = "succeeded" -> "paid"
            [] intent[r] = "succeeded_other" -> "paid_other"
            [] intent[r] = "processing" -> "idle"
            [] OTHER -> "not_paid"]
    /\ UNCHANGED <<request, seats, dep, booking, old, money>>

\* ... and what was read is applied.  Neither event nor lock ties it to the
\* state the booking had when it was read.
ApplyOutcome(r) ==
    /\ \/ /\ cycle[r] \in {"no_payment", "not_paid"}
          /\ CancelStalePending(r)
          /\ UNCHANGED <<reserved, refund>>
       \/ /\ cycle[r] = "paid"
          /\ ConfirmBooking(r, FALSE)
       \/ /\ cycle[r] = "paid_other"
          /\ FlagMismatch(r)
          /\ UNCHANGED <<reserved, row, refund>>
    /\ cycle' = [cycle EXCEPT ![r] = "idle"]
    /\ UNCHANGED <<request, lapsed, outlived, dep, old, intent, event>>

\* A query, a GET without an amount or a function that fails: the booking is
\* left to the next cycle.
SkipBooking(r) ==
    /\ cycle[r] # "idle"
    /\ cycle' = [cycle EXCEPT ![r] = "idle"]
    /\ UNCHANGED <<request, seats, dep, booking, old, money>>

\* expires_at, 15 minutes after the hold
HoldLapses(r) ==
    /\ hold[r] \in {"active", "paying"} /\ r \notin lapsed
    /\ lapsed' = lapsed \cup {r}
    /\ outlived' = IF pc[r] \in {"booking", "intent", "row", "promote"}
                   THEN outlived \cup {r} ELSE outlived
    /\ UNCHANGED <<request, reserved, hold, dep, booking, old, money, cycle>>

\* 30 minutes after the booking, and so after its hold's expiry
BookingAges(r) ==
    /\ booking[r] = "pending_payment" /\ r \notin old
    /\ hold[r] \in {"active", "paying"} => r \in lapsed
    /\ old' = old \cup {r}
    /\ UNCHANGED <<request, seats, dep, booking, money, cycle>>

\* The tourist pays in the widget, which the server's answer mounts.
Pay(r) ==
    /\ pc[r] = "done" /\ intent[r] = "requires_payment_method"
    /\ \E s \in {"processing", "succeeded", "succeeded_other"} :
          /\ s = "succeeded_other" => r \in OtherAmount
          /\ intent' = [intent EXCEPT ![r] = s]
    /\ UNCHANGED <<request, seats, dep, booking, old, row, refund, event,
                   cycle>>

GatewaySettles(r) ==
    /\ intent[r] = "processing"
    /\ \E s \in {"succeeded", "requires_payment_method"} :
          intent' = [intent EXCEPT ![r] = s]
    /\ UNCHANGED <<request, seats, dep, booking, old, row, refund, event,
                   cycle>>

\* The steps that only one of the two checkouts has.
ImmediateStep(r) ==
    /\ r \notin deferred
    /\ \/ InsertBooking(r) \/ CreatePaymentSession(r) \/ InsertPayment(r)
       \/ PromoteHold(r) \/ Pay(r) \/ GatewaySettles(r) \/ Webhook(r)
       \/ BookingAges(r) \/ GetPaymentIntent(r) \/ ApplyOutcome(r)
       \/ SkipBooking(r)

DeferredStep(r) ==
    /\ r \in deferred
    /\ \/ CreateCustomer(r) \/ LinkCustomer(r)
       \/ ChargeSettles(r) \/ ChargeGivesUp(r)
       \/ \E c \in Calls(r) :
             \/ ReadHold(r, c) \/ RefuseCard(r, c)
             \/ CreateDeferredBooking(r, c) \/ RefuseDeferredBooking(r, c)
             \/ ReleaseHoldOverCap(r, c)

Next ==
    \/ \E r \in Requests :
          \/ Submit(r) \/ CreateHold(r) \/ Undo(r)
          \/ CancelConfirmed(r) \/ HoldLapses(r)
          \/ ImmediateStep(r) \/ DeferredStep(r)
    \/ CancelDeparture \/ ReleaseExpiredHolds \/ FetchStale

\* Time passes, the jobs' timers fire, a call of a job that is repeated for
\* ever succeeds once, the gateway redelivers until it is answered, and the
\* engine resolves what it was left (BookingsResolve of DepartureCharge).
\* Nothing obliges a request to go on, nor a tourist to pay.
Fairness ==
    /\ WF_vars(ReleaseExpiredHolds) /\ WF_vars(FetchStale)
    /\ \A r \in Requests :
          /\ WF_vars(HoldLapses(r) \/ BookingAges(r))
          /\ SF_vars(GetPaymentIntent(r)) /\ SF_vars(ApplyOutcome(r))
          /\ WF_vars(Webhook(r) \/ ChargeSettles(r) \/ ChargeGivesUp(r))

Spec == Init /\ [][Next]_vars /\ Fairness

-----------------------------------------------------------------------------
(* Properties. *)

\* The seats counted on the departure are those of the confirmed bookings,
\* and never more than it has, whoever pays late, twice or after a hold that
\* was lost (confirm_booking, cancel_booking).
NeverOversold ==
    /\ reserved = SeatsOf({r \in Requests : booking[r] = "confirmed"})
    /\ reserved <= capacity

\* A booking whose checkout has answered, and which nobody paid yet.
Promised == {r \in Requests : /\ booking[r] \in Unpaid
                              /\ r \in deferred \/ pc[r] = "done"}

\* Unless a request outlives its own hold, what is sold and what was promised
\* fit together: nobody who pays in time is turned away for want of a seat
\* (create_hold_atomic, holds in `paying`).
PromisesFit ==
    outlived = {} => reserved + SeatsOf(Promised) <= capacity

\* A booking that waits for its payment keeps its seats from the moment its
\* checkout answered, and seats are kept for nobody else: no hold in `paying`
\* is left behind by a booking that ended (create.ts, deferred-checkout-cap.ts).
PromisedIsHeld ==
    \A r \in Requests :
        /\ hold[r] = "paying" => booking[r] \in Unpaid
        /\ /\ booking[r] \in Unpaid
           /\ r \in deferred \/ (pc[r] = "done" /\ r \notin outlived)
           => hold[r] = "paying"

\* Seats that are held are sold or come back, whatever died in between;
\* only a payment the gateway still processes keeps them.
SeatsComeBack ==
    \A r \in Requests :
        hold[r] \in {"active", "paying"} ~>
            hold[r] \notin {"active", "paying"} \/ intent[r] = "processing"

\* Money the gateway took is recorded, and so confirms a booking or is given
\* back, also when the booking had been cancelled as abandoned.
MoneyIsRecorded ==
    \A r \in Requests :
        intent[r] = "succeeded" ~>
            /\ row[r] = "succeeded"
            /\ booking[r] = "confirmed" \/ refund[r] # "none"

=============================================================================
