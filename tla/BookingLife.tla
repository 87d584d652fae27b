----------------------------- MODULE BookingLife -----------------------------
(***************************************************************************)
(* What becomes of the bookings of a departure of the deferred charge, one *)
(* transaction of the database at a time: ChargeDatabase with the          *)
(* conditions under which the engine, the watchdog, the webhook and the    *)
(* panel call its functions.  How they come to call them, and what the     *)
(* gateway answers, is DepartureCharge, which implements LifeSpec; here a  *)
(* call that may come comes at any moment.  It is what the mails and the   *)
(* pages of a booking live beside.                                         *)
(***************************************************************************)
EXTENDS ChargeDatabase

Cancelled(b) == status[b] = "cancelled"
Confirmed(b) == status[b] = "confirmed"

\* A moment that is set and has not come
IsFuture(t) == t # Null /\ t > now

Charge(b) ==
    \E k \in Ids :
        \/ CanStart(b, k) /\ row[b, k] \in {"none", "pending"}
           /\ ChargeBookingStart(b, k)
        \/ CanAuthorize(b, k) /\ RecordAuthorization(b, k)
        \/ row[b, k] = "pending" /\ ChargeRequiresAction(b, k)
        \/ /\ CanFailAttempt(b, k)
           /\ \E terminal \in BOOLEAN : ChargeAttemptFailed(b, k, terminal)
        \/ CanClosePending(b, k) /\ ClosePendingPayment(b, k)

\* A charge is seen, or seen again: by the worker that captured it, the
\* webhook or the sweep.  A booking is charged once.
Settle(b) ==
    \E k \in Ids :
        /\ row[b, k] # "none"
        /\ Unsettled(b, k) => PaidId(b) = NoId
        /\ ConfirmBooking(b, k)

\* The sweep closes the row of a cancelled booking.
Sweep(b) == \E k \in Ids : RecordIntentClosed(b, k)

\* The engine marks what it captures, a request what it cancels; either may
\* die, and its mark grows old, or is cleared.
MarkOf(b) ==
    \/ CanMarkCapture(b) /\ MarkCaptureStarted(b)
    \/ ClearStaleMarks(b)
    \/ CanClaim(b) /\ ClaimAuthorizationCancel(b)
    \/ Unclaim(b)
    \/ /\ mark' \in {[mark EXCEPT ![b].claim = "stale"],
                     [mark EXCEPT ![b].capture = "stale"]}
       /\ mark[b].claim = "fresh" \/ mark'[b].claim = mark[b].claim
       /\ mark[b].capture = "fresh" \/ mark'[b].capture = mark[b].capture
       /\ UNCHANGED <<now, status, sched, row, refund, event, dep>>

PastDeadline == dep.triggered /\ dep.deadline # Null /\ dep.deadline <= now

\* The cycle of the departure: opened when it is due; released, closed or
\* cancelled after its deadline; declared reached.  What the engine counted
\* may have changed when it calls the function.
Cycle ==
    \/ CanOpenCharge /\ OpenDepartureCharge
    \/ /\ PastDeadline
       /\ \/ \E b \in Bookings : \E k \in PendingIds(b) : ReleaseAuthorization(b, k)
          \/ CloseDepartureCharge
          \/ CanAutoCancel /\ ResolveDepartureMinimum("auto_cancelled")
    \/ CanResolve("reached") /\ ResolveDepartureMinimum("reached")

\* decideDepartureAction
StaffResolves ==
    \E r \in {"staff_confirmed", "staff_cancelled"} :
        CanResolve(r) /\ ResolveDepartureMinimum(r)

\* What the watchdog looks for
RecoveryExpired(b) ==
    /\ status[b] = "pending_minimum" /\ sched[b].attempts > 0
    /\ sched[b].recovery # Null /\ sched[b].recovery <= now

Expire(b) ==
    \/ /\ CanCancelUnpaid(b) /\ (RecoveryExpired(b) \/ Started)
       /\ CancelUnpaidBooking(b)
    \/ /\ \E reason \in {"action_expired", "recovery_expired",
                         "departure_started"} : CanCancelInFlight(b, reason)
       /\ CancelChargeInFlight(b)

\* The tourist cancels from the web, or the team from the panel.
CancelledByHand(b) ==
    \/ CanCancelUnpaid(b) /\ CancelUnpaidBooking(b)
    \/ CanCancelAuthorized(b) /\ CancelAuthorizedBooking(b)
    \/ CancelBooking(b)

Life == \/ \E b \in Bookings :
              \/ CreateDeferredBooking(b) \/ Charge(b) \/ Settle(b) \/ Sweep(b)
              \/ MarkOf(b) \/ Expire(b)
        \/ Cycle \/ StaffResolves \/ Tick

CancelledElsewhere == \E b \in Bookings : CancelledByHand(b)

\* What DepartureCharge promises of the database.
LifeSpec == DbInit /\ [][Life \/ CancelledElsewhere]_db

=============================================================================
