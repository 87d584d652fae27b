--------------------------- MODULE ChargeDatabase ---------------------------
(***************************************************************************)
(* The rows of one departure in the database and the SQL functions that    *)
(* the deferred charge calls on them.  Every function runs in a            *)
(* transaction under row locks (FOR UPDATE), so each is one atomic         *)
(* operator here: a guard named after its outcome, and an effect.  Who     *)
(* calls them, and in which order, is DepartureCharge.                     *)
(*                                                                         *)
(* Time is a clock in ticks of some hours, from 0 to Start, when the       *)
(* departure begins.  Money is not counted: a payment is of the booking's  *)
(* total, so an intent either charged it or did not.                       *)
(***************************************************************************)
EXTENDS Integers, FiniteSets, FiniteSetsExt

CONSTANTS
    NumBookings,      \* bookings of the departure, numbered by created_at
    MaxIntents,       \* bound: payment intents ever created for a booking
    Seats,            \* participants of each booking
    Minimum,          \* min_participants of the tour
    AutoCancel,       \* below_minimum_policy = 'auto_cancel'
    OnMinimum,        \* charge_timing = 'on_minimum'
    Start,            \* starts_at
    DueLead,          \* greatest(charge_lead_hours, 32 h)
    EarlyFloor,       \* 72 h: farther than this, a cycle closes unresolved
    DeadlineWindow,   \* 48 h for the cycle, ...
    DeadlineMargin,   \* ... ending 30 h before the start at the latest
    Notice,           \* 24 h (24 h 10 min unattended): the promised notice
    RecoveryWindow,   \* minimum_decision_window_hours
    MaxAttempts       \* bound: rejected attempts recorded for a booking

Bookings == 1..NumBookings
Ids      == 1..MaxIntents
NoId     == 0
Null     == -1

ASSUME BoundsAssumption ==
    /\ NumBookings \in Nat
    /\ MaxIntents \in Nat
    /\ MaxAttempts \in Nat
    /\ Seats \in [Bookings -> Nat \ {0}]
    /\ Minimum \in Nat
    /\ {AutoCancel, OnMinimum} \subseteq BOOLEAN

ASSUME TimesAssumption ==
    /\ {Start, DueLead, EarlyFloor, DeadlineWindow, DeadlineMargin, Notice,
        RecoveryWindow} \subseteq Nat
    /\ Notice <= DeadlineMargin

VARIABLES
    now,      \* the database clock
    status,   \* bookings.status
    mark,     \* authorized_at, cancel_claimed_at, capture_started_at
    sched,    \* the charge agenda of a booking
    row,      \* payments: the row of each intent
    refund,   \* refunds: the intent whose payment is being given back
    event,    \* processed_webhook_events (the event id is the intent id)
    dep       \* tour_instances: the minimum cycle

db == <<now, status, mark, sched, row, refund, event, dep>>

-----------------------------------------------------------------------------
(* The schema. *)

Statuses == {"absent", "pending_minimum", "pending_payment", "confirmed",
             "cancelled"}

\* A claim or capture mark older than 15 minutes is stale: its process died.
MarkAges == {"none", "fresh", "stale"}
Marks    == [auth : BOOLEAN, claim : MarkAges, capture : MarkAges]
NoMarks  == [auth |-> FALSE, claim |-> "none", capture |-> "none"]

\* Of charge_started_at and charge_next_attempt_at only one thing is ever
\* asked: whether they are old enough, or due.
Times  == 0..Start
Agenda == [started  : {"none", "recent", "old"},
           attempts : 0..MaxAttempts,
           next     : {"none", "later", "due"},
           recovery : Times \cup {Null},   \* recovery_deadline
           awaiting : Times \cup {Null}]   \* awaiting_action_until
NoAgenda == [started |-> "none", attempts |-> 0, next |-> "none",
             recovery |-> Null, awaiting |-> Null]

\* "failed" keeps provider_closed_at NULL, "closed" is failed with it set.
RowStates == {"none", "pending", "failed", "closed", "succeeded"}

Resolutions == {"none", "reached", "auto_cancelled", "staff_confirmed",
                "staff_cancelled"}
Departure == [triggered  : BOOLEAN,
              closed     : BOOLEAN,              \* minimum_charge_closed_at
              deadline   : Times \cup {Null},    \* staff_decision_required_at
              resolution : Resolutions,
              cancelled  : BOOLEAN]              \* status = 'cancelled'

DbTypeOK ==
    /\ now \in Times
    /\ status \in [Bookings -> Statuses]
    /\ mark \in [Bookings -> Marks]
    /\ sched \in [Bookings -> Agenda]
    /\ row \in [Bookings \X Ids -> RowStates]
    /\ refund \in [Bookings -> Ids \cup {NoId}]
    /\ event \subseteq Bookings \X Ids
    /\ dep \in Departure

DbInit ==
    /\ now = 0
    /\ status = [b \in Bookings |-> "absent"]
    /\ mark = [b \in Bookings |-> NoMarks]
    /\ sched = [b \in Bookings |-> NoAgenda]
    /\ row = [p \in Bookings \X Ids |-> "none"]
    /\ refund = [b \in Bookings |-> NoId]
    /\ event = {}
    /\ dep = [triggered |-> FALSE, closed |-> FALSE, deadline |-> Null,
              resolution |-> "none", cancelled |-> FALSE]

-----------------------------------------------------------------------------
(* What the functions and the jobs read. *)

Live(b) == status[b] \in {"pending_minimum", "pending_payment"}

\* bookings_one_pending_payment: at most one row of a booking is pending.
PendingIds(b) == {k \in Ids : row[b, k] = "pending"}
PendingOf(b)  == IF PendingIds(b) = {} THEN NoId
                 ELSE CHOOSE k \in PendingIds(b) : TRUE

SeatsOf(B) == MapThenSumSet(LAMBDA b : Seats[b], B)

\* departure_seat_counts.  capacity_reserved is what confirm_booking added.
Captured   == SeatsOf({b \in Bookings : status[b] = "confirmed"})
Sold       == Captured + SeatsOf({b \in Bookings : Live(b)})
Authorized == Captured + SeatsOf({b \in Bookings :
                             /\ status[b] = "pending_payment"
                             /\ mark[b].auth
                             /\ mark[b].claim = "none"})

Least(i, j)    == IF i <= j THEN i ELSE j
Greatest(i, j) == IF i <= j THEN j ELSE i

Started == Start <= now

\* Mutant: the deadline may lie after the departure.
UncappedDeadline == Greatest(Start - RecoveryWindow, now + 1)

\* compute_recovery_deadline: six hours at least round up to one tick.
RecoveryDeadline == Least(Greatest(Start - RecoveryWindow, now + 1), Start)

\* The deadline kept by coalesce(recovery_deadline, compute_recovery_deadline).
DeadlineOf(b) == IF sched[b].recovery # Null THEN sched[b].recovery
                 ELSE RecoveryDeadline

\* departure_charge_due
ChargeDue ==
    /\ ~dep.cancelled
    /\ ~Started
    /\ dep.closed => now >= Start - EarlyFloor
    /\ \/ now >= Start - DueLead
       \/ OnMinimum /\ Sold >= Minimum

\* A few hours pass.  The retries after a rejection wait one, six and
\* twenty-four hours: the tick may be the end of the wait, or not yet.
Tick ==
    /\ ~Started
    /\ now' = now + 1
    /\ \E due \in SUBSET {b \in Bookings : sched[b].next = "later"} :
          sched' = [b \in Bookings |->
             [sched[b] EXCEPT !.started = IF @ = "recent" THEN "old" ELSE @,
                              !.next    = IF b \in due THEN "due" ELSE @]]
    /\ UNCHANGED <<status, mark, row, refund, event, dep>>

-----------------------------------------------------------------------------
(* Booking functions. *)

\* create_deferred_booking, on a departure that still takes bookings.
CreateDeferredBooking(b) ==
    /\ status[b] = "absent"
    /\ \A c \in 1..(b - 1) : status[c] # "absent"
    /\ ~dep.cancelled /\ ~Started
    /\ status' = [status EXCEPT ![b] = "pending_minimum"]
    /\ UNCHANGED <<now, mark, sched, row, refund, event, dep>>

\* charge_booking_start: the caller may confirm intent k only if it started.
CanStart(b, k) ==
    /\ status[b] = "pending_minimum"
    /\ ~Started /\ ~dep.cancelled
    /\ sched[b].recovery # Null => sched[b].recovery > now
    /\ sched[b].started # "recent"   \* retry_too_soon
    /\ PendingIds(b) \subseteq {k}

ChargeBookingStart(b, k) ==
    /\ row' = [row EXCEPT ![<<b, k>>] = "pending"]
    /\ status' = [status EXCEPT ![b] = "pending_payment"]
    /\ sched' = [sched EXCEPT
                     ![b] = [@ EXCEPT !.started = "recent", !.next = "none"]]
    /\ UNCHANGED <<now, mark, refund, event, dep>>

\* record_authorization
CanAuthorize(b, k) == status[b] = "pending_payment" /\ row[b, k] = "pending"

RecordAuthorization(b, k) ==
    /\ IF CanAuthorize(b, k)
       THEN mark' = [mark EXCEPT ![b].auth = TRUE]
       ELSE UNCHANGED mark
    /\ UNCHANGED <<now, status, sched, row, refund, event, dep>>

\* charge_requires_action
ChargeRequiresAction(b, k) ==
    /\ IF /\ status[b] = "pending_payment"
          /\ sched[b].started # "none"
          /\ sched[b].awaiting = Null
          /\ row[b, k] = "pending"
       THEN sched' = [sched EXCEPT
               ![b] = [@ EXCEPT !.awaiting = DeadlineOf(b),
                                !.recovery = DeadlineOf(b)]]
       ELSE UNCHANGED sched
    /\ UNCHANGED <<now, status, mark, row, refund, event, dep>>

\* charge_attempt_failed: back to pending_minimum, with a retry when there is
\* time for one and no more than three were spent; a dead intent is closed.
CanFailAttempt(b, k) ==
    /\ status[b] = "pending_payment"
    /\ sched[b].started # "none"
    /\ row[b, k] = "pending"

ChargeAttemptFailed(b, k, terminal) ==
    IF CanFailAttempt(b, k)
    THEN LET n    == Least(sched[b].attempts + 1, MaxAttempts)
             next == IF DeadlineOf(b) > now /\ sched[b].attempts < 3
                     THEN "later" ELSE "none"
         IN /\ status' = [status EXCEPT ![b] = "pending_minimum"]
            /\ sched' = [sched EXCEPT ![b] = [@ EXCEPT !.attempts = n,
                              !.recovery = DeadlineOf(b), !.next = next,
                              !.awaiting = Null]]
            /\ mark' = [mark EXCEPT ![b] = NoMarks]
            /\ row' = IF terminal THEN [row EXCEPT ![<<b, k>>] = "closed"] ELSE row
            /\ UNCHANGED <<now, refund, event, dep>>
    ELSE UNCHANGED db

\* close_pending_payment
CanClosePending(b, k) == status[b] = "pending_minimum" /\ row[b, k] = "pending"

ClosePendingPayment(b, k) ==
    /\ row' = IF CanClosePending(b, k)
              THEN [row EXCEPT ![<<b, k>>] = "closed"] ELSE row
    /\ UNCHANGED <<now, status, mark, sched, refund, event, dep>>

\* release_departure_authorization.  The row is matched with the intent, the
\* booking is not: it goes back to pending_minimum whatever its live intent.
ReleaseAuthorization(b, k) ==
    IF status[b] = "pending_payment"
    THEN /\ row' = IF row[b, k] = "pending"
                   THEN [row EXCEPT ![<<b, k>>] = "closed"] ELSE row
         /\ status' = [status EXCEPT ![b] = "pending_minimum"]
         /\ mark' = [mark EXCEPT ![b] = NoMarks]
         /\ sched' = [sched EXCEPT ![b] = [@ EXCEPT
                         !.started = "none", !.awaiting = Null, !.recovery = Null]]
         /\ UNCHANGED <<now, refund, event, dep>>
    ELSE UNCHANGED db

\* The pending row of a cancelled booking becomes failed; r tells whether the
\* caller vouches for the intent being closed at the gateway.
RowsWhenCancelled(b, r) ==
    [p \in Bookings \X Ids |->
        IF p[1] = b /\ row[p] = "pending" THEN r ELSE row[p]]

\* cancel_unpaid_booking
CanCancelUnpaid(b) == status[b] = "pending_minimum"

CancelUnpaidBooking(b) ==
    /\ status' = [status EXCEPT ![b] = "cancelled"]
    /\ row' = RowsWhenCancelled(b, "failed")
    /\ sched' = [sched EXCEPT ![b].next = "none"]
    /\ UNCHANGED <<now, mark, refund, event, dep>>

\* Mutant: the start of the departure is not a reason to cancel.
ReasonIsADeadline(b, reason) ==
    \/ /\ reason = "action_expired"
       /\ sched[b].awaiting # Null /\ sched[b].awaiting <= now
    \/ /\ reason = "recovery_expired"
       /\ sched[b].recovery # Null /\ sched[b].recovery <= now

\* cancel_charge_in_flight: the deadline it invokes must have passed.
ReasonIsDue(b, reason) ==
    CASE reason = "action_expired" ->
             sched[b].awaiting # Null /\ sched[b].awaiting <= now
      [] reason = "recovery_expired" ->
             sched[b].recovery # Null /\ sched[b].recovery <= now
      [] OTHER -> Started

CanCancelInFlight(b, reason) ==
    /\ status[b] = "pending_payment"
    /\ sched[b].started # "none"
    /\ ReasonIsDue(b, reason)

CancelChargeInFlight(b) ==
    /\ status' = [status EXCEPT ![b] = "cancelled"]
    /\ mark' = [mark EXCEPT ![b] = NoMarks]
    /\ sched' = [sched EXCEPT ![b].next = "none"]
    /\ row' = RowsWhenCancelled(b, "failed")
    /\ UNCHANGED <<now, refund, event, dep>>

\* claim_authorization_cancel
HasAuthorization(b) == status[b] = "pending_payment" /\ mark[b].auth

CanClaim(b) == HasAuthorization(b) /\ mark[b].capture # "fresh"

ClaimAuthorizationCancel(b) ==
    /\ mark' = [mark EXCEPT ![b].claim = "fresh"]
    /\ UNCHANGED <<now, status, sched, row, refund, event, dep>>

\* cancel_authorized_booking: its caller has already closed the intent.
CanCancelAuthorized(b) ==
    mark[b].claim # "none" /\ status[b] = "pending_payment"

CancelAuthorizedBooking(b) ==
    /\ row' = RowsWhenCancelled(b, "closed")
    /\ status' = [status EXCEPT ![b] = "cancelled"]
    /\ mark' = [mark EXCEPT ![b] = NoMarks]
    /\ sched' = [sched EXCEPT ![b] = [@ EXCEPT !.next = "none", !.awaiting = Null]]
    /\ UNCHANGED <<now, refund, event, dep>>

\* markCaptureStarted: a conditional UPDATE, one capture per booking at a time.
CanMarkCapture(b) ==
    /\ status[b] = "pending_payment"
    /\ mark[b] = [auth |-> TRUE, claim |-> "none", capture |-> "none"]

MarkCaptureStarted(b) ==
    /\ mark' = [mark EXCEPT ![b].capture = "fresh"]
    /\ UNCHANGED <<now, status, sched, row, refund, event, dep>>

\* clearStaleMarks: an unconditional UPDATE of both marks.
ClearStaleMarks(b) ==
    /\ mark' = [mark EXCEPT ![b].claim = "none", ![b].capture = "none"]
    /\ UNCHANGED <<now, status, sched, row, refund, event, dep>>

\* cancel-authorized.ts gives the claim back when the gateway refused.
Unclaim(b) ==
    /\ mark' = IF status[b] = "pending_payment"
               THEN [mark EXCEPT ![b].claim = "none"] ELSE mark
    /\ UNCHANGED <<now, status, sched, row, refund, event, dep>>

-----------------------------------------------------------------------------
(* Settling a charge. *)

\* A row of the booking for the intent whose charge was not recorded yet.
Unsettled(b, k) == row[b, k] \in {"pending", "failed", "closed"}

\* confirm_booking.  The first delivery of an event decides; a live booking
\* is confirmed by its own pending row, a cancelled one is refunded in full,
\* and a booking already confirmed by another intent was charged twice.
ConfirmOutcome(b, k) ==
    LET done == <<b, k>> \in event
        late == status[b] = "cancelled" \/ (Live(b) /\ dep.cancelled)
    IN
    CASE done -> "already_processed"
      [] ~done /\ status[b] = "confirmed" ->
             IF Unsettled(b, k)
             THEN "duplicate_payment" ELSE "already_processed"
      [] ~done /\ late ->
             IF ~Unsettled(b, k) THEN "ignored"
             ELSE IF refund[b] = NoId THEN "late_payment_refunded"
                  ELSE "late_payment_refund_blocked"
      [] ~done /\ ~late /\ Live(b) /\ row[b, k] = "pending" -> "confirmed"
      [] OTHER -> "ignored"

ConfirmBooking(b, k) ==
    LET out == ConfirmOutcome(b, k) IN
    /\ event' = event \cup {<<b, k>>}
    /\ status' = [status EXCEPT ![b] =
                     CASE out = "confirmed" -> "confirmed"
                       [] Live(b) /\ dep.cancelled
                            /\ out # "already_processed" -> "cancelled"
                       [] OTHER -> @]
    /\ row' = IF out \in {"already_processed", "ignored"} THEN row
              ELSE [row EXCEPT ![<<b, k>>] = "succeeded"]
    /\ refund' = IF out = "late_payment_refunded"
                 THEN [refund EXCEPT ![b] = k] ELSE refund
    /\ sched' = IF out = "confirmed"
                THEN [sched EXCEPT ![b] = [@ EXCEPT !.next = "none", !.awaiting = Null]]
                ELSE sched
    /\ UNCHANGED <<now, mark, dep>>

\* record_intent_closed: the sweep saw the intent closed at the gateway.
RecordIntentClosed(b, k) ==
    /\ row' = IF status[b] = "cancelled" /\ row[b, k] \in {"pending", "failed"}
              THEN [row EXCEPT ![<<b, k>>] = "closed"] ELSE row
    /\ UNCHANGED <<now, status, mark, sched, refund, event, dep>>

\* cancel_booking: everything back with 24 hours or more, else nothing.  The
\* refund is of the newest row that succeeded; HeldOnce leaves no other.
PaidId(b) == IF \E k \in Ids : row[b, k] = "succeeded"
             THEN CHOOSE k \in Ids : row[b, k] = "succeeded" ELSE NoId

RefundWhenCancelled(B) ==
    [b \in Bookings |-> IF b \in B /\ refund[b] = NoId THEN PaidId(b)
                        ELSE refund[b]]

CancelBooking(b) ==
    /\ status[b] = "confirmed"
    /\ status' = [status EXCEPT ![b] = "cancelled"]
    /\ refund' = IF Start >= now + Notice
                 THEN RefundWhenCancelled({b}) ELSE refund
    /\ UNCHANGED <<now, mark, sched, row, event, dep>>

-----------------------------------------------------------------------------
(* Departure functions. *)

\* open_departure_charge, with the deadline of migration 055.
CanOpenCharge ==
    /\ dep.resolution = "none" /\ ~dep.cancelled
    /\ ~dep.triggered
    /\ ChargeDue

CycleDeadline ==
    Least(Greatest(Least(now + DeadlineWindow, Start - DeadlineMargin),
                   now + 1), Start)

OpenDepartureCharge ==
    /\ dep' = [dep EXCEPT !.triggered = TRUE, !.deadline = CycleDeadline,
                          !.closed = FALSE]
    /\ UNCHANGED <<now, status, mark, sched, row, refund, event>>

\* close_departure_charge
CloseDepartureCharge ==
    /\ dep' = IF dep.triggered /\ dep.resolution = "none"
              THEN [dep EXCEPT !.triggered = FALSE, !.deadline = Null,
                               !.closed = TRUE]
              ELSE dep
    /\ UNCHANGED <<now, status, mark, sched, row, refund, event>>

\* resolve_departure_minimum.  A cancelling resolution needs the promised
\* notice and no capture in progress; it refunds what was charged and cancels
\* the rest with cancel_booking_for_departure, whose rows stay unclosed.
Cancelling(r) == r \in {"auto_cancelled", "staff_cancelled"}

CanResolve(r) ==
    /\ dep.resolution = "none"
    /\ IF Cancelling(r)
       THEN /\ Start > now + Notice
            /\ \A b \in Bookings : ~(/\ status[b] = "pending_payment"
                                     /\ mark[b].capture = "fresh")
       ELSE dep.triggered

ResolveDepartureMinimum(r) ==
    /\ dep' = [dep EXCEPT !.resolution = r,
                          !.cancelled = @ \/ Cancelling(r)]
    /\ IF Cancelling(r)
       THEN /\ status' = [b \in Bookings |->
                 IF status[b] = "absent" THEN "absent" ELSE "cancelled"]
            /\ refund' = RefundWhenCancelled(
                            {b \in Bookings : status[b] = "confirmed"})
            /\ row' = [p \in Bookings \X Ids |->
                 IF Live(p[1]) /\ row[p] = "pending" THEN "failed" ELSE row[p]]
            /\ mark' = [b \in Bookings |-> IF Live(b) THEN NoMarks ELSE mark[b]]
            /\ sched' = [b \in Bookings |->
                 IF Live(b) THEN [sched[b] EXCEPT !.next = "none",
                                                  !.awaiting = Null]
                 ELSE sched[b]]
       ELSE UNCHANGED <<status, refund, row, mark, sched>>
    /\ UNCHANGED <<now, event>>

\* auto_cancel_departure_minimum: nothing charged, nothing that still can be.
CanAutoCancel ==
    /\ ~dep.cancelled
    /\ AutoCancel
    /\ \A b \in Bookings : status[b] \notin {"pending_payment", "confirmed"}
    /\ \A b \in Bookings :
          status[b] = "pending_minimum" => PendingIds(b) = {}
    /\ CanResolve("auto_cancelled")

=============================================================================
