----------------------------- MODULE Departures -----------------------------
(***************************************************************************)
(* The operation of the departures of a tour: cancelling one with a        *)
(* reason, keeping one below the minimum, the job that resolves the        *)
(* minimum of the immediate charge, moving a booking to another departure, *)
(* deciding the bookings left under review, and the notices all of them    *)
(* enqueue (Outbox).  Every operation is one transaction under the locks   *)
(* of the departures it touches, so each is one step.                      *)
(*                                                                         *)
(* Departures are numbered in the order in which they start.  How a        *)
(* booking comes to be held, unpaid or paid is Checkout's subject and      *)
(* DepartureCharge's: here those are single steps.                         *)
(***************************************************************************)
EXTENDS Outbox, FiniteSetsExt

CONSTANTS
    Departures, \* of one tour
    Openings,   \* to begin with: the state of every booking, the notices
                \* that are followed, and the bound on changes of date
    Deferred,   \* bookings of the deferred charge
    Seats,      \* tickets of each booking
    Capacity,   \* capacity_total
    Minimum,    \* min_participants
    Policies    \* below_minimum_policy

ASSUME DeparturesAssumption ==
    /\ Departures \subseteq Nat \ {0} /\ 1 \in Departures
    /\ Deferred \subseteq Bookings
    /\ Seats \in [Bookings -> Nat \ {0}]
    /\ {Capacity, Minimum} \subseteq Nat
    /\ Policies \subseteq {"auto_cancel", "staff_decides"}

VARIABLES
    policy,     \* business_settings.below_minimum_policy
    phase,      \* how far each departure is
    dep,        \* tour_instances.status and cancellation_reason
    resolved,   \* tour_instances.minimum_resolution
    reserved,   \* tour_instances.capacity_reserved
    status,     \* bookings.status; `holding` is a hold with no booking yet
    at,         \* bookings.tour_instance_id
    review,     \* bookings with operator_review_required_at
    paid,       \* bookings with a payment that succeeded
    refunded,   \* bookings with a refund of what they paid
    moves       \* bound: changes of date that are left

ops  == <<policy, phase, dep, resolved, reserved, status, at, review, paid,
          refunded, moves>>
vars == <<ops, queue>>

\* More than 25 h before the start, between 25 h and 24 h 10 min, until 24 h,
\* the last day, and the tour itself.
Far == 0  Window == 1  Margin == 2  Day == 3  Started == 4

Unpaid  == {"pending_payment", "pending_minimum"}
Live    == Unpaid \cup {"confirmed"}

\* Safety and force majeure are treated as the weather is: the tourist bears
\* the risk.
OwnRisk == {"weather"}
Reasons == OwnRisk \cup {"minimum", "other"}

TypeOK ==
    /\ policy \in Policies
    /\ phase \in [Departures -> Far..Started]
    /\ dep \in [Departures -> Reasons \cup {"available"}]
    /\ resolved \in [Departures -> {"none", "reached", "staff_confirmed",
                                    "auto_cancelled", "staff_cancelled"}]
    /\ reserved \in [Departures -> Nat]
    /\ status \in [Bookings -> Live \cup {"holding", "expired", "cancelled",
                      "overbooked_refunded", "payment_mismatch"}]
    /\ at \in [Bookings -> Departures]
    /\ {review, paid, refunded} \subseteq SUBSET Bookings
    /\ moves \in Nat
    /\ Keys \subseteq Bookings \X Kinds
    /\ notif \in [Keys -> [status : {"none", "pending", "sent", "failed",
                                     "cancelled"},
                           gen : Nat, attempts : Nat,
                           due : Departures \cup {Now}]]

At(B, d)   == {b \in B : at[b] = d}
In(S)      == {b \in Bookings : status[b] \in S}
SeatsOf(B) == MapThenSumSet(LAMBDA b : Seats[b], B)

\* The bookings that were confirmed before fit in their departure.
ASSUME OpeningsAssumption ==
    \A o \in Openings :
        /\ o[1] \in [Bookings -> Live \cup {"holding", "expired", "cancelled",
                        "overbooked_refunded", "payment_mismatch"}]
        /\ o[2] \subseteq Bookings \X Kinds
        /\ o[3] \in Nat
        /\ SeatsOf({b \in Bookings : o[1][b] = "confirmed"}) <= Capacity

\* Mails of the bookings that were confirmed before
Opening(k) ==
    IF status[k[1]] # "confirmed" THEN NoRow
    ELSE CASE k[2] = "booking_confirmation" ->
                [Enqueued(NoRow, Now) EXCEPT !.status = "sent"]
           [] k[2] = "reminder_24h" -> Enqueued(NoRow, 1)
           [] OTHER -> NoRow

Init ==
    /\ policy \in Policies
    /\ \E o \in Openings :
          /\ status = o[1]
          /\ notif = [k \in o[2] |-> Opening(k)]
          /\ moves = o[3]
    /\ phase = [d \in Departures |-> Far]
    /\ dep = [d \in Departures |-> "available"]
    /\ resolved = [d \in Departures |-> "none"]
    /\ at = [b \in Bookings |-> 1]
    /\ reserved = [d \in Departures |->
          SeatsOf({b \in Bookings : d = 1 /\ status[b] = "confirmed"})]
    /\ review = {} /\ refunded = {} /\ paid = In({"confirmed"})
    /\ job = Idle
    /\ told = [k \in Keys |-> Untold]

-----------------------------------------------------------------------------
(* Cancelling a departure. *)

\* minimum_too_late and already_resolved
CanCancelForMinimum(d) == phase[d] < Margin /\ resolved[d] = "none"

\* cancel_departure.  What was paid is given back, or left for the team to
\* decide when the tourist bears the risk; unpaid deferred bookings end; a
\* payment under way in the widget is not touched.  One notice for each.
Cancel(d, why, who) ==
    LET booked == At(In({"confirmed"}), d)
        back   == IF why \in OwnRisk THEN {} ELSE booked
        unpaid == At(In(Unpaid), d) \cap Deferred
    IN
    /\ dep[d] = "available" /\ phase[d] < Started
    /\ why = "minimum" => CanCancelForMinimum(d)
    /\ dep' = [dep EXCEPT ![d] = why]
    /\ resolved' = [resolved EXCEPT ![d] =
          IF why = "minimum" THEN who ELSE @]
    /\ reserved' = [reserved EXCEPT ![d] = @ - SeatsOf(back)]
    /\ status' = [b \in Bookings |->
          IF b \in back \cup unpaid THEN "cancelled" ELSE status[b]]
    /\ review' = review \cup (booked \ back)
    /\ refunded' = refunded \cup back
    /\ notif' = [k \in Keys |->
          CASE k[2] = "departure_cancelled" /\ k[1] \in booked \cup unpaid ->
                  Enqueued(notif[k], Now)
            [] k[2] = "reminder_24h" /\ k[1] \in booked -> Withdrawn(notif[k])
            [] k[2] = "cancellation_confirmation" /\ k[1] \in back ->
                  Withdrawn(Inserted(notif[k], Now))
            [] OTHER -> notif[k]]
    /\ UNCHANGED <<policy, phase, at, paid, moves, job, told>>

\* cancelDepartureAction
CancelDeparture(d) == \E why \in Reasons : Cancel(d, why, "staff_cancelled")

-----------------------------------------------------------------------------
(* The minimum. *)

Resolve(d, how) ==
    /\ resolved' = [resolved EXCEPT ![d] = how]
    /\ UNCHANGED <<policy, phase, dep, reserved, status, at, review, refunded,
                   paid, moves, queue>>

\* Neither the job nor keep_departure decides for the deferred charge.
Decidable(d) ==
    /\ dep[d] = "available" /\ resolved[d] = "none"
    /\ At(In(Live), d) \cap Deferred = {}

\* Somebody holds seats, or paid an amount that has to be looked at.
CheckoutInProgress(d) == At(In({"holding", "payment_mismatch"}), d) # {}

Reached(d) == Minimum <= 1 \/ reserved[d] >= Minimum

\* resolve_immediate_minimum, run by resolve-minimum for every departure in
\* the window: an empty departure is cancelled whatever its minimum, one below
\* the minimum when the policy says so.
ResolveMinimum(d) ==
    /\ phase[d] = Window /\ Decidable(d)
    /\ IF At(In(Live), d) = {}
       THEN ~CheckoutInProgress(d) /\ Cancel(d, "minimum", "auto_cancelled")
       ELSE \/ Reached(d) /\ Resolve(d, "reached")
            \/ /\ ~Reached(d) /\ policy = "auto_cancel"
               /\ Cancel(d, "minimum", "auto_cancelled")

\* keep_departure
KeepDeparture(d) == Decidable(d) /\ Resolve(d, "staff_confirmed")

-----------------------------------------------------------------------------
(* Bookings. *)

\* Mutant: the cancelling functions leave the seats where they are.
KeepSeats(d, n) == reserved

SeatsBack(d, n) == [reserved EXCEPT ![d] = @ - n]

\* cancel_booking: confirmed and not under review.  The tourist or the staff
\* asks for it, and the policy says whether money goes back.
CancelBooking(b) ==
    /\ status[b] = "confirmed" /\ b \notin review
    /\ status' = [status EXCEPT ![b] = "cancelled"]
    /\ reserved' = SeatsBack(at[b], Seats[b])
    /\ refunded' \in {refunded, refunded \cup {b}}
    /\ notif' = [k \in Keys |->
          CASE k = <<b, "reminder_24h">> -> Withdrawn(notif[k])
            [] k = <<b, "cancellation_confirmation">> ->
                  Inserted(notif[k], Now)
            [] OTHER -> notif[k]]
    /\ UNCHANGED <<policy, phase, dep, resolved, at, review, paid, moves, job,
                   told>>

\* decideReviewAction: refund_reviewed_booking clears the mark and cancels
\* with the whole amount; close_reviewed_booking_without_refund does so with
\* none, and enqueues the mail again.
DecideReview(b, refund) ==
    /\ status[b] = "confirmed" /\ b \in review
    /\ review' = review \ {b}
    /\ status' = [status EXCEPT ![b] = "cancelled"]
    /\ reserved' = SeatsBack(at[b], Seats[b])
    /\ refunded' = IF refund THEN refunded \cup {b} ELSE refunded
    /\ notif' = [k \in Keys |->
          CASE k = <<b, "reminder_24h">> -> Withdrawn(notif[k])
            [] k = <<b, "cancellation_confirmation">> ->
                  IF refund THEN Inserted(notif[k], Now)
                  ELSE Enqueued(notif[k], Now)
            [] OTHER -> notif[k]]
    /\ UNCHANGED <<policy, phase, dep, resolved, at, paid, moves, job, told>>

\* create_hold_atomic and reschedule_booking count seats alike: what is held
\* is not free.
Held(d) == At(In({"holding"} \cup Unpaid), d)
Free(d) == Capacity - reserved[d] - SeatsOf(Held(d))

ReviewCleared(b) == review \ {b}

\* The reminder of the new date; with less than 24 h to go there is none.
ReminderMoved(row, d) ==
    IF phase[d] < Day THEN Enqueued(row, d) ELSE Withdrawn(row)

\* reschedule_booking, both departures locked
Reschedule(b, d) ==
    /\ moves > 0
    /\ status[b] = "confirmed" /\ at[b] # d
    /\ phase[at[b]] < Started \/ b \in review
    /\ dep[d] = "available" /\ phase[d] < Started
    /\ Free(d) >= Seats[b]
    /\ reserved' = [SeatsBack(at[b], Seats[b]) EXCEPT ![d] = @ + Seats[b]]
    /\ at' = [at EXCEPT ![b] = d]
    /\ review' = ReviewCleared(b)
    /\ moves' = moves - 1
    /\ notif' = [k \in Keys |->
          CASE k = <<b, "reminder_24h">> -> ReminderMoved(notif[k], d)
            [] k = <<b, "booking_rescheduled">> -> Enqueued(notif[k], Now)
            [] OTHER -> notif[k]]
    /\ UNCHANGED <<policy, phase, dep, resolved, status, refunded, paid, job,
                   told>>

\* The hold becomes a booking of the immediate checkout, or expires.
LeaveHold(b) ==
    /\ status[b] = "holding"
    /\ \E s \in {"pending_payment", "expired"} :
          status' = [status EXCEPT ![b] = s]
    /\ UNCHANGED <<policy, phase, dep, resolved, reserved, at, review, refunded,
                   paid, moves, queue>>

\* confirm_booking of the amount agreed: confirmed, or given back when the
\* departure was cancelled meanwhile or has no seat left.
Confirm(b) ==
    LET d == at[b]
        fits == reserved[d] + Seats[b] <= Capacity
    IN
    /\ status[b] \in Unpaid
    /\ IF dep[d] = "available" /\ fits
       THEN /\ status' = [status EXCEPT ![b] = "confirmed"]
            /\ reserved' = [reserved EXCEPT ![d] = @ + Seats[b]]
            /\ notif' = [k \in Keys |->
                  CASE k = <<b, "booking_confirmation">> ->
                          Inserted(notif[k], Now)
                    [] k = <<b, "reminder_24h">> /\ phase[d] < Day ->
                          Inserted(notif[k], d)
                    [] OTHER -> notif[k]]
            /\ UNCHANGED refunded
       ELSE /\ status' = [status EXCEPT ![b] =
                  IF dep[d] = "available" THEN "overbooked_refunded"
                  ELSE "cancelled"]
            /\ refunded' = refunded \cup {b}
            /\ notif' = [k \in Keys |->
                  IF k = <<b, "overbooked_refunded">> /\ dep[d] = "available"
                  THEN Inserted(notif[k], Now) ELSE notif[k]]
            /\ UNCHANGED reserved
    /\ paid' = paid \cup {b}
    /\ UNCHANGED <<policy, phase, dep, resolved, at, review, moves, job,
                   told>>

\* Nobody paid, or another amount was.
GiveUp(b) ==
    /\ status[b] \in Unpaid
    /\ \E s \in {"cancelled", "payment_mismatch"} :
          status' = [status EXCEPT ![b] = s]
    /\ UNCHANGED <<policy, phase, dep, resolved, reserved, at, review, refunded,
                   paid, moves, queue>>

\* Time: no departure overtakes an earlier one.
Tick(d) ==
    /\ phase[d] < Started
    /\ \A e \in Departures : e < d => phase[e] > phase[d]
    /\ phase' = [phase EXCEPT ![d] = @ + 1]
    /\ UNCHANGED <<policy, dep, resolved, reserved, status, at, review,
                   refunded, paid, moves, queue>>

-----------------------------------------------------------------------------
(* What the job finds when it comes to a row. *)

\* scheduled_for <= now(): a reminder, 24 h before the departure
Due(d) == d = Now \/ (d # Now /\ phase[d] >= Day)

\* A mail says which departure it is about and what becomes of the money.
Says(d, money) == [mail |-> "written", date |-> d, money |-> money]

\* prepareBookingEmail: a confirmation or a reminder, stale one hour after the
\* start
BookingEmail(b) ==
    (IF status[b] = "confirmed" THEN {Says(at[b], "nothing")} ELSE {NotNow})
      \cup (IF phase[at[b]] = Started THEN {NotNow} ELSE {})

\* prepareRescheduledEmail
RescheduledEmail(b) ==
    IF status[b] = "confirmed" THEN Says(at[b], "nothing") ELSE NotNow

\* departureOutcome: neither in review nor with a refund means, to this mail,
\* that the card was not charged.
DepartureOutcome(b) ==
    CASE b \in review             -> "review"
      [] b \in refunded \ review -> "refund"
      [] OTHER                    -> "no charge"

\* prepareDepartureNoticeEmail
DepartureNotice(b) ==
    IF dep[at[b]] = "available" THEN NotNow
    ELSE Says(at[b], DepartureOutcome(b))

\* loadChargeSummary: a deferred booking that was never charged
NoCharge(b) == b \in Deferred /\ b \notin paid

\* Mutant: the review that was closed is looked at before the refund.
ClosedFirst(b) ==
    IF dep[at[b]] \in OwnRisk THEN "closed"
    ELSE IF b \in refunded THEN "refund"
    ELSE IF NoCharge(b) THEN "no charge" ELSE "no refund"

\* refundLineFor
RefundLine(b) ==
    IF b \in refunded THEN "refund"
    ELSE IF dep[at[b]] \in OwnRisk THEN "closed"
    ELSE IF NoCharge(b) THEN "no charge" ELSE "no refund"

\* prepareCancellationEmail: no guard on the booking
CancellationEmail(b) == Says(at[b], RefundLine(b))

\* prepareOverbookedEmail: the refund, or the total of the booking
OverbookedEmail(b) == Says(at[b], "refund")

\* preparerFor.  Each reads the booking when it prepares the mail.
Findings(k) ==
    CASE k[2] \in {"booking_confirmation", "reminder_24h"} ->
            BookingEmail(k[1])
      [] k[2] = "booking_rescheduled" -> {RescheduledEmail(k[1])}
      [] k[2] = "departure_cancelled" -> {DepartureNotice(k[1])}
      [] k[2] = "cancellation_confirmation" -> {CancellationEmail(k[1])}
      [] k[2] = "overbooked_refunded" -> {OverbookedEmail(k[1])}

FetchPending ==
    /\ \E k \in Keys : Due(notif[k].due) /\ Fetch(k)
    /\ UNCHANGED ops

PrepareNext ==
    /\ job # Idle
    /\ \E about \in Findings(job.key) : Prepare(about)
    /\ UNCHANGED ops

DeliverNext == Deliver /\ UNCHANGED ops

Next ==
    \/ \E d \in Departures :
          CancelDeparture(d) \/ ResolveMinimum(d) \/ KeepDeparture(d) \/ Tick(d)
    \/ \E b \in Bookings :
          \/ CancelBooking(b) \/ LeaveHold(b) \/ Confirm(b) \/ GiveUp(b)
          \/ DecideReview(b, TRUE) \/ DecideReview(b, FALSE)
          \/ \E d \in Departures : Reschedule(b, d)
    \/ FetchPending \/ PrepareNext \/ DeliverNext

Spec == Init /\ [][Next]_vars

-----------------------------------------------------------------------------
(* Properties. *)

\* The seats of every departure are those of its confirmed bookings, and they
\* fit, through every cancellation and change of date (reschedule_booking,
\* cancel_departure).
SeatsMatch ==
    \A d \in Departures :
        /\ reserved[d] = SeatsOf(At(In({"confirmed"}), d))
        /\ reserved[d] <= Capacity

\* When a change of date is recorded as told, what the tourist was told is the
\* departure the booking is on, however many changes crossed the sending
\* ("el resultado viejo no pisa el pendiente nuevo").
LastMoveIsTold ==
    \A k \in Keys :
        k[2] = "booking_rescheduled" /\ notif[k].status = "sent" =>
            /\ told[k].gen = notif[k].gen
            /\ told[k].about.date = at[k[1]]

\* A departure that reached its minimum or that the staff keeps is not
\* cancelled for the minimum later, and none is within 24 hours; the job does
\* not cancel an empty one under somebody who is at its checkout, and whoever
\* had paid gets it back (resolve_immediate_minimum against keep_departure, a
\* confirmation and the panel).
MinimumIsFinal ==
    [][\A d \in Departures :
          dep[d] = "available" /\ dep'[d] = "minimum" =>
              /\ resolved[d] = "none" /\ phase[d] < Margin
              /\ At(In({"confirmed"}), d) \subseteq refunded'
              /\ resolved'[d] = "auto_cancelled" =>
                    /\ reserved[d] < Minimum \/ At(In(Live), d) = {}
                    /\ At(In({"holding"}), d) # {} => At(In(Live), d) # {}]_vars

\* The tourist whose paid departure was cancelled has been told, or will be,
\* or the mail failed for good: the notice is not dropped.
ReviewIsTold ==
    \A k \in Keys :
        k[2] = "departure_cancelled" /\ k[1] \in review =>
            notif[k].status # "cancelled"

\* The mail about a cancellation says what is done with the money: whoever reads
\* of a refund has one, whoever reads that there is none has none, and both stay
\* true after the mail left (prepareCancellationEmail, prepareDepartureNoticeEmail,
\* prepareOverbookedEmail).
MoneyIsTold ==
    \A k \in Keys :
        LET said == told[k].about IN
        said # NotNow =>
            /\ said.money = "refund" => k[1] \in refunded
            /\ said.money \in {"closed", "no refund"} =>
                  k[1] \in paid \ refunded

\* "dice que pasa con la plata: reembolso del 100 %, reserva en revision ... o
\* nada que devolver": whoever reads that the card was not charged never paid,
\* or has the money back.
NotChargedIsTrue ==
    \A k \in Keys :
        LET said == told[k].about IN
        said # NotNow /\ said.money = "no charge" =>
            k[1] \notin paid \ refunded

=============================================================================
