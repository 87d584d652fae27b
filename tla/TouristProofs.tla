---------------------------- MODULE TouristProofs ----------------------------
(***************************************************************************)
(* Proofs about what the tourist and the team are told of a booking of the *)
(* deferred charge: the mails of ChargeNotices, the pages of BookingPages  *)
(* and the tray of ChargeBoard, for every number of bookings and intents   *)
(* and every clock.  All three live beside BookingLife, so what one step   *)
(* of that life may do to one booking is settled first.                    *)
(***************************************************************************)
EXTENDS DepartureChargeProofs, ChargeNotices, BookingPages, ChargeBoard

-----------------------------------------------------------------------------
(* The books of one booking, and what one step may make of it.             *)

Paid(b) == \E k \in Ids : row[b, k] = "succeeded"

BookInv(b) ==
    /\ Paid(b) => status[b] \in {"confirmed", "cancelled"}
    /\ Confirmed(b) => Paid(b)
    /\ refund[b] # NoId => Cancelled(b) /\ Paid(b)
    /\ sched[b].awaiting # Null => sched[b].awaiting = sched[b].recovery
    /\ status[b] = "absent" => sched[b].attempts = 0

DepInv ==
    /\ dep.cancelled => \A b \in Bookings : ~Live(b)
    /\ dep.triggered => ~dep.closed
    /\ dep.deadline # Null <=> dep.triggered

LifeInv == DbTypeOK /\ (\A b \in Bookings : BookInv(b)) /\ DepInv

\* Why a booking that waits may be cancelled.
MayEnd(b) == \/ PastDeadline \/ Started
             \/ sched[b].recovery # Null /\ sched[b].recovery <= now
             \/ CancelledByHand(b) \/ StaffResolves

\* What becomes of the money of a booking.
MoneyTurn(b) ==
    /\ Cancelled(b) => Cancelled(b)'
    /\ Paid(b) => Paid(b)'
    /\ Paid(b)' /\ ~Paid(b) => Confirmed(b)' \/ refund'[b] # NoId
    /\ refund[b] # NoId => refund'[b] # NoId
    /\ Cancelled(b) /\ Paid(b) => refund'[b] = refund[b]

\* What becomes of its agenda.
AgendaTurn(b) ==
    /\ \/ sched'[b].attempts = sched[b].attempts
       \/ /\ sched'[b].attempts = sched[b].attempts + 1
          /\ status'[b] = "pending_minimum"
    /\ /\ sched'[b].attempts = sched[b].attempts /\ sched[b].attempts # 0
       /\ status'[b] = "pending_minimum" /\ sched'[b].recovery # Null
       => \/ status[b] = "pending_minimum" /\ sched'[b].recovery = sched[b].recovery
          \/ ~WithinAttempts
    /\ Live(b)' /\ sched[b].recovery # Null =>
          sched'[b].recovery = sched[b].recovery \/ PastDeadline

\* Where it goes.
StatusTurn(b) ==
    /\ status[b] # "absent" => status'[b] # "absent"
    /\ Live(b)' => Live(b) \/ status[b] = "absent"
    /\ Live(b) /\ Cancelled(b)' => MayEnd(b)

Turns(b) == MoneyTurn(b) /\ AgendaTurn(b) /\ StatusTurn(b) /\ BookInv(b)'

\* A step that charges nothing, gives nothing back and promises no new time.
Quiet(b) ==
    /\ refund'[b] = refund[b]
    /\ \A k \in Ids : row'[b, k] = "succeeded" <=> row[b, k] = "succeeded"
    /\ sched'[b].attempts = sched[b].attempts
    /\ sched'[b].recovery = sched[b].recovery
    /\ sched'[b].awaiting \in {sched[b].awaiting, Null}
    /\ \/ status'[b] = status[b]
       \/ status[b] = "absent" /\ status'[b] = "pending_minimum"
       \/ status[b] = "pending_minimum" /\ status'[b] = "pending_payment"
       \/ Live(b) /\ status'[b] = "cancelled" /\ MayEnd(b)

LEMMA QuietTurns ==
  ASSUME LifeInv, NEW b \in Bookings, Quiet(b) PROVE Turns(b)
<1>1. BookInv(b)
  BY DEF LifeInv
<1>2. Paid(b)' <=> Paid(b)
  BY DEF Quiet, Paid
<1> HIDE DEF Paid
<1>3. MoneyTurn(b)
  BY <1>1, <1>2 DEF Quiet, MoneyTurn, BookInv, Cancelled, Confirmed, Live
<1>4. AgendaTurn(b)
  BY <1>1 DEF Quiet, AgendaTurn, BookInv
<1>5. StatusTurn(b)
  BY <1>1 DEF Quiet, StatusTurn, BookInv, Cancelled, Live
<1>6. BookInv(b)'
  BY <1>1, <1>2 DEF Quiet, BookInv, Cancelled, Confirmed, Live
<1> QED BY <1>3, <1>4, <1>5, <1>6 DEF Turns

\* Nothing of the others changes when a function works on one booking.
OneBooking(b) ==
    /\ UNCHANGED <<now, dep>>
    /\ \A c \in Bookings \ {b} : Quiet(c) /\ status'[c] = status[c]
    /\ DbTypeOK' /\ Turns(b)

\* What one step makes of the clock and the departure.
DepTurn ==
    /\ now' \in {now, now + 1}
    /\ dep.deadline # Null => dep'.deadline = dep.deadline \/ PastDeadline
    /\ dep'.cancelled /\ ~dep.cancelled =>
          \A b \in Bookings : Live(b) => Cancelled(b)' /\ ~Paid(b)'

LifeTurn == LifeInv' /\ DepTurn /\ \A b \in Bookings : Turns(b)

LEMMA OneBookingTurn ==
  ASSUME LifeInv, NEW b \in Bookings, OneBooking(b), dep.cancelled => ~Live(b)'
  PROVE  LifeTurn
<1>1. \A c \in Bookings : Turns(c)
  BY QuietTurns DEF OneBooking
<1>2. DepInv'
  <2>1. dep.cancelled => \A c \in Bookings : ~Live(c)'
    <3> SUFFICES ASSUME dep.cancelled, NEW c \in Bookings PROVE ~Live(c)'
      OBVIOUS
    <3>1. CASE c = b
      BY <3>1
    <3>2. CASE c # b
      BY <3>2 DEF LifeInv, DepInv, OneBooking, Live
    <3> QED BY <3>1, <3>2
  <2> QED BY <2>1 DEF LifeInv, DepInv, OneBooking
<1>3. DepTurn
  BY DEF DepTurn, OneBooking
<1> QED BY <1>1, <1>2, <1>3 DEF LifeTurn, LifeInv, OneBooking, Turns

-----------------------------------------------------------------------------
(* The functions of the database, one lemma each.                          *)

\* A function that writes status, mark and agenda of one booking, and rows
\* that it does not settle.
Writes(b) ==
    /\ DbTypeOK'
    /\ UNCHANGED <<now, dep, refund>>
    /\ \A c \in Bookings, k \in Ids :
          row'[c, k] = "succeeded" <=> row[c, k] = "succeeded"
    /\ \A c \in Bookings \ {b} : status'[c] = status[c] /\ sched'[c] = sched[c]

LEMMA WritesOne ==
  ASSUME LifeInv, NEW b \in Bookings, Writes(b), Turns(b)
  PROVE  OneBooking(b)
<1>1. \A c \in Bookings \ {b} : Quiet(c)
  BY DEF Quiet, Writes
<1> QED BY <1>1 DEF Writes, OneBooking

LEMMA WritesQuiet ==
  ASSUME LifeInv, NEW b \in Bookings, Writes(b), Quiet(b)
  PROVE  OneBooking(b)
  BY QuietTurns, WritesOne

LEMMA CreateTurn ==
  ASSUME LifeInv, NEW b \in Bookings, CreateDeferredBooking(b)
  PROVE  LifeTurn
<1>1. Writes(b)
  <2>1. DbTypeOK'
    BY BookStep DEF LifeInv, DbStep
  <2> QED BY <2>1 DEF LifeInv, DbTypeOK, CreateDeferredBooking, Writes
<1>2. Quiet(b)
  BY DEF LifeInv, DbTypeOK, CreateDeferredBooking, Quiet
<1> QED BY <1>1, <1>2, WritesQuiet, OneBookingTurn DEF CreateDeferredBooking

LEMMA StartTurn ==
  ASSUME LifeInv, NEW b \in Bookings, NEW k \in Ids,
         CanStart(b, k), row[b, k] \in {"none", "pending"}, ChargeBookingStart(b, k)
  PROVE  LifeTurn
<1>1. Writes(b)
  <2>1. DbTypeOK'
    BY StartStep DEF LifeInv, DbStep
  <2>2. \A c \in Bookings, j \in Ids :
           row'[c, j] = "succeeded" <=> row[c, j] = "succeeded"
    BY DEF LifeInv, DbTypeOK, ChargeBookingStart
  <2> QED BY <2>1, <2>2 DEF LifeInv, DbTypeOK, ChargeBookingStart, Writes
<1>2. Quiet(b)
  <2>1. /\ sched'[b].attempts = sched[b].attempts
        /\ sched'[b].recovery = sched[b].recovery
        /\ sched'[b].awaiting = sched[b].awaiting
    BY DEF LifeInv, DbTypeOK, Agenda, ChargeBookingStart
  <2>2. status[b] = "pending_minimum" /\ status'[b] = "pending_payment"
    BY DEF LifeInv, DbTypeOK, CanStart, ChargeBookingStart
  <2> QED BY <1>1, <2>1, <2>2 DEF Quiet, Writes
<1> QED BY <1>1, <1>2, WritesQuiet, OneBookingTurn DEF CanStart

LEMMA MarksTurn ==
  ASSUME LifeInv, mark' \in [Bookings -> Marks],
         UNCHANGED <<now, status, sched, row, refund, event, dep>>
  PROVE  LifeTurn
<1>1. \A c \in Bookings : Turns(c)
  BY QuietTurns DEF Quiet
<1> QED BY <1>1 DEF LifeTurn, LifeInv, Turns, DbTypeOK, DepInv, DepTurn, Live

LEMMA RequiresActionTurn ==
  ASSUME LifeInv, NEW b \in Bookings, NEW k \in Ids, ChargeRequiresAction(b, k)
  PROVE  LifeTurn
<1>1. Writes(b)
  <2>1. DbTypeOK'
    BY RequiresActionStep DEF LifeInv, DbStep
  <2> QED BY <2>1 DEF LifeInv, DbTypeOK, ChargeRequiresAction, Writes
<1>2. Turns(b)
  <2>1. CASE sched' = sched
    <3>1. Quiet(b)
      BY <2>1 DEF ChargeRequiresAction, Quiet
    <3> QED BY <3>1, QuietTurns
  <2>2. CASE sched' # sched
    <3>1. /\ status[b] = "pending_payment" /\ UNCHANGED <<status, row, refund>>
          /\ sched[b].awaiting = Null
          /\ sched' = [sched EXCEPT ![b] = [@ EXCEPT !.awaiting = DeadlineOf(b),
                                                     !.recovery = DeadlineOf(b)]]
      BY <2>2 DEF ChargeRequiresAction
    <3>2. /\ sched'[b].attempts = sched[b].attempts
          /\ sched'[b].awaiting = DeadlineOf(b)
          /\ sched'[b].recovery = DeadlineOf(b)
      BY <3>1 DEF LifeInv, DbTypeOK, Agenda
    <3>3. sched[b].recovery # Null => DeadlineOf(b) = sched[b].recovery
      BY DEF DeadlineOf
    <3>4. BookInv(b)
      BY DEF LifeInv
    <3>5. UNCHANGED Paid(b)
      BY <3>1 DEF Paid
    <3> HIDE DEF Paid
    <3> QED BY <3>1, <3>2, <3>3, <3>4, <3>5
            DEF Turns, MoneyTurn, AgendaTurn, StatusTurn, BookInv, Cancelled,
                Confirmed, Live
  <2> QED BY <2>1, <2>2
<1>3. Live(b)' => Live(b)
  BY DEF ChargeRequiresAction, Live
<1> QED BY <1>1, <1>2, <1>3, WritesOne, OneBookingTurn DEF LifeInv, DepInv

LEMMA AttemptFailedTurn ==
  ASSUME LifeInv, NEW b \in Bookings, NEW k \in Ids, CanFailAttempt(b, k),
         NEW terminal \in BOOLEAN, ChargeAttemptFailed(b, k, terminal)
  PROVE  LifeTurn
<1> DEFINE n    == Least(sched[b].attempts + 1, MaxAttempts)
           next == IF DeadlineOf(b) > now /\ sched[b].attempts < 3
                   THEN "later" ELSE "none"
<1>1. /\ status' = [status EXCEPT ![b] = "pending_minimum"]
      /\ sched' = [sched EXCEPT ![b] = [@ EXCEPT !.attempts = n,
                      !.recovery = DeadlineOf(b), !.next = next,
                      !.awaiting = Null]]
      /\ row' = IF terminal THEN [row EXCEPT ![<<b, k>>] = "closed"] ELSE row
      /\ UNCHANGED <<now, refund, event, dep>>
  BY DEF ChargeAttemptFailed
<1>2. sched[b].attempts \in 0..MaxAttempts /\ MaxAttempts \in Nat
  BY BoundsAssumption DEF LifeInv, DbTypeOK, Agenda
<1>3. /\ \/ n = sched[b].attempts + 1
         \/ sched[b].attempts = MaxAttempts /\ n = MaxAttempts
      /\ n \in Nat
  BY <1>2 DEF Least
<1> HIDE DEF n, next
<1>4. status[b] = "pending_payment" /\ row[b, k] = "pending"
  BY DEF CanFailAttempt
<1>5. \A c \in Bookings, j \in Ids :
         row'[c, j] = "succeeded" <=> row[c, j] = "succeeded"
  BY <1>1, <1>4 DEF LifeInv, DbTypeOK
<1>6. DbTypeOK'
  BY AttemptFailedStep DEF LifeInv, DbStep
<1>7. Writes(b)
  BY <1>1, <1>5, <1>6 DEF LifeInv, DbTypeOK, Writes
<1>8. /\ sched'[b].attempts = n /\ sched'[b].awaiting = Null
      /\ sched'[b].recovery = DeadlineOf(b)
      /\ status'[b] = "pending_minimum"
  BY <1>1 DEF LifeInv, DbTypeOK, Agenda
<1>9. sched[b].recovery # Null => DeadlineOf(b) = sched[b].recovery
  BY DEF DeadlineOf
<1>10. sched[b].attempts = MaxAttempts => ~WithinAttempts
  BY DEF WithinAttempts
<1>11. BookInv(b)
  BY DEF LifeInv
<1>12. UNCHANGED Paid(b)
  BY <1>5 DEF Paid
<1> HIDE DEF Paid
<1>13. Turns(b)
  <2>1. AgendaTurn(b)
    BY <1>2, <1>3, <1>8, <1>9, <1>10 DEF AgendaTurn
  <2> QED BY <1>1, <1>4, <1>8, <1>11, <1>12, <2>1
          DEF Turns, MoneyTurn, StatusTurn, BookInv, Cancelled, Confirmed, Live
<1> QED BY <1>4, <1>7, <1>13, WritesOne, OneBookingTurn DEF LifeInv, DepInv, Live

LEMMA ReleaseTurn ==
  ASSUME LifeInv, NEW b \in Bookings, NEW k \in Ids, PastDeadline,
         ReleaseAuthorization(b, k), status[b] = "pending_payment"
  PROVE  LifeTurn
<1>1. /\ row' = IF row[b, k] = "pending"
                THEN [row EXCEPT ![<<b, k>>] = "closed"] ELSE row
      /\ status' = [status EXCEPT ![b] = "pending_minimum"]
      /\ sched' = [sched EXCEPT ![b] = [@ EXCEPT
                      !.started = "none", !.awaiting = Null, !.recovery = Null]]
      /\ UNCHANGED <<now, refund, event, dep>>
  BY DEF ReleaseAuthorization
<1>2. \A c \in Bookings, j \in Ids :
         row'[c, j] = "succeeded" <=> row[c, j] = "succeeded"
  BY <1>1 DEF LifeInv, DbTypeOK
<1>3. DbTypeOK'
  BY ReleaseStep DEF LifeInv, DbStep
<1>4. Writes(b)
  BY <1>1, <1>2, <1>3 DEF LifeInv, DbTypeOK, Writes
<1>5. /\ sched'[b].attempts = sched[b].attempts
      /\ sched'[b].awaiting = Null /\ sched'[b].recovery = Null
      /\ status'[b] = "pending_minimum"
  BY <1>1 DEF LifeInv, DbTypeOK, Agenda
<1>6. UNCHANGED Paid(b) /\ BookInv(b)
  BY <1>2 DEF Paid, LifeInv
<1> HIDE DEF Paid
<1>7. Turns(b)
  BY <1>1, <1>5, <1>6 DEF Turns, MoneyTurn, AgendaTurn, StatusTurn, BookInv,
                          Cancelled, Confirmed, Live
<1> QED BY <1>4, <1>7, WritesOne, OneBookingTurn DEF LifeInv, DepInv, Live

LEMMA ClosePendingTurn ==
  ASSUME LifeInv, NEW b \in Bookings, NEW k \in Ids,
         ClosePendingPayment(b, k) \/ RecordIntentClosed(b, k)
  PROVE  LifeTurn
<1>1. DbTypeOK'
  BY ClosePendingStep, IntentClosedStep DEF LifeInv, DbStep
<1>2. \A c \in Bookings, j \in Ids :
         row'[c, j] = "succeeded" <=> row[c, j] = "succeeded"
  BY DEF LifeInv, DbTypeOK, ClosePendingPayment, CanClosePending, RecordIntentClosed
<1>3. UNCHANGED <<now, status, sched, refund, dep>>
  BY DEF ClosePendingPayment, RecordIntentClosed
<1>4. Writes(b) /\ Quiet(b)
  BY <1>1, <1>2, <1>3 DEF Writes, Quiet
<1> QED BY <1>3, <1>4, WritesQuiet, OneBookingTurn DEF LifeInv, DepInv, Live

\* An unpaid booking is cancelled.
LEMMA CancelTurn ==
  ASSUME LifeInv, NEW b \in Bookings, DbTypeOK', Live(b), MayEnd(b),
         status' = [status EXCEPT ![b] = "cancelled"],
         NEW r \in {"failed", "closed"}, row' = RowsWhenCancelled(b, r),
         \/ sched' = [sched EXCEPT ![b].next = "none"]
         \/ sched' = [sched EXCEPT ![b] =
                          [@ EXCEPT !.next = "none", !.awaiting = Null]],
         UNCHANGED <<now, refund, dep>>
  PROVE  LifeTurn
<1>1. \A c \in Bookings, j \in Ids :
         row'[c, j] = "succeeded" <=> row[c, j] = "succeeded"
  BY RowsWhenCancelledLemma DEF LifeInv
<1>2. /\ \A c \in Bookings \ {b} : status'[c] = status[c] /\ sched'[c] = sched[c]
      /\ status'[b] = "cancelled"
  BY DEF LifeInv, DbTypeOK
<1>3. /\ sched'[b].attempts = sched[b].attempts
      /\ sched'[b].recovery = sched[b].recovery
      /\ sched'[b].awaiting \in {sched[b].awaiting, Null}
  <2>1. CASE sched' = [sched EXCEPT ![b].next = "none"]
    BY <2>1 DEF LifeInv, DbTypeOK, Agenda
  <2>2. CASE sched' = [sched EXCEPT ![b] = [@ EXCEPT !.next = "none",
                                                     !.awaiting = Null]]
    BY <2>2 DEF LifeInv, DbTypeOK, Agenda
  <2> QED BY <2>1, <2>2
<1>4. Writes(b)
  BY <1>1, <1>2 DEF Writes
<1>5. Quiet(b)
  BY <1>1, <1>2, <1>3 DEF Quiet
<1> QED BY <1>2, <1>4, <1>5, WritesQuiet, OneBookingTurn DEF Live

LEMMA CancelUnpaidTurn ==
  ASSUME LifeInv, NEW b \in Bookings, CanCancelUnpaid(b), CancelUnpaidBooking(b),
         MayEnd(b)
  PROVE  LifeTurn
<1>1. DbTypeOK' /\ Live(b)
  BY CancelUnpaidStep DEF LifeInv, DbStep, CanCancelUnpaid, Live
<1> QED BY <1>1, CancelTurn DEF CancelUnpaidBooking

LEMMA CancelInFlightTurn ==
  ASSUME LifeInv, NEW b \in Bookings,
         NEW reason, CanCancelInFlight(b, reason), CancelChargeInFlight(b)
  PROVE  LifeTurn
<1>1. DbTypeOK' /\ Live(b)
  BY CancelInFlightStep DEF LifeInv, DbStep, CanCancelInFlight, Live
<1>2. BookInv(b) /\ ReasonIsDue(b, reason)
  BY DEF LifeInv, CanCancelInFlight
<1>3. MayEnd(b)
  BY <1>2 DEF ReasonIsDue, MayEnd, BookInv
<1> QED BY <1>1, <1>3, CancelTurn DEF CancelChargeInFlight

LEMMA CancelAuthorizedTurn ==
  ASSUME LifeInv, NEW b \in Bookings, CanCancelAuthorized(b),
         CancelAuthorizedBooking(b)
  PROVE  LifeTurn
<1>1. DbTypeOK' /\ Live(b)
  BY CancelAuthorizedStep DEF LifeInv, DbStep, CanCancelAuthorized, Live
<1>2. MayEnd(b)
  BY DEF MayEnd, CancelledByHand
<1> QED BY <1>1, <1>2, CancelTurn DEF CancelAuthorizedBooking

LEMMA PaidIdLemma ==
  ASSUME NEW b \in Bookings
  PROVE  /\ PaidId(b) \in Ids \cup {NoId}
         /\ PaidId(b) # NoId <=> Paid(b)
         /\ PaidId(b)' # NoId <=> Paid(b)'
<1>1. NoId \notin Ids
  BY BoundsAssumption DEF NoId, Ids
<1>2. IF Paid(b) THEN PaidId(b) \in Ids ELSE PaidId(b) = NoId
  BY DEF PaidId, Paid
<1>3. IF Paid(b)' THEN PaidId(b)' \in Ids ELSE PaidId(b)' = NoId
  BY DEF PaidId, Paid
<1> QED BY <1>1, <1>2, <1>3

\* A charge of a booking that was never charged is seen: it is confirmed, or
\* given back if the booking is cancelled.  Seen again, it changes nothing.
LEMMA SettleTurn ==
  ASSUME LifeInv, NEW b \in Bookings, Settle(b)
  PROVE  LifeTurn
<1>1. PICK k \in Ids : /\ row[b, k] # "none"
                       /\ Unsettled(b, k) => PaidId(b) = NoId
                       /\ ConfirmBooking(b, k)
  BY DEF Settle
<1> DEFINE out == ConfirmOutcome(b, k)
<1>2. BookInv(b) /\ (dep.cancelled => ~Live(b))
  BY DEF LifeInv, DepInv
<1>3. Paid(b) => PaidId(b) # NoId
  BY PaidIdLemma
<1>4. Unsettled(b, k) => ~Paid(b)
  BY <1>1, <1>3
<1>5. out \in {"already_processed", "ignored"} \/ Unsettled(b, k)
  BY DEF ConfirmOutcome, Unsettled
<1>6. /\ out = "confirmed" => Live(b)
      /\ out = "late_payment_refunded" => Cancelled(b)
      /\ out = "late_payment_refund_blocked" => Cancelled(b) /\ refund[b] # NoId
      /\ out = "duplicate_payment" => Confirmed(b)
      /\ out \in {"already_processed", "ignored", "confirmed", "duplicate_payment",
                  "late_payment_refunded", "late_payment_refund_blocked"}
  BY <1>2 DEF ConfirmOutcome, Cancelled, Confirmed
<1>7. /\ out # "duplicate_payment" /\ out # "late_payment_refund_blocked"
  BY <1>2, <1>4, <1>5, <1>6 DEF BookInv
<1>8. out \in {"already_processed", "ignored", "confirmed", "late_payment_refunded"}
  BY <1>6, <1>7
<1>9. DbTypeOK'
  BY <1>1, ConfirmEffect DEF LifeInv, Confirms
<1>10. /\ status' = [status EXCEPT ![b] = IF out = "confirmed" THEN "confirmed"
                                          ELSE @]
       /\ row' = IF out \in {"already_processed", "ignored"} THEN row
                 ELSE [row EXCEPT ![<<b, k>>] = "succeeded"]
       /\ refund' = IF out = "late_payment_refunded"
                    THEN [refund EXCEPT ![b] = k] ELSE refund
       /\ sched' = IF out = "confirmed"
                   THEN [sched EXCEPT ![b] = [@ EXCEPT !.next = "none",
                                                       !.awaiting = Null]]
                   ELSE sched
       /\ UNCHANGED <<now, mark, dep>>
  BY <1>1, <1>2 DEF ConfirmBooking
<1> HIDE DEF out
<1>11. \A c \in Bookings \ {b} :
          /\ status'[c] = status[c] /\ sched'[c] = sched[c] /\ refund'[c] = refund[c]
          /\ \A j \in Ids : row'[c, j] = row[c, j]
  BY <1>10 DEF LifeInv, DbTypeOK
<1>12. CASE out \in {"already_processed", "ignored"}
  <2>1. \A c \in Bookings : Quiet(c) /\ status'[c] = status[c]
    BY <1>10, <1>12 DEF LifeInv, DbTypeOK, Quiet
  <2>2. OneBooking(b)
    BY <1>9, <1>10, <2>1, QuietTurns DEF OneBooking
  <2> QED BY <1>2, <2>1, <2>2, OneBookingTurn DEF Live
<1>13. CASE out \in {"confirmed", "late_payment_refunded"}
  <2>1. ~Paid(b) /\ Paid(b)'
    <3>1. row'[b, k] = "succeeded"
      BY <1>10, <1>13 DEF LifeInv, DbTypeOK
    <3> QED BY <1>4, <1>5, <1>13, <3>1 DEF Paid
  <2>2. /\ out = "confirmed" => status'[b] = "confirmed" /\ refund'[b] = refund[b]
        /\ out = "late_payment_refunded" =>
              status'[b] = "cancelled" /\ refund'[b] = k
    BY <1>6, <1>10 DEF LifeInv, DbTypeOK, Cancelled
  <2>3. /\ sched'[b].attempts = sched[b].attempts
        /\ sched'[b].recovery = sched[b].recovery
        /\ sched'[b].awaiting \in {sched[b].awaiting, Null}
    BY <1>10 DEF LifeInv, DbTypeOK, Agenda
  <2>4. k # NoId
    BY DEF Ids, NoId
  <2> HIDE DEF Paid
  <2>5. refund[b] = NoId
    BY <1>2, <2>1 DEF BookInv
  <2>6. MoneyTurn(b)
    BY <1>6, <1>13, <2>1, <2>2, <2>4, <2>5 DEF MoneyTurn, Cancelled, Confirmed, Live
  <2>7. AgendaTurn(b) /\ StatusTurn(b)
    BY <1>6, <1>13, <2>2, <2>3 DEF AgendaTurn, StatusTurn, Cancelled, Live
  <2>8. BookInv(b)'
    BY <1>2, <1>13, <2>1, <2>2, <2>3, <2>5 DEF BookInv, Cancelled, Confirmed
  <2>9. \A c \in Bookings \ {b} : Quiet(c)
    BY <1>11 DEF Quiet
  <2>10. OneBooking(b)
    BY <1>9, <1>10, <1>11, <2>6, <2>7, <2>8, <2>9 DEF OneBooking, Turns
  <2>11. ~Live(b)'
    BY <1>13, <2>2 DEF Live
  <2> QED BY <2>10, <2>11, OneBookingTurn
<1> QED BY <1>8, <1>12, <1>13

\* cancel_booking: all of the charge is given back, or nothing.
LEMMA ChargedCancelTurn ==
  ASSUME LifeInv, NEW b \in Bookings, Confirmed(b),
         status' = [status EXCEPT ![b] = "cancelled"],
         refund' = RefundWhenCancelled({b}) \/ refund' = refund,
         UNCHANGED <<now, mark, sched, row, event, dep>>
  PROVE  /\ LifeTurn
         /\ Paid(b)' /\ refund[b] = NoId
         /\ refund' = RefundWhenCancelled({b}) => refund'[b] # NoId
<1>1. BookInv(b)
  BY DEF LifeInv
<1>2. refund[b] = NoId /\ Paid(b) /\ PaidId(b) # NoId /\ PaidId(b) \in Ids \cup {NoId}
  BY <1>1, PaidIdLemma DEF BookInv, Cancelled, Confirmed
<1>3. /\ \A c \in Bookings \ {b} : refund'[c] = refund[c]
      /\ refund' = refund \/ refund'[b] = PaidId(b)
      /\ refund' = RefundWhenCancelled({b}) => refund'[b] = PaidId(b)
      /\ refund' \in [Bookings -> Ids \cup {NoId}]
  BY <1>2 DEF LifeInv, DbTypeOK, RefundWhenCancelled
<1>4. /\ \A c \in Bookings \ {b} : status'[c] = status[c]
      /\ status'[b] = "cancelled"
      /\ status' \in [Bookings -> Statuses]
  BY DEF LifeInv, DbTypeOK, Statuses
<1>5. \A c \in Bookings \ {b} : Quiet(c)
  BY <1>3, <1>4 DEF Quiet
<1>6. DbTypeOK'
  BY <1>3, <1>4 DEF LifeInv, DbTypeOK
<1>7. UNCHANGED Paid(b)
  BY DEF Paid
<1>8. Turns(b)
  <2> HIDE DEF Paid
  <2> QED BY <1>1, <1>2, <1>4, <1>3, <1>7
          DEF Turns, MoneyTurn, AgendaTurn, StatusTurn, BookInv, Cancelled,
              Confirmed, Live
<1>9. OneBooking(b) /\ ~Live(b)'
  BY <1>4, <1>5, <1>6, <1>8 DEF OneBooking, Live
<1> QED BY <1>2, <1>3, <1>7, <1>9, OneBookingTurn

LEMMA TickTurn ==
  ASSUME LifeInv, Tick
  PROVE  LifeTurn
<1>1. DbTypeOK'
  BY TickStep DEF LifeInv, DbStep
<1>2. \A c \in Bookings : /\ sched'[c].attempts = sched[c].attempts
                          /\ sched'[c].recovery = sched[c].recovery
                          /\ sched'[c].awaiting = sched[c].awaiting
  <2>1. PICK due \in SUBSET {b \in Bookings : sched[b].next = "later"} :
           sched' = [b \in Bookings |->
             [sched[b] EXCEPT !.started = IF @ = "recent" THEN "old" ELSE @,
                              !.next    = IF b \in due THEN "due" ELSE @]]
    BY DEF Tick
  <2>2. \A c \in Bookings : DOMAIN sched[c] =
           {"started", "attempts", "next", "recovery", "awaiting"}
    BY DEF LifeInv, DbTypeOK, Agenda
  <2> QED BY <2>1, <2>2
<1>3. \A c \in Bookings : Turns(c)
  BY <1>2, QuietTurns DEF Tick, Quiet
<1> QED BY <1>1, <1>3 DEF Tick, LifeTurn, LifeInv, Turns, DepInv, DepTurn, Live

\* resolve_departure_minimum: whoever was charged gets it back, and whoever was
\* not is cancelled without a charge.
LEMMA ResolveTurn ==
  ASSUME LifeInv, NEW r \in Resolutions, ResolveDepartureMinimum(r),
         Cancelling(r) => StaffResolves \/ PastDeadline
  PROVE  LifeTurn
<1>1. DbTypeOK'
  BY ResolveStep DEF LifeInv, DbStep
<1>2. /\ dep'.deadline = dep.deadline /\ dep'.triggered = dep.triggered
      /\ dep'.closed = dep.closed
      /\ dep'.cancelled = (dep.cancelled \/ Cancelling(r))
      /\ now' = now
  BY DEF ResolveDepartureMinimum, LifeInv, DbTypeOK, Departure
<1>3. CASE ~Cancelling(r)
  <2>1. \A c \in Bookings : Turns(c) /\ status'[c] = status[c]
    BY <1>3, QuietTurns DEF ResolveDepartureMinimum, Quiet
  <2> QED BY <1>1, <1>2, <1>3, <2>1
          DEF LifeTurn, LifeInv, Turns, DepInv, DepTurn, Live
<1>4. CASE Cancelling(r)
  <2>1. /\ status' = [b \in Bookings |->
              IF status[b] = "absent" THEN "absent" ELSE "cancelled"]
        /\ refund' = RefundWhenCancelled(
                         {b \in Bookings : status[b] = "confirmed"})
        /\ row' = [p \in Bookings \X Ids |->
              IF Live(p[1]) /\ row[p] = "pending" THEN "failed" ELSE row[p]]
        /\ sched' = [b \in Bookings |->
              IF Live(b) THEN [sched[b] EXCEPT !.next = "none",
                                               !.awaiting = Null]
              ELSE sched[b]]
    BY <1>4 DEF ResolveDepartureMinimum
  <2>2. \A c \in Bookings, j \in Ids :
           row'[c, j] = "succeeded" <=> row[c, j] = "succeeded"
    BY <2>1 DEF LifeInv, DbTypeOK
  <2>3. ASSUME NEW c \in Bookings
        PROVE  /\ Turns(c) /\ ~Live(c)'
               /\ Live(c) => Cancelled(c)' /\ ~Paid(c)'
    <3>1. BookInv(c) /\ UNCHANGED Paid(c)
      BY <2>2 DEF LifeInv, Paid
    <3>2. /\ sched'[c].attempts = sched[c].attempts
          /\ sched'[c].recovery = sched[c].recovery
          /\ sched'[c].awaiting \in {sched[c].awaiting, Null}
      BY <2>1 DEF LifeInv, DbTypeOK, Agenda
    <3>3. MayEnd(c)
      BY <1>4 DEF MayEnd
    <3>4. status'[c] = IF status[c] = "absent" THEN "absent" ELSE "cancelled"
      BY <2>1
    <3>5. CASE ~Confirmed(c)
      <4>1. refund'[c] = refund[c]
        BY <2>1, <3>5 DEF RefundWhenCancelled, Confirmed
      <4>2. status[c] \in Statuses
        BY DEF LifeInv, DbTypeOK
      <4>3. Quiet(c)
        BY <2>2, <3>2, <3>3, <3>4, <3>5, <4>1, <4>2
           DEF Quiet, Statuses, Live, Confirmed
      <4> HIDE DEF Paid
      <4> QED BY <3>1, <3>4, <4>3, QuietTurns DEF BookInv, Live, Cancelled
    <3>6. CASE Confirmed(c)
      <4>1. refund[c] = NoId /\ refund'[c] = PaidId(c) /\ PaidId(c) # NoId
        <5> HIDE DEF Paid
        <5>1. refund[c] = NoId /\ Paid(c)
          BY <3>1, <3>6 DEF BookInv, Cancelled, Confirmed
        <5> QED BY <2>1, <3>6, <5>1, PaidIdLemma DEF RefundWhenCancelled, Confirmed
      <4> HIDE DEF Paid
      <4> QED BY <3>1, <3>2, <3>4, <3>6, <4>1
              DEF Turns, MoneyTurn, AgendaTurn, StatusTurn, BookInv, Cancelled,
                  Confirmed, Live
    <3> QED BY <3>5, <3>6
  <2>4. DepInv' /\ DepTurn
    BY <1>2, <2>3 DEF LifeInv, DepInv, DepTurn
  <2> QED BY <1>1, <2>3, <2>4 DEF LifeTurn, LifeInv, Turns
<1> QED BY <1>3, <1>4

LEMMA OpenTurn ==
  ASSUME LifeInv, CanOpenCharge, OpenDepartureCharge
  PROVE  LifeTurn
<1>1. DbTypeOK'
  BY OpenStep DEF LifeInv, DbStep
<1>2. CycleDeadline # Null
  BY TimesLemma DEF LifeInv, DbTypeOK, Times, Null
<1>3. /\ dep'.deadline # Null /\ dep'.triggered /\ ~dep'.closed
      /\ dep'.cancelled = dep.cancelled
      /\ dep.deadline = Null
  BY <1>2 DEF OpenDepartureCharge, CanOpenCharge, LifeInv, DbTypeOK, Departure, DepInv
<1>4. \A c \in Bookings : Turns(c) /\ status'[c] = status[c]
  BY QuietTurns DEF OpenDepartureCharge, Quiet
<1> QED BY <1>1, <1>3, <1>4
        DEF OpenDepartureCharge, LifeTurn, LifeInv, Turns, DepInv, DepTurn, Live

LEMMA CloseTurn ==
  ASSUME LifeInv, PastDeadline, CloseDepartureCharge
  PROVE  LifeTurn
<1>1. DbTypeOK'
  BY CloseStep DEF LifeInv, DbStep
<1>2. /\ dep'.deadline # Null <=> dep'.triggered
      /\ dep'.triggered => ~dep'.closed
      /\ dep'.cancelled = dep.cancelled
  BY DEF CloseDepartureCharge, LifeInv, DbTypeOK, Departure, DepInv
<1>3. \A c \in Bookings : Turns(c) /\ status'[c] = status[c]
  BY QuietTurns DEF CloseDepartureCharge, Quiet
<1> QED BY <1>1, <1>2, <1>3
        DEF CloseDepartureCharge, LifeTurn, LifeInv, Turns, DepInv, DepTurn, Live

LEMMA RestTurn == ASSUME LifeInv, UNCHANGED db PROVE LifeTurn
<1>1. mark' \in [Bookings -> Marks]
  BY DEF db, LifeInv, DbTypeOK
<1> QED BY <1>1, MarksTurn DEF db

\* Every step of the life of the bookings.
LEMMA LifeTurns ==
  ASSUME LifeInv, Life \/ CancelledElsewhere
  PROVE  LifeTurn
<1>1. ASSUME NEW b \in Bookings, Charge(b) PROVE LifeTurn
  <2>1. PICK k \in Ids :
        \/ CanStart(b, k) /\ row[b, k] \in {"none", "pending"}
           /\ ChargeBookingStart(b, k)
        \/ CanAuthorize(b, k) /\ RecordAuthorization(b, k)
        \/ row[b, k] = "pending" /\ ChargeRequiresAction(b, k)
        \/ /\ CanFailAttempt(b, k)
           /\ \E terminal \in BOOLEAN : ChargeAttemptFailed(b, k, terminal)
        \/ CanClosePending(b, k) /\ ClosePendingPayment(b, k)
    BY <1>1 DEF Charge
  <2>2. CASE RecordAuthorization(b, k)
    <3>1. mark' \in [Bookings -> Marks]
      BY <2>2, AuthorizeStep DEF LifeInv, DbStep, DbTypeOK
    <3> QED BY <2>2, <3>1, MarksTurn DEF RecordAuthorization
  <2> QED BY <2>1, <2>2, StartTurn, RequiresActionTurn, AttemptFailedTurn,
             ClosePendingTurn
<1>2. ASSUME NEW b \in Bookings, MarkOf(b) PROVE LifeTurn
  <2>1. CASE \/ ClaimAuthorizationCancel(b) \/ MarkCaptureStarted(b)
             \/ ClearStaleMarks(b) \/ Unclaim(b)
    <3>1. mark' \in [Bookings -> Marks]
      BY <2>1, MarkingSteps DEF LifeInv, DbStep, DbTypeOK
    <3> QED BY <2>1, <3>1, MarksTurn
            DEF ClaimAuthorizationCancel, MarkCaptureStarted, ClearStaleMarks, Unclaim
  <2>2. CASE /\ mark' \in {[mark EXCEPT ![b].claim = "stale"],
                           [mark EXCEPT ![b].capture = "stale"]}
             /\ UNCHANGED <<now, status, sched, row, refund, event, dep>>
    <3>1. mark' \in [Bookings -> Marks]
      <4>1. mark \in [Bookings -> Marks]
        BY DEF LifeInv, DbTypeOK
      <4>2. /\ [mark[b] EXCEPT !.claim = "stale"] \in Marks
            /\ [mark[b] EXCEPT !.capture = "stale"] \in Marks
        BY <4>1 DEF Marks, MarkAges
      <4> QED BY <2>2, <4>1, <4>2
    <3> QED BY <2>2, <3>1, MarksTurn
  <2> QED BY <1>2, <2>1, <2>2 DEF MarkOf
<1>3. ASSUME NEW b \in Bookings, Expire(b) PROVE LifeTurn
  <2>1. CASE /\ CanCancelUnpaid(b) /\ (RecoveryExpired(b) \/ Started)
             /\ CancelUnpaidBooking(b)
    <3>1. MayEnd(b)
      BY <2>1 DEF RecoveryExpired, MayEnd
    <3> QED BY <2>1, <3>1, CancelUnpaidTurn
  <2>2. CASE /\ \E reason \in {"action_expired", "recovery_expired",
                               "departure_started"} : CanCancelInFlight(b, reason)
             /\ CancelChargeInFlight(b)
    BY <2>2, CancelInFlightTurn
  <2> QED BY <1>3, <2>1, <2>2 DEF Expire
<1>4. ASSUME NEW b \in Bookings, CancelledByHand(b) PROVE LifeTurn
  <2>1. CASE CanCancelUnpaid(b) /\ CancelUnpaidBooking(b)
    BY <1>4, <2>1, CancelUnpaidTurn DEF MayEnd
  <2>2. CASE CanCancelAuthorized(b) /\ CancelAuthorizedBooking(b)
    BY <2>2, CancelAuthorizedTurn
  <2>3. CASE CancelBooking(b)
    BY <2>3, ChargedCancelTurn DEF CancelBooking, Confirmed
  <2> QED BY <1>4, <2>1, <2>2, <2>3 DEF CancelledByHand
<1>5. CASE Cycle
  <2>1. CASE PastDeadline /\ \E b \in Bookings : \E k \in PendingIds(b) :
                                ReleaseAuthorization(b, k)
    <3>1. PICK b \in Bookings, k \in Ids : ReleaseAuthorization(b, k)
      BY <2>1 DEF PendingIds
    <3>2. CASE status[b] = "pending_payment"
      BY <2>1, <3>1, <3>2, ReleaseTurn
    <3>3. CASE status[b] # "pending_payment"
      BY <3>1, <3>3, RestTurn DEF ReleaseAuthorization
    <3> QED BY <3>2, <3>3
  <2>2. CASE PastDeadline /\ ResolveDepartureMinimum("auto_cancelled")
    BY <2>2, ResolveTurn DEF Resolutions
  <2>3. CASE ResolveDepartureMinimum("reached")
    BY <2>3, ResolveTurn DEF Resolutions, Cancelling
  <2> QED BY <1>5, <2>1, <2>2, <2>3, OpenTurn, CloseTurn DEF Cycle
<1>6. CASE StaffResolves
  <2>1. PICK r \in {"staff_confirmed", "staff_cancelled"} : ResolveDepartureMinimum(r)
    BY <1>6 DEF StaffResolves
  <2> QED BY <1>6, <2>1, ResolveTurn DEF Resolutions
<1>7. ASSUME NEW b \in Bookings, Sweep(b) PROVE LifeTurn
  BY <1>7, ClosePendingTurn DEF Sweep
<1> QED BY <1>1, <1>2, <1>3, <1>4, <1>5, <1>6, <1>7, CreateTurn, SettleTurn, TickTurn
        DEF Life, CancelledElsewhere

LEMMA LifeInit == DbInit => LifeInv
<1> SUFFICES ASSUME DbInit PROVE LifeInv
  OBVIOUS
<1>1. DbTypeOK
  <2>1. NoMarks \in Marks /\ NoAgenda \in Agenda
    BY BoundsAssumption DEF NoMarks, Marks, MarkAges, NoAgenda, Agenda
  <2>2. dep \in Departure
    BY DEF DbInit, Departure, Resolutions
  <2>3. now \in Times
    BY TimesAssumption DEF DbInit, Times
  <2> QED BY <2>1, <2>2, <2>3 DEF DbInit, DbTypeOK, Statuses, RowStates
<1> QED BY <1>1 DEF LifeInv, DbInit, BookInv, DepInv, Paid, Confirmed, NoAgenda

\* The books of a booking through its life: who is confirmed was charged, and
\* who was charged is confirmed or cancelled; only a charge of a cancelled
\* booking is given back; a cancelled departure has nobody who waits; and the
\* time to authenticate is the time to change the card.
THEOREM LifeInvariant == LifeSpec => []LifeInv
<1>1. LifeInv /\ [Life \/ CancelledElsewhere]_db => LifeInv'
  BY LifeTurns, RestTurn DEF LifeTurn
<1> QED BY <1>1, LifeInit, PTL DEF LifeSpec

-----------------------------------------------------------------------------
(* The tray of the departures.                                             *)

LEMMA SeatsCounts ==
  /\ IsFiniteSet(Bookings)
  /\ Seats \in [Bookings -> Nat]
  /\ \A b \in Bookings : Seats[b] > 0
  /\ \A B \in SUBSET Bookings : SeatsOf(B) = Sum(Seats, B) /\ SeatsOf(B) \in Nat
<1>1. IsFiniteSet(Bookings)
  BY BoundsAssumption, FS_Interval DEF Bookings
<1>2. Seats \in [Bookings -> Nat] /\ \A b \in Bookings : Seats[b] > 0
  BY BoundsAssumption
<1>3. ASSUME NEW B \in SUBSET Bookings
      PROVE  SeatsOf(B) = Sum(Seats, B) /\ SeatsOf(B) \in Nat
  <2>1. SeatsOf(B) = Sum(Seats, B)
    BY DEF SeatsOf, Sum
  <2> QED BY <1>1, <1>2, <2>1, SumType
<1> QED BY <1>1, <1>2, <1>3

LEMMA BoardRight == LifeInv => NothingWaitsUnseen
<1> SUFFICES ASSUME LifeInv PROVE NothingWaitsUnseen
  OBVIOUS
<1>1. AuthorizedTickets = Authorized
  <2> DEFINE C == {b \in Bookings : status[b] = "confirmed"}
             A == {b \in Bookings : /\ status[b] = "pending_payment"
                                    /\ mark[b].auth
                                    /\ mark[b].claim = "none"}
             Both == {b \in Bookings :
                        \/ Confirmed(b)
                        \/ /\ status[b] = "pending_payment"
                           /\ mark[b].auth /\ mark[b].claim = "none"}
  <2>1. Both = C \cup A /\ C \cap A = {} /\ C \in SUBSET Bookings
          /\ A \in SUBSET Bookings /\ Both \in SUBSET Bookings
    BY DEF Confirmed
  <2>2. AuthorizedTickets = SeatsOf(Both) /\ Authorized = SeatsOf(C) + SeatsOf(A)
    BY DEF AuthorizedTickets, Authorized, Captured
  <2> HIDE DEF Both, C, A
  <2>3. Sum(Seats, C \cup A) = Sum(Seats, C) + Sum(Seats, A)
    BY <2>1, SeatsCounts, SumUnion
  <2> QED BY <2>1, <2>2, <2>3, SeatsCounts
<1>2. ASSUME EngineWaits, IsListed, NEW b \in Bookings, Live(b)
      PROVE  InDecisionTray /\ CanResolve("staff_confirmed")
  <2>1. LiveTickets > 0
    <3>1. b \in MayCome /\ MayCome \in SUBSET Bookings
      BY <1>2 DEF MayCome
    <3>2. Sum(Seats, MayCome) = Seats[b] + Sum(Seats, MayCome \ {b})
      BY <3>1, SeatsCounts, SumRemove
    <3>3. Sum(Seats, MayCome \ {b}) \in Nat /\ Seats[b] \in Nat /\ Seats[b] > 0
      BY <3>1, SeatsCounts, SumType
    <3>4. LiveTickets = Sum(Seats, MayCome)
      BY <3>1, SeatsCounts DEF LiveTickets
    <3> HIDE DEF MayCome
    <3> QED BY <3>2, <3>3, <3>4
  <2>2. ChargeState = "awaiting_decision"
    BY <1>2 DEF EngineWaits, PastDeadline, ChargeState, LifeInv, DepInv
  <2>3. CanResolve("staff_confirmed")
    BY <1>2 DEF EngineWaits, PastDeadline, CanResolve, Cancelling
  <2> QED BY <1>2, <2>1, <2>2, <2>3 DEF InDecisionTray
<1> QED BY <1>1, <1>2 DEF NothingWaitsUnseen

\* A departure that only a person moves any more is in the tray, where
\* confirming it is accepted, and the page counts the seats that the engine
\* counts (toCharge and DecisionTray against the engine and the SQL functions).
THEOREM WaitsInTray == LifeSpec => []NothingWaitsUnseen
  BY LifeInvariant, BoardRight, PTL

-----------------------------------------------------------------------------
(* The pages and dialogs of a booking.                                     *)

Asked == [at : {"shown", "paid", "unpaid", "claimed", "free", "released", "done"},
          booking : Bookings, status : Statuses,
          reason : {"none", "customer_request", "operator_decision"},
          money : {"refund", "no_refund", "no_charge"}, refund : BOOLEAN]

\* What a page announced, against what was decided and what was done.
Agrees(p) ==
    /\ p.money = "no_charge" <=> p.status # "confirmed"
    /\ p.reason = "none" => p.money = "no_charge"
    /\ p.at = "paid" => p.money # "no_charge" /\ (p.refund <=> p.money = "refund")
    /\ p.at \in {"unpaid", "claimed", "free", "released"} => p.money = "no_charge"
    /\ p.at = "done" =>
          /\ Cancelled(p.booking)
          /\ p.money # "no_charge" =>
                /\ Paid(p.booking)
                /\ p.money = "refund" <=> refund[p.booking] # NoId
          /\ p.money = "no_charge" /\ Paid(p.booking) => refund[p.booking] # NoId

PageInv == page \in {Away, Refused} \/ (page \in Asked /\ Agrees(page))

\* What was done stays done, whatever the booking goes through.
LEMMA PageStays ==
  ASSUME LifeTurn, PageInv, page' = page PROVE PageInv'
<1>1. CASE page \in {Away, Refused}
  BY <1>1 DEF PageInv, Away, Refused
<1>2. CASE page \in Asked /\ Agrees(page)
  <2>1. page.booking \in Bookings
    BY <1>2 DEF Asked
  <2>2. MoneyTurn(page.booking)
    BY <2>1 DEF LifeTurn, Turns
  <2>3. BookInv(page.booking)'
    BY <2>1 DEF LifeTurn, Turns
  <2> HIDE DEF Paid
  <2>4. Agrees(page)'
    BY <1>2, <2>2, <2>3 DEF Agrees, MoneyTurn, BookInv, Cancelled, Confirmed
  <2> QED BY <1>2, <2>4 DEF PageInv, Asked
<1> QED BY <1>1, <1>2 DEF PageInv

LEMMA ShowStep ==
  ASSUME LifeInv, NEW b \in Bookings, Show(b) PROVE PageInv'
<1>1. PICK reason \in IF who # "tourist" /\ Unpaid(b) THEN {"none"}
                      ELSE ReasonsFor(who) :
         page' = [at |-> "shown", booking |-> b, status |-> status[b],
                  reason |-> reason, money |-> Money(b, reason),
                  refund |-> FALSE]
  BY DEF Show
<1>2. /\ reason \in {"none", "customer_request", "operator_decision"}
      /\ reason = "none" => Unpaid(b)
  BY <1>1 DEF ReasonsFor
<1>3. Unpaid(b) => ~Confirmed(b)
  BY DEF Unpaid, AuthorizationHeld, Confirmed
<1>4. /\ Money(b, reason) \in {"refund", "no_refund", "no_charge"}
      /\ Money(b, reason) = "no_charge" <=> ~Confirmed(b)
  BY DEF Money
<1>5. status[b] \in Statuses
  BY DEF LifeInv, DbTypeOK
<1>6. page' \in Asked
  BY <1>1, <1>2, <1>4, <1>5 DEF Asked
<1>7. Agrees(page')
  BY <1>1, <1>2, <1>3, <1>4 DEF Agrees, Confirmed
<1>8. Agrees(page)'
  BY <1>1, <1>7 DEF Agrees
<1>9. UNCHANGED db
  BY DEF Show
<1> QED BY <1>6, <1>8 DEF PageInv, Asked

LEMMA ConfirmPageStep ==
  ASSUME LifeInv, PageInv, Confirm PROVE PageInv'
<1>1. page \in Asked /\ Agrees(page) /\ page.at = "shown"
  BY DEF Confirm, PageInv, Away, Refused
<1> DEFINE b == page.booking
<1>2. CASE page' = Refused
  BY <1>2 DEF PageInv
<1>3. CASE /\ SameAsShown(page)
           /\ page' = [page EXCEPT
                        !.at = IF Confirmed(b) THEN "paid" ELSE "unpaid",
                        !.refund = Money(b, page.reason) = "refund"]
  <2>1. CASE Confirmed(b)
    <3>1. /\ page.reason # "none" /\ AmountIsAsShown(page)
          /\ page.status = "confirmed"
      BY <1>3, <2>1 DEF SameAsShown, StatusIsAsShown, Confirmed
    <3>2. page' = [page EXCEPT !.at = "paid", !.refund = (page.money = "refund")]
      BY <1>3, <2>1, <3>1 DEF AmountIsAsShown
    <3>3. page' \in Asked
      BY <1>1, <3>2 DEF Asked
    <3>4. /\ page'.at = "paid" /\ page'.refund = (page.money = "refund")
          /\ page'.money = page.money /\ page'.status = page.status
          /\ page'.reason = page.reason /\ page'.booking = page.booking
      BY <1>1, <3>2 DEF Asked
    <3> QED BY <1>1, <3>1, <3>3, <3>4 DEF PageInv, Agrees, Asked
  <2>2. CASE ~Confirmed(b)
    <3>1. page.money = "no_charge"
      BY <1>1, <1>3, <2>2 DEF SameAsShown, StatusIsAsShown, Confirmed, Agrees
    <3>2. Money(b, page.reason) = "no_charge"
      BY <2>2 DEF Money
    <3>3. page' = [page EXCEPT !.at = "unpaid", !.refund = FALSE]
      BY <1>3, <2>2, <3>2
    <3>4. page' \in Asked
      BY <1>1, <3>3 DEF Asked
    <3>5. /\ page'.at = "unpaid"
          /\ page'.money = page.money /\ page'.status = page.status
          /\ page'.reason = page.reason /\ page'.booking = page.booking
      BY <1>1, <3>3 DEF Asked
    <3> QED BY <1>1, <3>1, <3>4, <3>5 DEF PageInv, Agrees, Asked
  <2> QED BY <2>1, <2>2
<1> QED BY <1>2, <1>3 DEF Confirm

\* The page goes on with a booking that is not charged, or gives up.
LEMMA PageGoesOn ==
  ASSUME PageInv, NEW at \in {"unpaid", "claimed", "free", "released"},
         page.at \in {"unpaid", "claimed", "free", "released"},
         page' = [page EXCEPT !.at = at] \/ page' = Refused
  PROVE  PageInv'
<1>1. page \in Asked /\ Agrees(page)
  BY DEF PageInv, Away, Refused
<1>2. CASE page' = [page EXCEPT !.at = at]
  <2>1. /\ page' \in Asked
        /\ page'.at = at /\ page'.money = page.money /\ page'.status = page.status
        /\ page'.reason = page.reason /\ page'.booking = page.booking
    BY <1>1, <1>2 DEF Asked
  <2> QED BY <1>1, <2>1 DEF PageInv, Agrees, Asked
<1> QED BY <1>2 DEF PageInv

\* The last write of a cancellation.
LEMMA PageDone ==
  ASSUME page \in Asked, Agrees(page), Done, NEW b, b = page.booking, Cancelled(b)',
         page.money # "no_charge" =>
             Paid(b)' /\ (page.money = "refund" <=> refund'[b] # NoId),
         page.money = "no_charge" => ~Paid(b)'
  PROVE  PageInv'
<1>1. /\ page' \in Asked
      /\ page'.at = "done" /\ page'.money = page.money /\ page'.status = page.status
      /\ page'.reason = page.reason /\ page'.booking = page.booking
  BY DEF Done, Asked
<1>2. Agrees(page)'
  <2> HIDE DEF Paid
  <2> QED BY <1>1 DEF Agrees, Cancelled, Paid
<1> QED BY <1>1, <1>2 DEF PageInv, Asked

LEMMA CancelChargedStep ==
  ASSUME LifeInv, PageInv, CancelCharged PROVE LifeTurn /\ PageInv'
<1>1. page \in Asked /\ Agrees(page) /\ page.at = "paid" /\ page.booking \in Bookings
  BY DEF CancelCharged, PageInv, Away, Refused, Asked
<1> PICK b \in Bookings : b = page.booking
  BY <1>1
<1>2. page.money # "no_charge" /\ (page.refund <=> page.money = "refund")
  BY <1>1 DEF Agrees
<1>3. CASE ~Confirmed(b)
  <2>1. UNCHANGED db /\ page' = Refused
    BY <1>3 DEF CancelCharged
  <2> QED BY <2>1, RestTurn DEF PageInv
<1>4. CASE Confirmed(b)
  <2>1. /\ status' = [status EXCEPT ![b] = "cancelled"]
        /\ refund' = IF page.refund THEN RefundWhenCancelled({b}) ELSE refund
        /\ UNCHANGED <<now, mark, sched, row, event, dep>>
        /\ Done
    BY <1>4 DEF CancelCharged
  <2>2. /\ LifeTurn /\ Paid(b)' /\ refund[b] = NoId
        /\ refund' = RefundWhenCancelled({b}) => refund'[b] # NoId
    BY <1>1, <1>4, <2>1, ChargedCancelTurn
  <2>3. Cancelled(b)'
    BY <1>1, <2>1 DEF LifeInv, DbTypeOK, Cancelled
  <2>4. page.money = "refund" <=> refund'[b] # NoId
    BY <1>2, <2>1, <2>2
  <2> HIDE DEF Paid
  <2> QED BY <1>1, <1>2, <2>1, <2>2, <2>3, <2>4, PageDone
<1> QED BY <1>3, <1>4

\* An unpaid booking is cancelled, with an authorization or without.
LEMMA CancelWaitingStep ==
  ASSUME LifeInv, PageInv, CancelUnpaid \/ CancelAuthorized
  PROVE  LifeTurn /\ PageInv'
<1>1. page \in Asked /\ Agrees(page) /\ page.at \in {"free", "released"}
        /\ page.booking \in Bookings
  BY DEF CancelUnpaid, CancelAuthorized, PageInv, Away, Refused, Asked
<1> PICK b \in Bookings : b = page.booking
  BY <1>1
<1>2. page.money = "no_charge"
  BY <1>1 DEF Agrees
<1>3. CASE UNCHANGED db /\ page' = Refused
  BY <1>3, RestTurn DEF PageInv
<1>4. CASE /\ Done
           /\ \/ CanCancelUnpaid(b) /\ CancelUnpaidBooking(b)
              \/ CanCancelAuthorized(b) /\ CancelAuthorizedBooking(b)
  <2>1. MayEnd(b)
    BY <1>4 DEF MayEnd, CancelledByHand
  <2>2. LifeTurn
    BY <1>1, <1>4, <2>1, CancelUnpaidTurn, CancelAuthorizedTurn
  <2>3. /\ Live(b) /\ Cancelled(b)' /\ refund' = refund
    BY <1>1, <1>4 DEF CanCancelUnpaid, CancelUnpaidBooking, CanCancelAuthorized,
                      CancelAuthorizedBooking, Live, Cancelled, LifeInv, DbTypeOK
  <2>4. BookInv(b) /\ MoneyTurn(b)
    BY <1>1, <2>2 DEF LifeInv, LifeTurn, Turns
  <2> HIDE DEF Paid
  <2>5. ~Paid(b)'
    BY <2>3, <2>4 DEF BookInv, MoneyTurn, Live, Cancelled, Confirmed
  <2> QED BY <1>1, <1>2, <1>4, <2>2, <2>3, <2>5, PageDone
<1> QED BY <1>3, <1>4 DEF CancelUnpaid, CancelAuthorized

LEMMA ClaimStep ==
  ASSUME LifeInv, PageInv, Claim \/ ReleaseHold
  PROVE  LifeTurn /\ PageInv'
<1>1. page \in Asked /\ page.at \in {"unpaid", "claimed"}
        /\ page.booking \in Bookings
  BY DEF Claim, ReleaseHold, PageInv, Away, Refused, Asked
<1> PICK b \in Bookings : b = page.booking
  BY <1>1
<1>2. LifeTurn
  <2>1. CASE UNCHANGED db
    BY <2>1, RestTurn
  <2>2. CASE ClaimAuthorizationCancel(b) \/ Unclaim(b)
    <3>1. mark' \in [Bookings -> Marks]
      BY <1>1, <2>2, MarkingSteps DEF LifeInv, DbStep, DbTypeOK
    <3> QED BY <2>2, <3>1, MarksTurn DEF ClaimAuthorizationCancel, Unclaim
  <2> QED BY <2>1, <2>2 DEF Claim, ReleaseHold
<1>3. PageInv'
  <2>1. \/ page' = [page EXCEPT !.at = "claimed"]
        \/ page' = [page EXCEPT !.at = "free"]
        \/ page' = [page EXCEPT !.at = "released"]
        \/ page' = Refused
    BY DEF Claim, ReleaseHold
  <2> QED BY <1>1, <2>1, PageGoesOn
<1> QED BY <1>2, <1>3

\* What a person was shown before confirming is what became of the money,
\* whatever the jobs, the gateway and other people do while the page is open
\* (cancel page, CancelConfirm and the dialog against cancelBooking).
THEOREM ShownDone == PagesSpec => []ShownIsDone
<1>1. PagesInit => LifeInv /\ PageInv
  BY LifeInit DEF PagesInit, PageInv
<1>2. ASSUME LifeInv, PageInv, [PagesNext]_pages
      PROVE  LifeInv' /\ PageInv'
  <2>1. CASE (Life \/ CancelledElsewhere) /\ UNCHANGED <<who, page>>
    BY <1>2, <2>1, LifeTurns, PageStays DEF LifeTurn
  <2>2. CASE \E b \in Bookings : Show(b)
    <3>1. PICK b \in Bookings : Show(b)
      BY <2>2
    <3>2. UNCHANGED db
      BY <3>1 DEF Show
    <3> QED BY <1>2, <3>1, <3>2, ShowStep, RestTurn DEF LifeTurn
  <2>3. CASE Confirm
    <3>1. UNCHANGED db
      BY <2>3 DEF Confirm
    <3> QED BY <1>2, <2>3, <3>1, ConfirmPageStep, RestTurn DEF LifeTurn
  <2>4. CASE Leave
    BY <1>2, <2>4, RestTurn DEF Leave, PageInv, LifeTurn
  <2>5. CASE UNCHANGED pages
    BY <1>2, <2>5, RestTurn, PageStays DEF pages, LifeTurn, db
  <2> QED BY <1>2, <2>1, <2>2, <2>3, <2>4, <2>5, CancelChargedStep,
             CancelWaitingStep, ClaimStep DEF PagesNext, LifeTurn
<1>3. LifeInv /\ PageInv => ShownIsDone
  <2> SUFFICES ASSUME PageInv, page.at = "done"
               PROVE  /\ Cancelled(page.booking)
                      /\ page.money = "refund" => refund[page.booking] # NoId
                      /\ page.money = "no_refund" => refund[page.booking] = NoId
                      /\ page.money = "no_charge" /\ PaidId(page.booking) # NoId
                            => refund[page.booking] # NoId
    BY DEF ShownIsDone
  <2>1. page \in Asked /\ Agrees(page) /\ page.booking \in Bookings
    BY DEF PageInv, Away, Refused, Asked
  <2>2. PaidId(page.booking) # NoId => Paid(page.booking)
    BY <2>1, PaidIdLemma
  <2> HIDE DEF Paid
  <2> QED BY <2>1, <2>2 DEF Agrees
<1> QED BY <1>1, <1>2, <1>3, PTL DEF PagesSpec

-----------------------------------------------------------------------------
(* The mails.                                                              *)

Mails == {Q!NotNow, [mail |-> "reserved"]}
           \cup [mail : {"card", "authenticate"}, by : Times, link : Times,
                 cycle : BOOLEAN]
           \cup [mail : {"cancelled"}, money : {"refund", "no_charge", "no_refund"}]

NoticeRows == [status : {"none", "pending", "sent", "failed", "cancelled"},
               gen : Int, attempts : Int, due : Int]

JobRows == [at : {"read", "send", "sent", "failed", "retry", "cancel"},
            key : DOMAIN notif, gen : Int, attempts : Int, about : Mails]

NoticesTyped ==
    /\ \E kind \in Followed : DOMAIN notif = Bookings \X {kind}
    /\ notif \in [DOMAIN notif -> NoticeRows]
    /\ told \in [DOMAIN notif -> [gen : Int, about : Mails]]
    /\ job # Q!Idle => job \in JobRows

\* Cancelled, and without a charge that is not given back.
Freed(b) == Cancelled(b) /\ (Paid(b) => refund[b] # NoId)

\* A mail that is written, or already sent, is still right: who was told that
\* nothing was charged is free, and until the moment a mail names neither the
\* cycle nor the time of the booking ends.
MailHolds(b, m) ==
    /\ m.mail = "cancelled" /\ m.money = "no_charge" => Freed(b)
    /\ m.mail \in {"card", "authenticate"} /\ m.cycle /\ now < m.by =>
          /\ dep.deadline # Null /\ m.by <= dep.deadline
          /\ status[b] # "absent"
          /\ Live(b) => sched[b].recovery # Null /\ m.by <= sched[b].recovery

LEMMA MailStays ==
  ASSUME LifeInv, LifeTurn, NEW b \in Bookings, NEW m \in Mails, MailHolds(b, m)
  PROVE  MailHolds(b, m)'
<1>1. MoneyTurn(b) /\ AgendaTurn(b) /\ StatusTurn(b) /\ BookInv(b)'
  BY DEF LifeTurn, Turns
<1>2. now \in Int /\ now' \in Int /\ now <= now'
  BY TimesAssumption DEF LifeInv, LifeTurn, DepTurn, DbTypeOK, Times
<1>3. Freed(b) => Freed(b)'
  <2> HIDE DEF Paid
  <2> QED BY <1>1 DEF Freed, MoneyTurn, BookInv, Cancelled, Confirmed
<1>4. ASSUME m.mail \in {"card", "authenticate"}, m.cycle, now' < m.by
      PROVE  /\ dep'.deadline # Null /\ m.by <= dep'.deadline
             /\ status'[b] # "absent"
             /\ Live(b)' => sched'[b].recovery # Null /\ m.by <= sched'[b].recovery
  <2>1. m.by \in Int
    BY <1>4, TimesAssumption DEF Mails, Times, Q!NotNow
  <2>2. now < m.by
    BY <1>2, <1>4, <2>1
  <2>3. /\ dep.deadline # Null /\ m.by <= dep.deadline
        /\ status[b] # "absent"
        /\ Live(b) => sched[b].recovery # Null /\ m.by <= sched[b].recovery
    BY <1>4, <2>2 DEF MailHolds
  <2>4. dep.deadline \in Int
    BY TimesAssumption DEF LifeInv, DbTypeOK, Departure, Times, Null
  <2>5. ~PastDeadline
    BY <1>2, <2>1, <2>2, <2>3, <2>4 DEF PastDeadline
  <2>6. dep'.deadline = dep.deadline
    BY <2>3, <2>5 DEF LifeTurn, DepTurn
  <2>7. Live(b)' => Live(b)
    BY <1>1, <2>3 DEF StatusTurn
  <2>8. Live(b)' => sched'[b].recovery = sched[b].recovery
    BY <1>1, <2>3, <2>5, <2>7 DEF AgendaTurn
  <2> QED BY <1>1, <2>3, <2>6, <2>7, <2>8 DEF StatusTurn
<1> QED BY <1>3, <1>4 DEF MailHolds

\* What a row promises of its booking.
RowHolds(q) ==
    notif[q].status # "none" =>
        /\ q[2] = BelowMin => Freed(q[1])
        /\ q[2] = CancelConfirmed => Cancelled(q[1])

LEMMA KindsDiffer ==
  /\ Reserved \notin FailedKinds /\ Requires \notin FailedKinds
  /\ BelowMin \notin FailedKinds /\ CancelConfirmed \notin FailedKinds
  /\ Reserved # Requires /\ Reserved # BelowMin /\ Reserved # CancelConfirmed
  /\ Requires # BelowMin /\ Requires # CancelConfirmed
  /\ BelowMin # CancelConfirmed
<1>1. \A kind \in FailedKinds : kind[1] = "failed"
  BY DEF FailedKinds, FailedKind
<1>2. /\ Reserved[1] = "booking_reserved" /\ Requires[1] = "charge_requires_action"
      /\ BelowMin[1] = "departure_cancelled_minimum"
      /\ CancelConfirmed[1] = "cancellation_confirmation"
  BY DEF Reserved, Requires, BelowMin, CancelConfirmed
<1> QED BY <1>1, <1>2

LEMMA MailTrue ==
  ASSUME LifeInv, NEW b \in Bookings, NEW kind \in Followed,
         kind = BelowMin => Freed(b), kind = CancelConfirmed => Cancelled(b)
  PROVE  Mail(b, kind) \in Mails /\ MailHolds(b, Mail(b, kind))
<1>1. BookInv(b)
  BY DEF LifeInv
<1>2. now \in Times /\ now \in Int
  BY TimesAssumption DEF LifeInv, DbTypeOK, Times
<1>3. ASSUME NEW t \in Times \cup {Null}, IsFuture(t),
             t = sched[b].recovery, status[b] # "absent",
             NEW mail \in {"card", "authenticate"}
      PROVE  ActBy(mail, t) \in Mails /\ MailHolds(b, ActBy(mail, t))
  <2>1. t \in Times /\ t \in Int /\ now < t
    BY <1>2, <1>3, TimesAssumption DEF IsFuture, Times, Null
  <2>2. OpenCycleDeadline \in Times \cup {Null}
    BY DEF OpenCycleDeadline, LifeInv, DbTypeOK, Departure
  <2>3. IsFuture(OpenCycleDeadline) =>
            /\ OpenCycleDeadline \in Times /\ OpenCycleDeadline \in Int
            /\ dep.deadline = OpenCycleDeadline /\ dep.deadline # Null
    BY <2>2, TimesAssumption DEF IsFuture, OpenCycleDeadline, Times, Null
  <2>4. /\ PromisedDeadline(t) \in Times
        /\ PromisedDeadline(t) <= t
        /\ IsFuture(OpenCycleDeadline) => PromisedDeadline(t) <= OpenCycleDeadline
    BY <2>1, <2>3 DEF PromisedDeadline, Least
  <2>5. IsFuture(OpenCycleDeadline) \in BOOLEAN
    BY DEF IsFuture
  <2>6. ActBy(mail, t) \in Mails
    BY <2>1, <2>4, <2>5 DEF ActBy, Mails
  <2>7. /\ ActBy(mail, t).mail = mail /\ ActBy(mail, t).by = PromisedDeadline(t)
        /\ ActBy(mail, t).cycle = IsFuture(OpenCycleDeadline)
    BY DEF ActBy
  <2> HIDE DEF ActBy
  <2>8. t # Null
    BY <1>3 DEF IsFuture
  <2> QED BY <1>3, <2>3, <2>4, <2>6, <2>7, <2>8 DEF MailHolds
<1>4. ReservedMail(b) \in Mails /\ MailHolds(b, ReservedMail(b))
  BY DEF ReservedMail, Mails, MailHolds, Q!NotNow
<1>5. sched[b].recovery \in Times \cup {Null} /\ sched[b].awaiting \in Times \cup {Null}
  BY DEF LifeInv, DbTypeOK, Agenda
<1>6. CardMail(b) \in Mails /\ MailHolds(b, CardMail(b))
  <2>1. CASE status[b] = "pending_minimum" /\ IsFuture(sched[b].recovery)
    BY <1>3, <1>5, <2>1 DEF CardMail, WaitsForCard
  <2>2. CASE ~(status[b] = "pending_minimum" /\ IsFuture(sched[b].recovery))
    BY <2>2 DEF CardMail, WaitsForCard, Mails, MailHolds, Q!NotNow
  <2> QED BY <2>1, <2>2
<1>7. AuthenticateMail(b) \in Mails /\ MailHolds(b, AuthenticateMail(b))
  <2>1. CASE status[b] = "pending_payment" /\ IsFuture(sched[b].awaiting)
    <3>1. sched[b].awaiting = sched[b].recovery
      BY <1>1, <2>1 DEF BookInv, IsFuture
    <3> QED BY <1>3, <1>5, <2>1, <3>1 DEF AuthenticateMail
  <2>2. CASE ~(status[b] = "pending_payment" /\ IsFuture(sched[b].awaiting))
    BY <2>2 DEF AuthenticateMail, Mails, MailHolds, Q!NotNow
  <2> QED BY <2>1, <2>2
<1>8. kind = BelowMin => BelowMinMail \in Mails /\ MailHolds(b, BelowMinMail)
  BY DEF BelowMinMail, Mails, MailHolds
<1>9. kind = CancelConfirmed => CancelMail(b) \in Mails /\ MailHolds(b, CancelMail(b))
  <2>1. RefundLine(b) \in {"refund", "no_charge", "no_refund"}
    BY DEF RefundLine
  <2>2. RefundLine(b) = "no_charge" => ~Paid(b)
    BY PaidIdLemma DEF RefundLine, NoCharge, Charged
  <2>3. CancelMail(b).mail = "cancelled" /\ CancelMail(b).money = RefundLine(b)
    BY DEF CancelMail
  <2>4. CancelMail(b) \in Mails
    BY <2>1 DEF CancelMail, Mails
  <2> HIDE DEF Paid
  <2> QED BY <2>2, <2>3, <2>4 DEF MailHolds, Freed
<1>10. kind \in {Reserved, Requires, BelowMin, CancelConfirmed} \cup FailedKinds
  BY FollowedAssumption DEF ChargeKinds
<1>11. \/ Mail(b, kind) = ReservedMail(b) \/ Mail(b, kind) = CardMail(b)
       \/ Mail(b, kind) = AuthenticateMail(b)
       \/ kind = BelowMin /\ Mail(b, kind) = BelowMinMail
       \/ kind = CancelConfirmed /\ Mail(b, kind) = CancelMail(b)
  <2>1. CASE kind = Reserved
    BY <2>1, KindsDiffer DEF Mail
  <2>2. CASE kind \in FailedKinds
    BY <2>2, KindsDiffer DEF Mail
  <2>3. CASE kind = Requires
    BY <2>3, KindsDiffer DEF Mail
  <2>4. CASE kind = BelowMin
    BY <2>4, KindsDiffer DEF Mail
  <2>5. CASE kind = CancelConfirmed
    BY <2>5, KindsDiffer DEF Mail
  <2> QED BY <1>10, <2>1, <2>2, <2>3, <2>4, <2>5
<1> QED BY <1>4, <1>6, <1>7, <1>8, <1>9, <1>11

NoticesInv ==
    /\ NoticesTyped
    /\ \A q \in DOMAIN notif : RowHolds(q) /\ MailHolds(q[1], told[q].about)
    /\ job # Q!Idle => /\ notif[job.key].status # "none"
                       /\ MailHolds(job.key[1], job.about)

\* What the job may do to a row, to what the tourist was told and to itself.
PostRows ==
    /\ DOMAIN notif' = DOMAIN notif /\ notif' \in [DOMAIN notif -> NoticeRows]
    /\ \A q \in DOMAIN notif :
          \/ notif'[q] = notif[q]
          \/ /\ notif[q].status # "none" /\ notif'[q].gen = notif[q].gen
             /\ \/ notif'[q].status \in {"sent", "failed", notif[q].status}
                \/ job.at = "cancel" /\ q = job.key /\ notif'[q].status = "cancelled"

PostTold ==
    /\ told' \in [DOMAIN notif -> [gen : Int, about : Mails]]
    /\ \A q \in DOMAIN notif :
          \/ told'[q] = told[q]
          \/ job # Q!Idle /\ q = job.key /\ told'[q].about = job.about

PostJob ==
    \/ job' = Q!Idle
    \/ /\ job' \in JobRows /\ notif' = notif
       /\ \/ /\ notif[job'.key].status = "pending"
             /\ job'.about = Q!NotNow /\ job'.at = "read"
          \/ /\ job # Q!Idle /\ job'.key = job.key /\ job'.at # "cancel"
             /\ job'.about \in {job.about, Q!NotNow}
          \/ /\ job.at = "read" /\ job # Q!Idle /\ job'.key = job.key
             /\ job'.about = Mail(job.key[1], job.key[2])
             /\ job'.at = "cancel" => Mail(job.key[1], job.key[2]) = Q!NotNow

PostEffect == PostRows /\ PostTold /\ PostJob

LEMMA JobAt ==
  ASSUME NoticesInv, NEW at \in {"read", "send", "sent", "failed", "retry", "cancel"},
         job.at = at
  PROVE  /\ job \in JobRows /\ job # Q!Idle /\ job.key \in DOMAIN notif
         /\ notif[job.key] \in NoticeRows /\ notif[job.key].status # "none"
<1>1. job # Q!Idle
  BY DEF Q!Idle
<1>2. job \in JobRows
  BY <1>1 DEF NoticesInv, NoticesTyped
<1>3. job.key \in DOMAIN notif
  BY <1>2 DEF JobRows
<1> QED BY <1>1, <1>2, <1>3 DEF NoticesInv, NoticesTyped

LEMMA KeysAre ==
  ASSUME NoticesTyped, NEW q \in DOMAIN notif
  PROVE  q[1] \in Bookings /\ q[2] \in Followed /\ q = <<q[1], q[2]>>
  BY DEF NoticesTyped

LEMMA NotNowIsMail == Q!NotNow \in Mails
  BY DEF Mails

LEMMA FetchStep ==
  ASSUME NoticesInv, NEW q \in DOMAIN notif, Q!Fetch(q)
  PROVE  PostEffect
<1>1. /\ notif[q].status = "pending" /\ UNCHANGED <<notif, told>>
      /\ job' = [at |-> "read", key |-> q, gen |-> notif[q].gen,
                 attempts |-> notif[q].attempts, about |-> Q!NotNow]
  BY DEF Q!Fetch, Q!Turn
<1>2. notif[q].gen \in Int /\ notif[q].attempts \in Int
  BY DEF NoticesInv, NoticesTyped, NoticeRows
<1>3. job' \in JobRows
  BY <1>1, <1>2, NotNowIsMail DEF JobRows
<1> QED BY <1>1, <1>3 DEF PostEffect, PostRows, PostTold, PostJob, NoticesInv,
                          NoticesTyped

LEMMA PrepareStep ==
  ASSUME LifeInv, NoticesInv, job.at = "read",
         Q!Prepare(Mail(job.key[1], job.key[2]))
  PROVE  PostEffect
<1>1. job \in JobRows /\ job # Q!Idle /\ job.key \in DOMAIN notif
        /\ notif[job.key].status # "none"
  BY JobAt
<1> DEFINE m == Mail(job.key[1], job.key[2])
<1>2. m \in Mails
  <2>1. job.key[1] \in Bookings /\ job.key[2] \in Followed /\ RowHolds(job.key)
    BY <1>1, KeysAre DEF NoticesInv
  <2> QED BY <1>1, <2>1, MailTrue DEF RowHolds
<1>3. /\ UNCHANGED <<notif, told>>
      /\ \/ job' = [at |-> IF m = Q!NotNow THEN "cancel" ELSE "send",
                    key |-> job.key, gen |-> job.gen, attempts |-> job.attempts,
                    about |-> m]
         \/ job' = [at |-> "retry", key |-> job.key, gen |-> job.gen,
                    attempts |-> job.attempts, about |-> Q!NotNow]
  BY DEF Q!Prepare, Q!Turn
<1> HIDE DEF m
<1>4. job' \in JobRows /\ job'.key = job.key
  BY <1>1, <1>2, <1>3, NotNowIsMail DEF JobRows
<1>5. PostJob
  <2>1. CASE job'.about = m /\ (job'.at = "cancel" => m = Q!NotNow)
    BY <1>1, <1>3, <1>4, <2>1 DEF PostJob, m
  <2>2. CASE job'.about = Q!NotNow /\ job'.at = "retry"
    BY <1>1, <1>3, <1>4, <2>2 DEF PostJob
  <2> QED BY <1>3, <2>1, <2>2
<1> QED BY <1>3, <1>5 DEF PostEffect, PostRows, PostTold, NoticesInv, NoticesTyped

\* The job writes a result on the row it is at, or does not.
LEMMA ResultStep ==
  ASSUME NoticesInv, job # Q!Idle, job \in JobRows, notif[job.key].status # "none",
         UNCHANGED told,
         \/ job' = Q!Idle
         \/ job' = [job EXCEPT !.at = "retry"] /\ notif' = notif,
         \/ notif' = notif
         \/ \E r \in NoticeRows :
               /\ notif' = [notif EXCEPT ![job.key] = r] /\ r.gen = notif[job.key].gen
               /\ \/ r.status \in {"sent", "failed", notif[job.key].status}
                  \/ job.at = "cancel" /\ r.status = "cancelled"
  PROVE  PostEffect
<1>1. PostJob
  <2>1. CASE job' = [job EXCEPT !.at = "retry"] /\ notif' = notif
    <3>1. job' \in JobRows /\ job'.key = job.key /\ job'.at # "cancel"
            /\ job'.about = job.about
      BY <2>1 DEF JobRows
    <3> QED BY <2>1, <3>1 DEF PostJob
  <2> QED BY <2>1 DEF PostJob
<1>2. notif \in [DOMAIN notif -> NoticeRows] /\ job.key \in DOMAIN notif
  BY DEF NoticesInv, NoticesTyped, JobRows
<1>3. PostRows
  <2>1. CASE notif' = notif
    BY <1>2, <2>1 DEF PostRows
  <2>2. CASE \E r \in NoticeRows :
               /\ notif' = [notif EXCEPT ![job.key] = r] /\ r.gen = notif[job.key].gen
               /\ \/ r.status \in {"sent", "failed", notif[job.key].status}
                  \/ job.at = "cancel" /\ r.status = "cancelled"
    BY <1>2, <2>2 DEF PostRows
  <2> QED BY <2>1, <2>2
<1> QED BY <1>1, <1>3 DEF PostEffect, PostTold, NoticesInv, NoticesTyped

LEMMA RowFields ==
  ASSUME NEW r \in NoticeRows, NEW n \in Int
  PROVE  /\ [r EXCEPT !.status = "sent"] \in NoticeRows
         /\ [r EXCEPT !.status = "sent"].gen = r.gen /\ [r EXCEPT !.status = "sent"].status = "sent"
         /\ [r EXCEPT !.status = "cancelled"] \in NoticeRows
         /\ [r EXCEPT !.status = "cancelled"].gen = r.gen /\ [r EXCEPT !.status = "cancelled"].status = "cancelled"
         /\ [r EXCEPT !.status = "failed", !.attempts = n] \in NoticeRows
         /\ [r EXCEPT !.status = "failed", !.attempts = n].gen = r.gen /\ [r EXCEPT !.status = "failed", !.attempts = n].status = "failed"
         /\ [r EXCEPT !.attempts = n] \in NoticeRows
         /\ [r EXCEPT !.attempts = n].gen = r.gen /\ [r EXCEPT !.attempts = n].status = r.status
         /\ [[r EXCEPT !.attempts = n] EXCEPT !.status = "failed"] \in NoticeRows
         /\ [[r EXCEPT !.attempts = n] EXCEPT !.status = "failed"].gen = r.gen /\ [[r EXCEPT !.attempts = n] EXCEPT !.status = "failed"].status = "failed"
  BY DEF NoticeRows

LEMMA SendStep ==
  ASSUME NoticesInv, Q!Send
  PROVE  PostEffect
<1>1. job.at = "send" /\ UNCHANGED notif
  BY DEF Q!Send
<1>2. job \in JobRows /\ job # Q!Idle /\ job.key \in DOMAIN notif
  BY <1>1, JobAt
<1>3. /\ \/ job' = [job EXCEPT !.at = "sent"]
         \/ job' = [job EXCEPT !.at = "failed"]
         \/ job' = [job EXCEPT !.at = "retry"]
      /\ \/ told' = told
         \/ told' = [told EXCEPT ![job.key] = [gen |-> job.gen, about |-> job.about]]
  BY DEF Q!Send
<1>4. job' \in JobRows /\ job'.key = job.key /\ job'.at # "cancel"
        /\ job'.about = job.about
  BY <1>2, <1>3 DEF JobRows
<1>5. PostTold
  <2>1. told \in [DOMAIN notif -> [gen : Int, about : Mails]]
    BY DEF NoticesInv, NoticesTyped
  <2>2. [gen |-> job.gen, about |-> job.about] \in [gen : Int, about : Mails]
    BY <1>2 DEF JobRows
  <2> QED BY <1>2, <1>3, <2>1, <2>2 DEF PostTold
<1> QED BY <1>1, <1>2, <1>4, <1>5 DEF PostEffect, PostRows, PostJob, NoticesInv,
                                       NoticesTyped

LEMMA MarkStatusSteps ==
  ASSUME NoticesInv, Q!MarkSent \/ Q!MarkFailed \/ Q!HandleTransient
                       \/ Q!CancelNotification
  PROVE  PostEffect
<1>1. job.at \in {"read", "send", "sent", "failed", "retry", "cancel"}
  BY DEF Q!MarkSent, Q!MarkFailed, Q!HandleTransient, Q!CancelNotification
<1>2. job \in JobRows /\ job # Q!Idle /\ job.key \in DOMAIN notif
        /\ notif[job.key] \in NoticeRows /\ notif[job.key].status # "none"
  BY <1>1, JobAt
<1>3. job.attempts + 1 \in Int
  BY <1>2 DEF JobRows
<1> DEFINE r == notif[job.key]
           tried == [r EXCEPT !.attempts = job.attempts + 1]
<1>4. CASE Q!MarkSent
  <2>1. \/ notif' = notif
        \/ notif' = [notif EXCEPT ![job.key] = [r EXCEPT !.status = "sent"]]
    BY <1>4 DEF Q!MarkSent, Q!Result
  <2>2. UNCHANGED told /\ job' = Q!Idle
    BY <1>4 DEF Q!MarkSent
  <2> DEFINE f == [r EXCEPT !.status = "sent"]
  <2>3. f \in NoticeRows /\ f.status = "sent" /\ f.gen = r.gen
    <3>1. r \in NoticeRows
      BY <1>2
    <3> HIDE DEF r
    <3> QED BY <3>1 DEF f, NoticeRows
  <2>4. notif' = notif \/ notif' = [notif EXCEPT ![job.key] = f]
    BY <2>1
  <2> HIDE DEF f
  <2> QED BY <1>2, <2>2, <2>3, <2>4, ResultStep
<1>5. CASE Q!MarkFailed
  <2>1. \/ notif' = notif
        \/ notif' = [notif EXCEPT ![job.key] =
                        [r EXCEPT !.status = "failed", !.attempts = job.attempts + 1]]
    BY <1>5 DEF Q!MarkFailed, Q!Result
  <2>2. /\ UNCHANGED told
        /\ \/ job' = Q!Idle
           \/ job' = [job EXCEPT !.at = "retry"] /\ notif' = notif
    BY <1>5 DEF Q!MarkFailed
  <2> DEFINE f == [r EXCEPT !.status = "failed", !.attempts = job.attempts + 1]
  <2>3. f \in NoticeRows /\ f.status = "failed" /\ f.gen = r.gen
    <3> DEFINE n == job.attempts + 1
    <3>1. r \in NoticeRows /\ n \in Int
      BY <1>2, <1>3
    <3> HIDE DEF r, n
    <3> QED BY <3>1 DEF f, n, NoticeRows
  <2>4. notif' = notif \/ notif' = [notif EXCEPT ![job.key] = f]
    BY <2>1
  <2> HIDE DEF f
  <2> QED BY <1>2, <2>2, <2>3, <2>4, ResultStep
<1>6. CASE Q!HandleTransient
  <2>1. \/ notif' = notif
        \/ notif' = [notif EXCEPT ![job.key] = tried]
        \/ notif' = [notif EXCEPT ![job.key] = [tried EXCEPT !.status = "failed"]]
    BY <1>6 DEF Q!HandleTransient, Q!Result
  <2>2. UNCHANGED told /\ job' = Q!Idle
    BY <1>6 DEF Q!HandleTransient
  <2>3. tried \in NoticeRows /\ tried.status = r.status /\ tried.gen = r.gen
    <3> DEFINE n == job.attempts + 1
    <3>1. r \in NoticeRows /\ n \in Int
      BY <1>2, <1>3
    <3> HIDE DEF r, n
    <3>2. [r EXCEPT !.attempts = n] \in NoticeRows
            /\ [r EXCEPT !.attempts = n].status = r.status
            /\ [r EXCEPT !.attempts = n].gen = r.gen
      BY <3>1, RowFields
    <3> QED BY <3>2 DEF n
  <2> HIDE DEF tried
  <2>4. /\ [tried EXCEPT !.status = "failed"] \in NoticeRows
        /\ [tried EXCEPT !.status = "failed"].status = "failed"
        /\ [tried EXCEPT !.status = "failed"].gen = r.gen
    BY <2>3 DEF NoticeRows
  <2> QED BY <1>2, <2>1, <2>2, <2>3, <2>4, ResultStep
<1>7. CASE Q!CancelNotification
  <2>1. job.at = "cancel"
    BY <1>7 DEF Q!CancelNotification
  <2>2. \/ notif' = notif
        \/ notif' = [notif EXCEPT ![job.key] = r]
        \/ notif' = [notif EXCEPT ![job.key] = [r EXCEPT !.status = "cancelled"]]
    BY <1>7 DEF Q!CancelNotification, Q!Withdrawn
  <2>3. /\ UNCHANGED told
        /\ \/ job' = Q!Idle
           \/ job' = [job EXCEPT !.at = "retry"] /\ notif' = notif
    BY <1>7 DEF Q!CancelNotification
  <2> QED BY <1>2, <1>3, <2>1, <2>2, <2>3, RowFields, ResultStep
<1> QED BY <1>4, <1>5, <1>6, <1>7

LEMMA PostSteps == ASSUME LifeInv, NoticesInv, Post PROVE PostEffect
<1>1. CASE Q!Restart
  BY <1>1 DEF Q!Restart, PostEffect, PostRows, PostTold, PostJob, NoticesInv,
              NoticesTyped
<1>2. CASE Q!Deliver
  BY <1>1, <1>2, MarkStatusSteps, SendStep DEF Q!Deliver
<1> QED BY <1>2, FetchStep, PrepareStep DEF Post

\* The invariant of the mails under the job ...
LEMMA PostKeeps ==
  ASSUME LifeInv, NoticesInv, PostEffect, UNCHANGED db
  PROVE  NoticesInv'
<1>1. ASSUME NEW b \in Bookings PROVE Freed(b)' <=> Freed(b)
  BY DEF Freed, db, Cancelled, Paid
<1>2. ASSUME NEW b \in Bookings, NEW m PROVE MailHolds(b, m)' <=> MailHolds(b, m)
  BY <1>1 DEF MailHolds, db, Live
<1>3. DOMAIN notif' = DOMAIN notif /\ notif' \in [DOMAIN notif' -> NoticeRows]
  BY DEF PostEffect, PostRows
<1>4. JobRows' = JobRows
  BY <1>3 DEF JobRows, Mails, Q!NotNow, Times
<1>5. NoticesTyped'
  <2>1. \E kind \in Followed : DOMAIN notif' = Bookings \X {kind}
    BY <1>3 DEF NoticesInv, NoticesTyped
  <2>2. told' \in [DOMAIN notif' -> [gen : Int, about : Mails]]
    BY <1>3 DEF PostEffect, PostTold
  <2>3. job' # Q!Idle => job' \in JobRows
    BY DEF PostEffect, PostJob
  <2> QED BY <1>3, <1>4, <2>1, <2>2, <2>3 DEF NoticesTyped
<1>6. ASSUME NEW q \in DOMAIN notif
      PROVE  RowHolds(q)' /\ MailHolds(q[1], told'[q].about)
  <2>1. q[1] \in Bookings
    BY KeysAre DEF NoticesInv
  <2>2. RowHolds(q) /\ MailHolds(q[1], told[q].about)
    BY DEF NoticesInv
  <2>3. notif'[q].status # "none" => notif[q].status # "none"
    BY DEF PostEffect, PostRows
  <2>4. Cancelled(q[1])' <=> Cancelled(q[1])
    BY DEF db, Cancelled
  <2>5. RowHolds(q)'
    BY <1>1, <2>1, <2>2, <2>3, <2>4 DEF RowHolds
  <2>6. CASE told'[q] = told[q]
    BY <2>2, <2>5, <2>6
  <2>7. CASE job # Q!Idle /\ q = job.key /\ told'[q].about = job.about
    BY <2>5, <2>7 DEF NoticesInv
  <2> QED BY <2>6, <2>7 DEF PostEffect, PostTold
<1>7. job' # Q!Idle => /\ notif'[job'.key].status # "none"
                       /\ MailHolds(job'.key[1], job'.about)
  <2> SUFFICES ASSUME job' # Q!Idle
               PROVE  /\ notif'[job'.key].status # "none"
                      /\ MailHolds(job'.key[1], job'.about)
    OBVIOUS
  <2>1. ASSUME NEW b PROVE MailHolds(b, Q!NotNow)
    BY DEF MailHolds, Q!NotNow
  <2>2. ASSUME NEW q \in DOMAIN notif, notif[q].status # "none"
        PROVE  notif'[q].status # "none"
    BY <2>2 DEF PostEffect, PostRows
  <2>3. CASE /\ job' \in JobRows /\ notif[job'.key].status = "pending"
             /\ job'.about = Q!NotNow
    BY <2>1, <2>2, <2>3 DEF JobRows
  <2>4. CASE /\ job' \in JobRows /\ job # Q!Idle /\ job'.key = job.key
             /\ job'.about \in {job.about, Q!NotNow}
    BY <2>1, <2>2, <2>4 DEF JobRows, NoticesInv
  <2>5. CASE /\ job' \in JobRows /\ job.at = "read" /\ job'.key = job.key
             /\ job'.about = Mail(job.key[1], job.key[2])
    <3>1. job # Q!Idle /\ job.key \in DOMAIN notif /\ notif[job.key].status # "none"
      BY <2>5, JobAt
    <3>2. job.key[1] \in Bookings /\ job.key[2] \in Followed /\ RowHolds(job.key)
      BY <3>1, KeysAre DEF NoticesInv
    <3>3. MailHolds(job.key[1], Mail(job.key[1], job.key[2]))
      BY <3>1, <3>2, MailTrue DEF RowHolds
    <3> QED BY <2>2, <2>5, <3>1, <3>3
  <2> QED BY <2>3, <2>4, <2>5 DEF PostEffect, PostJob
<1>8. ASSUME NEW q \in DOMAIN notif' PROVE MailHolds(q[1], told[q].about)'
  <2>1. q[1] \in Bookings /\ MailHolds(q[1], told'[q].about)
    BY <1>3, <1>6, KeysAre DEF NoticesInv
  <2> QED BY <2>1 DEF MailHolds, db, Live, Freed, Cancelled, Paid
<1>9. job' # Q!Idle => MailHolds(job.key[1], job.about)'
  <2> SUFFICES ASSUME job' # Q!Idle PROVE MailHolds(job.key[1], job.about)'
    OBVIOUS
  <2>1. MailHolds(job'.key[1], job'.about)
    BY <1>7
  <2> QED BY <2>1 DEF MailHolds, db, Live, Freed, Cancelled, Paid
<1> QED BY <1>3, <1>5, <1>6, <1>7, <1>8, <1>9 DEF NoticesInv

-----------------------------------------------------------------------------
(* ... and under the life of the bookings.                                 *)

LEMMA GenerationIs ==
  ASSUME NEW n \in Nat
  PROVE  /\ GenOf(n) \in Nat
         /\ n <= 3 => GenOf(n) = 0
         /\ n > 3 => GenOf(n) = n - 3
  BY DEF GenOf, Least

LEMMA RowWrites ==
  ASSUME NEW r \in NoticeRows, NEW n \in Int
  PROVE  /\ Q!Inserted(r, Q!Now) \in NoticeRows
         /\ Replaced(r, n) \in NoticeRows
         /\ Q!Withdrawn(r) \in NoticeRows
<1>1. Q!Inserted(r, Q!Now) \in NoticeRows
  BY DEF NoticeRows, Q!Inserted, Q!Enqueued, Q!Now
<1>2. Replaced(r, n) \in NoticeRows
  <2>1. Q!NoRow \in NoticeRows
    BY DEF NoticeRows, Q!NoRow, Q!Now
  <2>2. GenOf(n) \in Int
    BY DEF GenOf, Least
  <2>3. [Q!NoRow EXCEPT !.status = "pending", !.gen = GenOf(n)] \in NoticeRows
    BY <2>1, <2>2 DEF NoticeRows
  <2> QED BY <2>3 DEF Replaced
<1>3. Q!Withdrawn(r) \in NoticeRows
  BY DEF NoticeRows, Q!Withdrawn
<1> QED BY <1>1, <1>2, <1>3

\* What RowAfter makes of the row r, case by case.
LEMMA RowAfterCases ==
  ASSUME NEW b, NEW kind, NEW r, r = notif[b, kind]
  PROVE  LET made   == /\ kind = Reserved
                       /\ status[b] = "absent" /\ status'[b] # "absent"
             failed == /\ sched'[b].attempts > sched[b].attempts
                       /\ kind = FailedKind(sched'[b].attempts)
             asked  == /\ kind = Requires
                       /\ sched'[b].awaiting # Null /\ sched[b].awaiting = Null
         IN
         \/ (made \/ asked) /\ RowAfter(b, kind) = Q!Inserted(r, Q!Now)
         \/ /\ failed /\ sched'[b].attempts > 3
            /\ RowAfter(b, kind) = Replaced(r, sched'[b].attempts)
         \/ /\ failed /\ ~(sched'[b].attempts > 3)
            /\ RowAfter(b, kind) = Q!Inserted(r, Q!Now)
         \/ /\ kind \in ChargeKinds /\ Ended(b) /\ ~(made \/ failed \/ asked)
            /\ RowAfter(b, kind) = Q!Withdrawn(r)
         \/ /\ kind = BelowMin /\ WithDeparture(b)
            /\ RowAfter(b, kind) = Q!Inserted(r, Q!Now)
         \/ /\ kind = CancelConfirmed /\ Ended(b) /\ status'[b] = "cancelled"
            /\ RowAfter(b, kind) = Q!Inserted(r, Q!Now)
         \/ ~failed /\ RowAfter(b, kind) = r
<1> DEFINE made   == /\ kind = Reserved
                     /\ status[b] = "absent" /\ status'[b] # "absent"
           failed == /\ sched'[b].attempts > sched[b].attempts
                     /\ kind = FailedKind(sched'[b].attempts)
           asked  == /\ kind = Requires
                     /\ sched'[b].awaiting # Null /\ sched[b].awaiting = Null
           four   == sched'[b].attempts > 3
           gone   == kind \in ChargeKinds /\ Ended(b) /\ ~(made \/ failed \/ asked)
           below  == kind = BelowMin /\ WithDeparture(b)
           conf   == /\ kind = CancelConfirmed /\ Ended(b)
                     /\ status'[b] = "cancelled" /\ ~WithDeparture(b)
           ins    == Q!Inserted(r, Q!Now)
           rep    == Replaced(r, sched'[b].attempts)
           wit    == Q!Withdrawn(r)
<1>1. RowAfter(b, kind) =
         CASE made \/ asked -> ins
           [] failed -> IF four THEN rep ELSE ins
           [] gone -> wit
           [] below -> ins
           [] conf -> ins
           [] OTHER -> r
  BY DEF RowAfter
<1>2. conf => kind = CancelConfirmed /\ Ended(b) /\ status'[b] = "cancelled"
  OBVIOUS
<1> HIDE DEF made, failed, asked, four, gone, below, conf, ins, rep, wit
<1>3. \/ (made \/ asked) /\ RowAfter(b, kind) = ins
      \/ failed /\ four /\ RowAfter(b, kind) = rep
      \/ failed /\ ~four /\ RowAfter(b, kind) = ins
      \/ gone /\ RowAfter(b, kind) = wit
      \/ below /\ RowAfter(b, kind) = ins
      \/ conf /\ RowAfter(b, kind) = ins
      \/ ~failed /\ RowAfter(b, kind) = r
  BY <1>1
<1> QED BY <1>2, <1>3 DEF made, failed, asked, four, gone, below, ins, rep, wit

LEMMA RowAfterTyped ==
  ASSUME NoticesTyped, NEW q \in DOMAIN notif, sched'[q[1]].attempts \in Int
  PROVE  RowAfter(q[1], q[2]) \in NoticeRows
<1>1. notif[q] \in NoticeRows /\ notif[q] = notif[q[1], q[2]]
  BY KeysAre DEF NoticesTyped
<1> PICK r \in NoticeRows : r = notif[q[1], q[2]]
  BY <1>1
<1>2. \/ RowAfter(q[1], q[2]) = r \/ RowAfter(q[1], q[2]) = Q!Inserted(r, Q!Now)
      \/ RowAfter(q[1], q[2]) = Replaced(r, sched'[q[1]].attempts)
      \/ RowAfter(q[1], q[2]) = Q!Withdrawn(r)
  BY RowAfterCases
<1> QED BY <1>2, RowWrites

\* A row of a cancellation is written with the step that cancels.
LEMMA CancelRows ==
  ASSUME NEW b, NEW kind \in {BelowMin, CancelConfirmed},
         RowAfter(b, kind) # notif[b, kind]
  PROVE  /\ kind = BelowMin => WithDeparture(b)
         /\ kind = CancelConfirmed => status'[b] = "cancelled"
<1>1. kind # FailedKind(sched'[b].attempts)
  <2>1. FailedKind(sched'[b].attempts)[1] = "failed"
    BY DEF FailedKind
  <2>2. BelowMin[1] # "failed" /\ CancelConfirmed[1] # "failed"
    BY DEF BelowMin, CancelConfirmed
  <2> QED BY <2>1, <2>2
<1>2. kind # Reserved /\ kind # Requires /\ kind \notin ChargeKinds
  BY KindsDiffer DEF ChargeKinds
<1> QED BY <1>1, <1>2, KindsDiffer, RowAfterCases

LEMMA ChangeKeeps ==
  ASSUME LifeInv, NoticesInv, Change
  PROVE  LifeTurn /\ NoticesInv'
<1>1. LifeTurn
  BY LifeTurns DEF Change
<1>2. /\ notif' = [q \in DOMAIN notif |-> RowAfter(q[1], q[2])]
      /\ UNCHANGED <<job, told>>
  BY DEF Change
<1>3. DOMAIN notif' = DOMAIN notif /\ notif' \in [DOMAIN notif' -> NoticeRows]
  <2>1. ASSUME NEW q \in DOMAIN notif PROVE sched'[q[1]].attempts \in Int
    <3>1. q[1] \in Bookings
      BY KeysAre DEF NoticesInv
    <3> QED BY <1>1, <3>1, BoundsAssumption DEF LifeTurn, LifeInv, DbTypeOK, Agenda
  <2> QED BY <1>2, <2>1, RowAfterTyped DEF NoticesInv
<1>4. NoticesTyped'
  <2>1. JobRows' = JobRows
    BY <1>3 DEF JobRows, Mails, Q!NotNow, Times
  <2> QED BY <1>2, <1>3, <2>1 DEF NoticesInv, NoticesTyped, Mails, Q!NotNow, Times
<1>5. ASSUME NEW q \in DOMAIN notif, notif[q].status # "none"
      PROVE  notif'[q].status # "none"
  <2>1. notif[q] = notif[q[1], q[2]]
    BY KeysAre DEF NoticesInv
  <2> PICK r : r = notif[q]
    OBVIOUS
  <2>2. r \in NoticeRows
    BY DEF NoticesInv, NoticesTyped
  <2>3. \/ RowAfter(q[1], q[2]) = r \/ RowAfter(q[1], q[2]) = Q!Inserted(r, Q!Now)
        \/ RowAfter(q[1], q[2]) = Replaced(r, sched'[q[1]].attempts)
      \/ RowAfter(q[1], q[2]) = Q!Withdrawn(r)
    BY <2>1, RowAfterCases
  <2>4. /\ Q!Inserted(r, Q!Now).status # "none"
        /\ Q!Withdrawn(r).status # "none"
        /\ Replaced(r, sched'[q[1]].attempts).status # "none"
    BY <1>5, <2>2 DEF NoticeRows, Q!Inserted, Q!Withdrawn, Replaced, Q!NoRow
  <2> QED BY <1>2, <1>5, <2>3, <2>4
<1>6. ASSUME NEW q \in DOMAIN notif
      PROVE  RowHolds(q)' /\ MailHolds(q[1], told[q].about)'
  <2>1. q[1] \in Bookings /\ q = <<q[1], q[2]>> /\ RowHolds(q)
          /\ MailHolds(q[1], told[q].about)
    BY KeysAre DEF NoticesInv
  <2> PICK b \in Bookings : b = q[1]
    BY <2>1
  <2>2. told[q].about \in Mails
    BY DEF NoticesInv, NoticesTyped
  <2>3. MoneyTurn(b) /\ BookInv(b) /\ BookInv(b)'
    BY <1>1 DEF LifeTurn, Turns, LifeInv
  <2>4. /\ Cancelled(b) => Cancelled(b)'
        /\ Freed(b) => Freed(b)'
    <3> HIDE DEF Paid
    <3> QED BY <2>3 DEF Freed, MoneyTurn, BookInv, Cancelled, Confirmed
  <2>5. WithDeparture(b) => Freed(b)'
    <3> HIDE DEF Paid
    <3> QED BY <1>1 DEF WithDeparture, LifeTurn, DepTurn, Freed
  <2>6. RowHolds(q)'
    <3>1. CASE notif'[q] = notif[q]
      BY <2>1, <2>4, <3>1 DEF RowHolds
    <3>2. CASE notif'[q] # notif[q] /\ q[2] \in {BelowMin, CancelConfirmed}
      BY <1>2, <2>1, <2>5, <3>2, CancelRows, KindsDiffer DEF RowHolds, Cancelled
    <3>3. CASE q[2] \notin {BelowMin, CancelConfirmed}
      BY <3>3 DEF RowHolds
    <3> QED BY <3>1, <3>2, <3>3
  <2>7. MailHolds(b, told[q].about)'
    <3> PICK m \in Mails : m = told[q].about
      BY <2>2
    <3>1. MailHolds(b, m)'
      BY <1>1, <2>1, MailStays
    <3>2. told'[q].about = m
      BY <1>2
    <3> QED BY <3>1, <3>2 DEF MailHolds
  <2> QED BY <2>6, <2>7
<1>7. job' # Q!Idle => /\ notif'[job'.key].status # "none"
                       /\ MailHolds(job.key[1], job.about)'
  <2> SUFFICES ASSUME job # Q!Idle
               PROVE  /\ notif'[job.key].status # "none"
                      /\ MailHolds(job.key[1], job.about)'
    BY <1>2 DEF Q!Idle
  <2>1. job \in JobRows /\ notif[job.key].status # "none"
          /\ MailHolds(job.key[1], job.about)
    BY DEF NoticesInv, NoticesTyped
  <2>2. job.key \in DOMAIN notif /\ job.about \in Mails
    BY <2>1 DEF JobRows
  <2>3. job.key[1] \in Bookings
    BY <2>2, KeysAre DEF NoticesInv
  <2> PICK b \in Bookings, m \in Mails : b = job.key[1] /\ m = job.about
    BY <2>2, <2>3
  <2>4. MailHolds(b, m)'
    BY <1>1, <2>1, MailStays
  <2> QED BY <1>2, <1>5, <2>1, <2>2, <2>4 DEF MailHolds
<1> QED BY <1>1, <1>3, <1>4, <1>6, <1>7 DEF NoticesInv

LEMMA NoticesStart == NoticesInit => LifeInv /\ NoticesInv
<1> SUFFICES ASSUME NoticesInit PROVE LifeInv /\ NoticesInv
  OBVIOUS
<1>1. LifeInv
  BY LifeInit DEF NoticesInit
<1> PICK kind \in Followed :
         /\ notif = [q \in Bookings \X {kind} |-> Q!NoRow]
         /\ told = [q \in Bookings \X {kind} |-> Q!Untold]
  BY DEF NoticesInit
<1>2. Q!NoRow \in NoticeRows /\ Q!Untold \in [gen : Int, about : Mails]
  BY NotNowIsMail DEF Q!NoRow, Q!Untold, Q!Now, NoticeRows
<1>3. NoticesTyped
  BY <1>2 DEF NoticesTyped, NoticesInit
<1>4. ASSUME NEW q \in DOMAIN notif PROVE RowHolds(q) /\ MailHolds(q[1], told[q].about)
  BY <1>4 DEF RowHolds, MailHolds, Q!NoRow, Q!Untold, Q!NotNow
<1> QED BY <1>1, <1>3, <1>4 DEF NoticesInv, NoticesInit

LEMMA NoticesStay ==
  ASSUME LifeInv, NoticesInv, [NoticesNext]_notices PROVE LifeInv' /\ NoticesInv'
<1>1. CASE Change
  BY <1>1, ChangeKeeps DEF LifeTurn
<1>2. CASE Post
  BY <1>2, PostSteps, PostKeeps, RestTurn DEF Post, LifeTurn
<1>3. CASE UNCHANGED notices
  <2>1. UNCHANGED <<now, status, mark, sched, row, refund, event, dep,
                    notif, job, told>>
    BY <1>3 DEF notices, db
  <2>2. LifeInv'
    BY <1>3, RestTurn DEF notices, LifeTurn
  <2>3. NoticesTyped'
    BY <2>1 DEF NoticesInv, NoticesTyped, JobRows, Mails, Times, Q!NotNow, Q!Idle
  <2>4. \A q \in DOMAIN notif : RowHolds(q)' /\ MailHolds(q[1], told[q].about)'
    BY <2>1 DEF NoticesInv, RowHolds, MailHolds, Freed, Cancelled, Live, Paid
  <2>5. job # Q!Idle => /\ notif'[job'.key].status # "none"
                        /\ MailHolds(job.key[1], job.about)'
    BY <2>1 DEF NoticesInv, MailHolds, Freed, Cancelled, Live, Paid
  <2> QED BY <2>1, <2>2, <2>3, <2>4, <2>5 DEF NoticesInv, Q!Idle
<1> QED BY <1>1, <1>2, <1>3 DEF NoticesNext

\* Whatever a mail promised, as long as it matters, the booking keeps
\* (ChargeNotices: the functions of the database against the job of the mails).
THEOREM NoticesInvariant == NoticesSpec => [](LifeInv /\ NoticesInv)
<1>1. LifeInv /\ NoticesInv /\ [NoticesNext]_notices => LifeInv' /\ NoticesInv'
  BY NoticesStay
<1> QED BY <1>1, NoticesStart, PTL DEF NoticesSpec

\* Whoever was told that nothing was charged keeps no charge: one that is seen
\* afterwards is given back (cancellation and departure mails against
\* confirm_booking and cancel_booking).
THEOREM NoChargeTrue == NoticesSpec => []NoChargeIsTrue
<1>1. LifeInv /\ NoticesInv => NoChargeIsTrue
  <2> SUFFICES ASSUME NoticesInv, NEW q \in DOMAIN told,
                      told[q].about.mail = "cancelled",
                      told[q].about.money = "no_charge", Charged(q[1])
               PROVE  refund[q[1]] # NoId
    BY DEF NoChargeIsTrue
  <2>1. q \in DOMAIN notif
    BY DEF NoticesInv, NoticesTyped
  <2>2. q[1] \in Bookings /\ MailHolds(q[1], told[q].about)
    BY <2>1, KeysAre DEF NoticesInv
  <2>3. Paid(q[1])
    BY <2>2, PaidIdLemma DEF Charged
  <2> HIDE DEF Paid
  <2> QED BY <2>2, <2>3 DEF MailHolds, Freed
<1> QED BY <1>1, NoticesInvariant, PTL

\* The system does not cancel a booking before the moment until which it told
\* the tourist to act, when the cycle of the departure was open as it told so
\* (PromisedDeadline against release_authorization, close_departure_charge,
\* resolve_departure_minimum and the watchdog).
THEOREM DeadlineKept == NoticesSpec => DeadlineIsKept
<1>1. ASSUME LifeInv, NoticesInv, [NoticesNext]_notices, NEW q \in DOMAIN told,
             told[q].about.mail \in {"card", "authenticate"},
             told[q].about.cycle, Live(q[1]), now < told[q].about.by,
             Cancelled(q[1])'
      PROVE  CancelledByHand(q[1]) \/ StaffResolves
  <2>1. q \in DOMAIN notif /\ told[q].about \in Mails
    BY <1>1 DEF NoticesInv, NoticesTyped
  <2>2. q[1] \in Bookings /\ MailHolds(q[1], told[q].about)
    BY <1>1, <2>1, KeysAre DEF NoticesInv
  <2> PICK b \in Bookings, m \in Mails : b = q[1] /\ m = told[q].about
    BY <2>1, <2>2
  <2>3. /\ dep.deadline # Null /\ m.by <= dep.deadline
        /\ sched[b].recovery # Null /\ m.by <= sched[b].recovery
    BY <1>1, <2>2 DEF MailHolds
  <2>4. m.by \in Times
    BY <1>1 DEF Mails, Q!NotNow
  <2>5. dep.deadline \in Times /\ sched[b].recovery \in Times /\ now \in Times
    BY <1>1, <2>3 DEF LifeInv, DbTypeOK, Departure, Agenda
  <2>6. ~PastDeadline /\ ~Started /\ ~(sched[b].recovery <= now)
    BY <1>1, <2>3, <2>4, <2>5, TimesAssumption DEF PastDeadline, Started, Times
  <2>7. CASE Change
    <3>1. MayEnd(b)
      BY <1>1, <2>7, ChangeKeeps DEF LifeTurn, Turns, StatusTurn
    <3> QED BY <2>6, <3>1 DEF MayEnd
  <2>8. CASE UNCHANGED db
    BY <1>1, <2>8 DEF db, Live, Cancelled
  <2> QED BY <1>1, <2>7, <2>8 DEF NoticesNext, Post, notices
<1>2. LifeInv /\ NoticesInv /\ [NoticesNext]_notices =>
        [ \A q \in DOMAIN told :
            /\ told[q].about.mail \in {"card", "authenticate"}
            /\ told[q].about.cycle
            /\ Live(q[1]) /\ now < told[q].about.by
            => \/ ~(Cancelled(q[1])')
               \/ CancelledByHand(q[1]) \/ StaffResolves ]_notices
  BY <1>1
<1> QED BY <1>2, NoticesInvariant, PTL DEF NoticesSpec, DeadlineIsKept

-----------------------------------------------------------------------------
(* The notices of the rejected charges.                                    *)

\* No row before its failure; a row is never newer than the last failure; what
\* the job works on is still to be sent, unless the booking ended; and the job
\* takes a row away when the card can no longer be changed, or the row is older.
UnwrittenYet ==
    \A q \in DOMAIN notif, n \in 1..3 :
        q[2] = FailedKind(n) /\ sched[q[1]].attempts < n => notif[q].status = "none"

NoneNewer ==
    \A q \in DOMAIN notif :
        sched[q[1]].attempts > 0 /\ q[2] = FailedKind(sched[q[1]].attempts)
        => notif[q].gen <= GenOf(sched[q[1]].attempts)

AtPending ==
    job # Q!Idle =>
        \/ notif[job.key].status = "pending"
        \/ status[job.key[1]] \in {"confirmed", "cancelled"}

JobSpares ==
    /\ job.at = "cancel" /\ sched[job.key[1]].attempts > 0
    /\ job.key[2] = FailedKind(sched[job.key[1]].attempts)
    => \/ ~WaitsForCard(job.key[1])
       \/ notif[job.key].gen < GenOf(sched[job.key[1]].attempts)

FailInv == UnwrittenYet /\ NoneNewer /\ AtPending /\ JobSpares

LEMMA FailedKindsDiffer ==
  ASSUME NEW n \in 1..3, NEW m \in 1..3, FailedKind(n) = FailedKind(m)
  PROVE  n = m
<1>1. FailedKind(n)[2] = n /\ FailedKind(m)[2] = m
  BY DEF FailedKind, Least
<1> QED BY <1>1

LEMMA FailedIsKind ==
  ASSUME NEW n \in Nat, n > 0
  PROVE  /\ FailedKind(n) \in FailedKinds
         /\ FailedKind(n) # Reserved /\ FailedKind(n) # Requires
         /\ FailedKind(n) # BelowMin /\ FailedKind(n) # CancelConfirmed
         /\ n >= 3 => FailedKind(n) = FailedKind(3)
<1>1. Least(n, 3) \in 1..3 /\ (n >= 3 => Least(n, 3) = 3)
  BY DEF Least
<1>2. FailedKind(n) = FailedKind(Least(n, 3))
  BY <1>1 DEF FailedKind, Least
<1> QED BY <1>1, <1>2, KindsDiffer DEF FailedKinds

\* What one step of the life of a booking does to its attempts.
LEMMA AttemptsGrow ==
  ASSUME LifeInv, LifeTurn, NEW b \in Bookings
  PROVE  /\ sched[b].attempts \in Nat /\ sched'[b].attempts \in Nat
         /\ \/ sched'[b].attempts = sched[b].attempts
            \/ /\ sched'[b].attempts = sched[b].attempts + 1
               /\ status'[b] = "pending_minimum"
         /\ /\ WaitsForCard(b)' /\ sched'[b].attempts = sched[b].attempts
            /\ sched[b].attempts > 0 /\ WithinAttempts
            => WaitsForCard(b)
         /\ status[b] \in {"confirmed", "cancelled"} =>
               status'[b] \in {"confirmed", "cancelled"}
<1>1. AgendaTurn(b) /\ StatusTurn(b)
  BY DEF LifeTurn, Turns
<1>2. /\ now \in Int /\ now' \in Int /\ now <= now'
      /\ sched[b] \in Agenda /\ sched'[b] \in Agenda
  BY TimesAssumption DEF LifeInv, LifeTurn, DepTurn, DbTypeOK, Times
<1>3. /\ sched[b].attempts \in Nat /\ sched'[b].attempts \in Nat
      /\ sched'[b].recovery \in Int \cup {Null}
  BY <1>2, TimesAssumption, BoundsAssumption DEF Agenda, Times
<1>4. ASSUME WaitsForCard(b)', sched'[b].attempts = sched[b].attempts,
             sched[b].attempts > 0, WithinAttempts
      PROVE  WaitsForCard(b)
  <2>1. /\ status'[b] = "pending_minimum"
        /\ sched'[b].recovery # Null /\ sched'[b].recovery > now'
    BY <1>4 DEF WaitsForCard, IsFuture
  <2>2. status[b] = "pending_minimum" /\ sched'[b].recovery = sched[b].recovery
    BY <1>1, <1>3, <1>4, <2>1 DEF AgendaTurn
  <2>3. sched[b].recovery > now
    BY <1>2, <1>3, <2>1, <2>2
  <2> QED BY <2>1, <2>2, <2>3 DEF WaitsForCard, IsFuture
<1>5. status[b] \in {"confirmed", "cancelled"} =>
         status'[b] \in {"confirmed", "cancelled"}
  <2>1. status'[b] \in {"absent", "pending_minimum", "pending_payment", "confirmed",
                         "cancelled"}
    BY DEF LifeTurn, LifeInv, DbTypeOK, Statuses
  <2> QED BY <1>1, <2>1 DEF StatusTurn, Live
<1> QED BY <1>1, <1>3, <1>4, <1>5 DEF AgendaTurn

\* Attempts before and after a step.
LEMMA NextAttempt ==
  ASSUME NEW old \in Nat, NEW new \in Nat, new = old \/ new = old + 1
  PROVE  /\ GenOf(old) \in Nat /\ GenOf(new) \in Nat /\ GenOf(old) <= GenOf(new)
         /\ new > old <=> new # old
         /\ new # old => /\ old < new /\ new > 0
                         /\ new > 3 => old > 0 /\ old >= 3 /\ GenOf(old) < GenOf(new)
                         /\ ~(new > 3) => new \in 1..3
         /\ \A n \in 1..3 : new < n => old < n
<1>1. /\ GenOf(old) \in Nat /\ GenOf(new) \in Nat /\ GenOf(old) <= GenOf(new)
      /\ new # old /\ new > 3 => GenOf(old) < GenOf(new)
  BY DEF GenOf, Least
<1> QED BY <1>1

LEMMA Compared ==
  ASSUME NEW old \in Nat, NEW new \in Nat
  PROVE  /\ new = old => ~(new > old)
         /\ new > old => new > 0
         /\ old >= 3 /\ new > old => new >= 3
  OBVIOUS

LEMMA Positive ==
  ASSUME NEW n \in 1..3
  PROVE  n \in Nat /\ n > 0
  OBVIOUS

LEMMA GenBound ==
  ASSUME NEW x \in Int, NEW y \in Nat, NEW z \in Nat, NEW g,
         y <= z, x <= y \/ g = 0, g = x \/ g = 0 \/ g = z
  PROVE  g <= z
  OBVIOUS

LEMMA FailedDiffers ==
  ASSUME NEW n \in 1..3, NEW new \in Nat, new > 0, new < n
  PROVE  FailedKind(new) # FailedKind(n)
<1>1. new \in 1..3 /\ new # n
  OBVIOUS
<1> QED BY <1>1, FailedKindsDiffer

\* A row that waits to be sent is only withdrawn, and a processed one keeps its
\* generation but for a new failure.
LEMMA RowKept ==
  ASSUME NEW b, NEW kind, NEW r \in NoticeRows, r = notif[b, kind],
         sched[b].attempts \in Nat, sched'[b].attempts \in Nat
  PROVE  /\ r.status = "pending" =>
               /\ RowAfter(b, kind).gen = r.gen
               /\ RowAfter(b, kind).status = "pending" \/ Ended(b)
         /\ r.status # "none" /\ sched'[b].attempts = sched[b].attempts =>
               RowAfter(b, kind).gen = r.gen
         /\ \/ RowAfter(b, kind).gen = r.gen
            \/ r.status = "none" /\ RowAfter(b, kind).gen = 0
            \/ RowAfter(b, kind).gen = GenOf(sched'[b].attempts)
<1> DEFINE old == sched[b].attempts
           new == sched'[b].attempts
           ins == Q!Inserted(r, Q!Now)
           rep == Replaced(r, new)
           wit == Q!Withdrawn(r)
           after == RowAfter(b, kind)
<1>1. old \in Nat /\ new \in Nat
  OBVIOUS
<1>2. after \in {r, ins, wit, rep}
  BY RowAfterCases
<1>3. after \in {r, ins, wit} \/ new > old
  BY RowAfterCases
<1>4. after \in {r, ins, rep} \/ Ended(b)
  BY RowAfterCases
<1> HIDE DEF old, new, after
<1>5. /\ r.status # "none" => ins = r
      /\ r.status = "none" => ins.gen = 0
      /\ r.status = "pending" => rep = r
      /\ rep.gen \in {r.gen, GenOf(new)}
      /\ wit.gen = r.gen
  BY DEF Q!Inserted, Q!Enqueued, Replaced, Q!Withdrawn, Q!NoRow, NoticeRows
<1> HIDE DEF ins, rep, wit
<1>6. r.status = "pending" => after.gen = r.gen /\ (after.status = "pending" \/ Ended(b))
  BY <1>2, <1>4, <1>5
<1>7. new = old => ~(new > old)
  BY <1>1, Compared
<1>8. r.status # "none" /\ new = old => after.gen = r.gen
  BY <1>3, <1>5, <1>7
<1>9. \/ after.gen = r.gen
      \/ r.status = "none" /\ after.gen = 0
      \/ after.gen = GenOf(new)
  BY <1>2, <1>5
<1> QED BY <1>6, <1>8, <1>9 DEF old, new, after

\* The row of a failure as it is recorded.
LEMMA FailedRow ==
  ASSUME NEW b, sched[b].attempts \in Nat, sched'[b].attempts \in Nat,
         sched'[b].attempts > sched[b].attempts,
         NEW r \in NoticeRows, r = notif[b, FailedKind(sched'[b].attempts)],
         ~(sched'[b].attempts > 3) => r.status = "none"
  PROVE  /\ RowAfter(b, FailedKind(sched'[b].attempts)).status = "pending"
         /\ ~(sched'[b].attempts > 3) =>
               RowAfter(b, FailedKind(sched'[b].attempts)).gen = 0
<1> DEFINE new  == sched'[b].attempts
           kind == FailedKind(new)
           old  == sched[b].attempts
<1>1. new \in Nat /\ old \in Nat /\ new > old
  OBVIOUS
<1>2. /\ kind # Reserved /\ kind # Requires
      /\ kind # BelowMin /\ kind # CancelConfirmed
  <2> HIDE DEF new, old
  <2>1. new > 0
    BY <1>1, Compared
  <2> QED BY <1>1, <2>1, FailedIsKind
<1>3. \/ new > 3 /\ RowAfter(b, kind) = Replaced(r, new)
      \/ ~(new > 3) /\ RowAfter(b, kind) = Q!Inserted(r, Q!Now)
  BY <1>2, RowAfterCases
<1>4. /\ r.status = "none" => Q!Inserted(r, Q!Now).status = "pending"
      /\ r.status = "none" => Q!Inserted(r, Q!Now).gen = 0
      /\ Replaced(r, new).status = "pending"
  BY DEF Q!Inserted, Q!Enqueued, Replaced, Q!NoRow, NoticeRows
<1> QED BY <1>3, <1>4

\* The row of a failure that has not come.
LEMMA RowOfLater ==
  ASSUME NEW b, NEW n \in 1..3, NEW r \in NoticeRows, r = notif[b, FailedKind(n)],
         sched[b].attempts \in Nat, sched'[b].attempts \in Nat,
         sched'[b].attempts < n, r.status = "none"
  PROVE  RowAfter(b, FailedKind(n)).status = "none"
<1> DEFINE new  == sched'[b].attempts
           kind == FailedKind(n)
           old  == sched[b].attempts
<1>1. new \in Nat /\ old \in Nat /\ new < n
  OBVIOUS
<1>2. /\ kind # Reserved /\ kind # Requires
      /\ kind # BelowMin /\ kind # CancelConfirmed
  <2>1. n \in Nat /\ n > 0
    BY Positive
  <2> QED BY <2>1, FailedIsKind
<1>3. ~(new > old /\ kind = FailedKind(new))
  <2> HIDE DEF new, old
  <2>1. new > old => new > 0
    BY <1>1, Compared
  <2> QED BY <1>1, <2>1, FailedDiffers
<1>4. RowAfter(b, kind) \in {r, Q!Withdrawn(r)}
  BY <1>2, <1>3, RowAfterCases
<1>5. Q!Withdrawn(r) = r
  BY DEF Q!Withdrawn
<1> QED BY <1>4, <1>5

LEMMA FailStart == NoticesInit => FailInv
<1> SUFFICES ASSUME NoticesInit PROVE FailInv
  OBVIOUS
<1> PICK kind \in Followed : notif = [q \in Bookings \X {kind} |-> Q!NoRow]
  BY DEF NoticesInit
<1>1. ASSUME NEW q \in DOMAIN notif
      PROVE  /\ notif[q].status = "none"
             /\ sched[q[1]].attempts = 0
  BY <1>1 DEF Q!NoRow, NoticesInit, DbInit, NoAgenda
<1>2. job = Q!Idle /\ job.at # "cancel"
  BY DEF NoticesInit, Q!Idle
<1> QED BY <1>1, <1>2 DEF FailInv, UnwrittenYet, NoneNewer, AtPending, JobSpares

\* A row and its booking, as a step of the life of the bookings finds them.
LEMMA FailChange ==
  ASSUME LifeInv, NoticesInv, Change, NEW q \in DOMAIN notif
  PROVE  /\ q[1] \in Bookings /\ q = <<q[1], q[2]>>
         /\ notif[q] \in NoticeRows /\ notif[q] = notif[q[1], q[2]]
         /\ notif'[q] = RowAfter(q[1], q[2])
         /\ sched[q[1]].attempts \in Nat /\ sched'[q[1]].attempts \in Nat
         /\ \/ sched'[q[1]].attempts = sched[q[1]].attempts
            \/ /\ sched'[q[1]].attempts = sched[q[1]].attempts + 1
               /\ status'[q[1]] = "pending_minimum"
<1>1. LifeTurn
  BY ChangeKeeps
<1>2. q[1] \in Bookings /\ q = <<q[1], q[2]>>
  BY KeysAre DEF NoticesInv
<1>3. notif[q] \in NoticeRows /\ notif[q] = notif[q[1], q[2]]
  BY <1>2 DEF NoticesInv, NoticesTyped
<1>4. notif'[q] = RowAfter(q[1], q[2])
  BY DEF Change
<1> QED BY <1>1, <1>2, <1>3, <1>4, AttemptsGrow

LEMMA KeptUnderChange ==
  ASSUME LifeInv, NoticesInv, Change, NEW q \in DOMAIN notif
  PROVE  LET r   == notif[q]
             s   == notif'[q]
             new == sched'[q[1]].attempts
         IN  /\ r.status = "pending" =>
                   s.gen = r.gen /\ (s.status = "pending" \/ Ended(q[1]))
             /\ r.status # "none" /\ new = sched[q[1]].attempts => s.gen = r.gen
             /\ s.gen = r.gen \/ (r.status = "none" /\ s.gen = 0) \/ s.gen = GenOf(new)
<1> DEFINE b == q[1]
           kind == q[2]
           r == notif[q]
<1>1. /\ r \in NoticeRows /\ r = notif[b, kind]
      /\ notif'[q] = RowAfter(b, kind)
      /\ sched[b].attempts \in Nat /\ sched'[b].attempts \in Nat
  BY FailChange
<1> HIDE DEF b, kind, r
<1>2. /\ r.status = "pending" =>
            /\ RowAfter(b, kind).gen = r.gen
            /\ RowAfter(b, kind).status = "pending" \/ Ended(b)
      /\ r.status # "none" /\ sched'[b].attempts = sched[b].attempts =>
            RowAfter(b, kind).gen = r.gen
      /\ \/ RowAfter(b, kind).gen = r.gen
         \/ r.status = "none" /\ RowAfter(b, kind).gen = 0
         \/ RowAfter(b, kind).gen = GenOf(sched'[b].attempts)
  BY <1>1, RowKept
<1> QED BY <1>1, <1>2 DEF b, kind, r

LEMMA UnwrittenUnderChange ==
  ASSUME LifeInv, NoticesInv, FailInv, Change
  PROVE  UnwrittenYet'
<1> SUFFICES ASSUME NEW q \in DOMAIN notif, NEW n \in 1..3, q[2] = FailedKind(n),
                    sched'[q[1]].attempts < n
             PROVE  notif'[q].status = "none"
  BY DEF UnwrittenYet, Change
<1> DEFINE old == sched[q[1]].attempts
           new == sched'[q[1]].attempts
<1>1. /\ notif[q] \in NoticeRows /\ notif[q] = notif[q[1], q[2]]
      /\ notif'[q] = RowAfter(q[1], q[2])
      /\ old \in Nat /\ new \in Nat /\ (new = old \/ new = old + 1)
  BY FailChange
<1>2. old < n
  <2>1. new < n
    OBVIOUS
  <2> HIDE DEF old, new
  <2> QED BY <1>1, <2>1, NextAttempt
<1>3. notif[q].status = "none"
  BY <1>2 DEF FailInv, UnwrittenYet
<1> QED BY <1>1, <1>3, RowOfLater

\* The row of a failure that is recorded now is new, up to the third.
LEMMA FreshRow ==
  ASSUME FailInv, NEW q \in DOMAIN notif, NEW n \in 1..3, q[2] = FailedKind(n),
         sched[q[1]].attempts < n
  PROVE  notif[q].status = "none"
  BY DEF FailInv, UnwrittenYet

LEMMA NoneNewerUnderChange ==
  ASSUME LifeInv, NoticesInv, FailInv, Change
  PROVE  NoneNewer'
<1> SUFFICES ASSUME NEW q \in DOMAIN notif, sched'[q[1]].attempts > 0,
                    q[2] = FailedKind(sched'[q[1]].attempts)
             PROVE  notif'[q].gen <= GenOf(sched'[q[1]].attempts)
  BY DEF NoneNewer, Change
<1> DEFINE old == sched[q[1]].attempts
           new == sched'[q[1]].attempts
           r   == notif[q]
           g   == notif'[q].gen
<1>1. /\ r \in NoticeRows /\ r = notif[q[1], q[2]]
      /\ notif'[q] = RowAfter(q[1], q[2])
      /\ old \in Nat /\ new \in Nat /\ (new = old \/ new = old + 1)
  BY FailChange
<1>2. g = r.gen \/ (r.status = "none" /\ g = 0) \/ g = GenOf(new)
  BY KeptUnderChange
<1>3. new = old => r.gen <= GenOf(old)
  BY DEF FailInv, NoneNewer
<1>4. old > 0 /\ old >= 3 /\ new # old => r.gen <= GenOf(old)
  <2> SUFFICES ASSUME old > 0, old >= 3, new # old PROVE r.gen <= GenOf(old)
    OBVIOUS
  <2>1. new > 0 /\ new >= 3
    <3>1. old >= 3 /\ new # old
      OBVIOUS
    <3> HIDE DEF old, new
    <3>2. new > old
      BY <1>1, <3>1, NextAttempt
    <3> QED BY <1>1, <3>1, <3>2, Compared
  <2>2. q[2] = FailedKind(new) /\ FailedKind(new) = FailedKind(old)
    <3>1. FailedKind(new) = FailedKind(3) /\ FailedKind(old) = FailedKind(3)
      <4> HIDE DEF old, new
      <4> QED BY <1>1, <2>1, FailedIsKind
    <3> QED BY <3>1
  <2> QED BY <2>2 DEF FailInv, NoneNewer
<1>5. new # old /\ ~(new > 3) => g = 0
  <2> SUFFICES ASSUME new # old, ~(new > 3) PROVE g = 0
    OBVIOUS
  <2>1. new \in 1..3 /\ old < new /\ new > old
    <3> HIDE DEF old, new
    <3> QED BY <1>1, NextAttempt
  <2>2. r.status = "none"
    BY <2>1, FreshRow
  <2> QED BY <1>1, <2>1, <2>2, FailedRow
<1>6. r.gen \in Int
  BY <1>1 DEF NoticeRows
<1> HIDE DEF old, new, r, g
<1>7. /\ GenOf(old) \in Nat /\ GenOf(new) \in Nat /\ GenOf(old) <= GenOf(new)
      /\ new # old /\ new > 3 => old > 0 /\ old >= 3
  BY <1>1, NextAttempt
<1>8. r.gen <= GenOf(old) \/ g = 0
  BY <1>3, <1>4, <1>5, <1>7
<1>9. g <= GenOf(new)
  BY <1>2, <1>6, <1>7, <1>8, GenBound
<1> QED BY <1>9 DEF g, new

LEMMA AtPendingUnderChange ==
  ASSUME LifeInv, NoticesInv, FailInv, Change
  PROVE  AtPending'
<1> SUFFICES ASSUME job # Q!Idle
             PROVE  \/ notif'[job.key].status = "pending"
                    \/ status'[job.key[1]] \in {"confirmed", "cancelled"}
  BY DEF AtPending, Q!Idle, Change
<1>1. job.key \in DOMAIN notif
  BY DEF NoticesInv, NoticesTyped, JobRows
<1> PICK q \in DOMAIN notif : q = job.key
  BY <1>1
<1>2. /\ notif[q] \in NoticeRows /\ notif[q] = notif[q[1], q[2]]
      /\ notif'[q] = RowAfter(q[1], q[2]) /\ q[1] \in Bookings
      /\ sched[q[1]].attempts \in Nat /\ sched'[q[1]].attempts \in Nat
  BY FailChange
<1>3. CASE notif[q].status = "pending"
  BY <1>3, KeptUnderChange DEF Ended
<1>4. CASE status[q[1]] \in {"confirmed", "cancelled"}
  BY <1>2, <1>4, ChangeKeeps, AttemptsGrow
<1> QED BY <1>3, <1>4 DEF FailInv, AtPending

LEMMA SparesUnderChange ==
  ASSUME LifeInv, NoticesInv, FailInv, Change
  PROVE  JobSpares'
<1> SUFFICES ASSUME job.at = "cancel", sched'[job.key[1]].attempts > 0,
                    job.key[2] = FailedKind(sched'[job.key[1]].attempts),
                    WaitsForCard(job.key[1])'
             PROVE  notif'[job.key].gen < GenOf(sched'[job.key[1]].attempts)
  BY DEF JobSpares, WaitsForCard, IsFuture, Change
<1>1. job # Q!Idle /\ job.key \in DOMAIN notif /\ notif[job.key].status # "none"
  BY JobAt
<1> PICK q \in DOMAIN notif : q = job.key
  BY <1>1
<1> DEFINE old == sched[q[1]].attempts
           new == sched'[q[1]].attempts
           r   == notif[q]
           g   == notif'[q].gen
<1>2. /\ r \in NoticeRows /\ r = notif[q[1], q[2]] /\ r.status # "none"
      /\ notif'[q] = RowAfter(q[1], q[2]) /\ q[1] \in Bookings
      /\ old \in Nat /\ new \in Nat /\ (new = old \/ new = old + 1)
      /\ new > 0 /\ q[2] = FailedKind(new)
  BY <1>1, FailChange
<1>3. WaitsForCard(q[1])' /\ status'[q[1]] = "pending_minimum"
  BY DEF WaitsForCard, IsFuture, Change
<1>4. new = old => r.gen < GenOf(old) /\ g = r.gen
  <2> SUFFICES ASSUME new = old PROVE r.gen < GenOf(old) /\ g = r.gen
    OBVIOUS
  <2>1. old > 0
    BY <1>2
  <2>2. WaitsForCard(q[1])
    <3>1. LifeTurn /\ WithinAttempts
      BY ChangeKeeps DEF Change
    <3> QED BY <1>2, <1>3, <2>1, <3>1, AttemptsGrow
  <2>3. r.gen < GenOf(old)
    BY <1>2, <2>1, <2>2 DEF FailInv, JobSpares
  <2>4. g = r.gen
    BY <1>2, KeptUnderChange
  <2> QED BY <2>3, <2>4
<1>5. new # old => new > 3 /\ r.gen <= GenOf(old) /\ g = r.gen
  <2> SUFFICES ASSUME new # old PROVE new > 3 /\ r.gen <= GenOf(old) /\ g = r.gen
    OBVIOUS
  <2>1. r.status = "pending"
    <3>1. LifeTurn
      BY ChangeKeeps
    <3>2. status[q[1]] \notin {"confirmed", "cancelled"}
      BY <1>2, <1>3, <3>1, AttemptsGrow
    <3> QED BY <1>1, <3>2 DEF FailInv, AtPending
  <2>2. new > 3
    <3> SUFFICES ASSUME ~(new > 3) PROVE FALSE
      OBVIOUS
    <3>1. new \in 1..3 /\ old < new
      <4>1. new # old /\ ~(new > 3)
        OBVIOUS
      <4> HIDE DEF old, new
      <4> QED BY <1>2, <4>1, NextAttempt
    <3> QED BY <1>2, <3>1, FreshRow
  <2>3. old > 0 /\ old >= 3 /\ new >= 3
    <3>1. new # old
      OBVIOUS
    <3> HIDE DEF old, new
    <3>2. old > 0 /\ old >= 3 /\ new > old
      BY <1>2, <2>2, <3>1, NextAttempt
    <3> QED BY <1>2, <3>2, Compared
  <2>4. FailedKind(new) = FailedKind(old)
    <3> HIDE DEF old, new
    <3> QED BY <1>2, <2>3, FailedIsKind
  <2>5. r.gen <= GenOf(old)
    BY <1>2, <2>3, <2>4 DEF FailInv, NoneNewer
  <2>6. g = r.gen
    BY <2>1, KeptUnderChange
  <2> QED BY <2>2, <2>5, <2>6
<1>6. r.gen \in Int
  BY <1>2 DEF NoticeRows
<1>7. g < GenOf(new)
  <2> HIDE DEF old, new, r, g
  <2>1. /\ GenOf(old) \in Nat /\ GenOf(new) \in Nat
        /\ new # old /\ new > 3 => GenOf(old) < GenOf(new)
    BY <1>2, NextAttempt
  <2> QED BY <1>4, <1>5, <1>6, <2>1
<1> QED BY <1>7

LEMMA FailUnderChange ==
  ASSUME LifeInv, NoticesInv, FailInv, Change
  PROVE  FailInv'
  BY UnwrittenUnderChange, NoneNewerUnderChange, AtPendingUnderChange,
     SparesUnderChange DEF FailInv

\* What the job finds to be taken away does not wait for a card.
LEMMA CancelledIsOver ==
  ASSUME NEW b, NEW kind \in FailedKinds, Mail(b, kind) = Q!NotNow
  PROVE  ~WaitsForCard(b)
<1>1. Mail(b, kind) = CardMail(b)
  BY KindsDiffer DEF Mail
<1>2. ASSUME NEW t PROVE ActBy("card", t) # Q!NotNow
  <2>1. ActBy("card", t).mail = "card" /\ Q!NotNow.mail = "none"
    BY DEF ActBy, Q!NotNow
  <2> QED BY <2>1
<1> QED BY <1>1, <1>2 DEF CardMail

LEMMA FailUnderPost ==
  ASSUME LifeInv, NoticesInv, FailInv, Post
  PROVE  FailInv'
<1>1. PostRows /\ PostJob /\ UNCHANGED <<status, sched, now>>
  BY PostSteps DEF Post, PostEffect, db
<1>2. DOMAIN notif' = DOMAIN notif
  BY <1>1 DEF PostRows
<1>3. UnwrittenYet'
  BY <1>1, <1>2 DEF FailInv, UnwrittenYet, PostRows
<1>4. NoneNewer'
  BY <1>1, <1>2 DEF FailInv, NoneNewer, PostRows
<1>5. AtPending'
  BY <1>1 DEF FailInv, AtPending, PostJob
<1>6. JobSpares'
  <2> SUFFICES ASSUME job'.at = "cancel", sched[job'.key[1]].attempts > 0,
                      job'.key[2] = FailedKind(sched[job'.key[1]].attempts)
               PROVE  ~WaitsForCard(job'.key[1])
    BY <1>1 DEF JobSpares, WaitsForCard, IsFuture
  <2>1. job' # Q!Idle
    BY DEF Q!Idle
  <2>2. /\ job.at = "read" /\ job'.key = job.key
        /\ Mail(job.key[1], job.key[2]) = Q!NotNow
    BY <1>1, <2>1 DEF PostJob
  <2>3. job.key[1] \in Bookings
    BY <2>2, JobAt, KeysAre DEF NoticesInv
  <2>4. sched[job.key[1]].attempts \in Nat
    BY <2>3, BoundsAssumption DEF LifeInv, DbTypeOK, Agenda
  <2>5. job.key[2] \in FailedKinds
    BY <2>2, <2>4, FailedIsKind
  <2> QED BY <2>2, <2>5, CancelledIsOver
<1> QED BY <1>3, <1>4, <1>5, <1>6 DEF FailInv

\* The property, of one row.
ToldHere(q) ==
    q[2] = FailedKind(sched'[q[1]].attempts) =>
        /\ sched'[q[1]].attempts > sched[q[1]].attempts => notif'[q].status = "pending"
        /\ /\ notif[q].status = "pending"
           /\ notif[q].gen = GenOf(sched'[q[1]].attempts)
           /\ notif'[q].status = "cancelled"
           => ~WaitsForCard(q[1])'

LEMMA ToldUnderChange ==
  ASSUME LifeInv, NoticesInv, FailInv, Change, NEW q \in DOMAIN notif
  PROVE  ToldHere(q)
<1> SUFFICES ASSUME q[2] = FailedKind(sched'[q[1]].attempts) PROVE ToldHere(q)
  BY DEF ToldHere
<1> DEFINE old == sched[q[1]].attempts
           new == sched'[q[1]].attempts
           r   == notif[q]
<1>1. /\ r \in NoticeRows /\ r = notif[q[1], q[2]]
      /\ notif'[q] = RowAfter(q[1], q[2])
      /\ old \in Nat /\ new \in Nat /\ (new = old \/ new = old + 1)
  BY FailChange
<1>2. new > old => notif'[q].status = "pending"
  <2> SUFFICES ASSUME new > old PROVE notif'[q].status = "pending"
    OBVIOUS
  <2>1. ~(new > 3) => new \in 1..3 /\ old < new
    <3>1. new > old
      OBVIOUS
    <3> HIDE DEF old, new
    <3> QED BY <1>1, <3>1, NextAttempt
  <2>2. ~(new > 3) => r.status = "none"
    BY <2>1, FreshRow
  <2> QED BY <1>1, <2>2, FailedRow
<1>3. r.status = "pending" /\ notif'[q].status = "cancelled" => ~WaitsForCard(q[1])'
  <2> SUFFICES ASSUME r.status = "pending", notif'[q].status = "cancelled"
               PROVE  ~WaitsForCard(q[1])'
    OBVIOUS
  <2>1. Ended(q[1])
    BY KeptUnderChange
  <2> QED BY <2>1 DEF Ended, WaitsForCard, IsFuture
<1> QED BY <1>2, <1>3 DEF ToldHere

LEMMA ToldUnderPost ==
  ASSUME LifeInv, NoticesInv, FailInv, Post, NEW q \in DOMAIN notif
  PROVE  ToldHere(q)
<1>1. PostRows /\ UNCHANGED <<status, sched, now>>
  BY PostSteps DEF Post, PostEffect, db
<1>2. q[1] \in Bookings
  BY KeysAre DEF NoticesInv
<1>3. sched[q[1]].attempts \in Nat
  BY <1>2, BoundsAssumption DEF LifeInv, DbTypeOK, Agenda
<1> SUFFICES ASSUME q[2] = FailedKind(sched[q[1]].attempts),
                    notif[q].status = "pending",
                    notif[q].gen = GenOf(sched[q[1]].attempts),
                    notif'[q].status = "cancelled"
             PROVE  ~WaitsForCard(q[1])
  BY <1>1, <1>3 DEF ToldHere, WaitsForCard, IsFuture
<1>4. job.at = "cancel" /\ q = job.key
  BY <1>1 DEF PostRows
<1>5. CASE sched[q[1]].attempts > 0
  BY <1>3, <1>4, <1>5, GenerationIs DEF FailInv, JobSpares
<1>6. CASE sched[q[1]].attempts = 0
  <2>1. q[2] = <<"failed", 0>>
    BY <1>6 DEF FailedKind, Least
  <2>2. q[2] \in ChargeKinds \cup {BelowMin, CancelConfirmed}
    BY KeysAre, FollowedAssumption DEF NoticesInv
  <2> QED BY <2>1, <2>2 DEF ChargeKinds, FailedKinds, FailedKind, Least, Reserved,
                            Requires, BelowMin, CancelConfirmed
<1> QED BY <1>3, <1>5, <1>6

\* Every rejected charge is told (charge_attempt_failed against prepare and
\* cancelNotification), however many there are: as it is recorded a notice of
\* its kind waits to be sent, and the one written for the last rejection is not
\* withdrawn while the booking waits for another card.
THEOREM RejectionTold == NoticesSpec => RejectionIsTold
<1>1. LifeInv /\ NoticesInv /\ FailInv /\ [NoticesNext]_notices => FailInv'
  <2> SUFFICES ASSUME LifeInv, NoticesInv, FailInv, [NoticesNext]_notices PROVE FailInv'
    OBVIOUS
  <2>1. CASE UNCHANGED notices
    BY <2>1 DEF notices, db, FailInv, UnwrittenYet, NoneNewer, AtPending, JobSpares,
                WaitsForCard, IsFuture
  <2> QED BY <2>1, FailUnderChange, FailUnderPost DEF NoticesNext
<1>2. LifeInv /\ NoticesInv /\ FailInv /\ [NoticesNext]_notices =>
        [ \A q \in DOMAIN notif :
            LET b == q[1]
                n == sched'[b].attempts
            IN  q[2] = FailedKind(n) =>
                  /\ n > sched[b].attempts => notif'[q].status = "pending"
                  /\ /\ notif[q].status = "pending" /\ notif[q].gen = GenOf(n)
                     /\ notif'[q].status = "cancelled"
                     => ~WaitsForCard(b)' ]_notices
  <2> SUFFICES ASSUME LifeInv, NoticesInv, FailInv, NoticesNext, NEW q \in DOMAIN notif
               PROVE  ToldHere(q)
    BY DEF ToldHere
  <2> QED BY ToldUnderChange, ToldUnderPost DEF NoticesNext
<1> QED BY <1>1, <1>2, FailStart, NoticesInvariant, PTL DEF NoticesSpec, RejectionIsTold

=============================================================================
