------------------------ MODULE DepartureChargeProofs ------------------------
(***************************************************************************)
(* Proofs about DepartureCharge, for every number of bookings and intents, *)
(* every clock, every set of concurrent requests and every answer of the   *)
(* gateway.                                                                *)
(***************************************************************************)
EXTENDS DepartureCharge, SumTheorems

-----------------------------------------------------------------------------
(* The SQL functions, one lemma each.                                      *)

\* What every SQL function does to the rows: it leaves them well typed, never
\* undoes a settled charge, settles only what the gateway charged, confirms a
\* booking only by a settled row, never revives a cancelled one, and refunds
\* only what a row of a cancelled booking says was charged.
DbStep ==
    /\ DbTypeOK'
    /\ \A c \in Bookings, j \in Ids :
          /\ row[c, j] = "succeeded" => row'[c, j] = "succeeded"
          /\ row'[c, j] = "succeeded" =>
                row[c, j] = "succeeded" \/ intent[c, j] = "succeeded"
    /\ \A c \in Bookings :
          /\ status'[c] = "confirmed" =>
                status[c] = "confirmed" \/ \E j \in Ids : row'[c, j] = "succeeded"
          /\ status[c] = "cancelled" => status'[c] = "cancelled"
          /\ refund'[c] = refund[c]
             \/ /\ status'[c] = "cancelled"
                /\ refund'[c] # NoId => row'[c, refund'[c]] = "succeeded"

LEMMA StutterStep == ASSUME DbTypeOK, UNCHANGED db PROVE DbStep
  BY DEF DbTypeOK, DbStep, db

LEMMA TimesLemma ==
  ASSUME now \in Times
  PROVE  /\ RecoveryDeadline \in Times
         /\ CycleDeadline \in Times
         /\ Start \in Nat /\ now \in Int
  BY TimesAssumption DEF Times, RecoveryDeadline, CycleDeadline, Least, Greatest

LEMMA AgendaClock ==
  ASSUME NEW a \in Agenda, NEW x \in {"none", "recent", "old"},
         NEW y \in {"none", "later", "due"}
  PROVE  [a EXCEPT !.started = x, !.next = y] \in Agenda
  BY DEF Agenda

LEMMA TickStep == ASSUME DbTypeOK, Tick PROVE DbStep
<1>1. now' \in Times
  <2>1. now \in Times /\ now' = now + 1 /\ ~(Start <= now)
    BY DEF DbTypeOK, Tick, Started
  <2> QED BY <2>1, TimesAssumption DEF Times
<1>2. sched' \in [Bookings -> Agenda]
  <2>1. sched \in [Bookings -> Agenda]
    BY DEF DbTypeOK
  <2>2. PICK due \in SUBSET {b \in Bookings : sched[b].next = "later"} :
           sched' = [b \in Bookings |->
             [sched[b] EXCEPT !.started = IF @ = "recent" THEN "old" ELSE @,
                              !.next    = IF b \in due THEN "due" ELSE @]]
    BY DEF Tick
  <2>3. \A b \in Bookings : sched[b].started \in {"none", "recent", "old"}
                           /\ sched[b].next \in {"none", "later", "due"}
    BY <2>1 DEF Agenda
  <2>4. ASSUME NEW b \in Bookings
        PROVE  [sched[b] EXCEPT !.started = IF @ = "recent" THEN "old" ELSE @,
                                !.next    = IF b \in due THEN "due" ELSE @] \in Agenda
    <3> DEFINE x == IF sched[b].started = "recent" THEN "old" ELSE sched[b].started
               y == IF b \in due THEN "due" ELSE sched[b].next
    <3>1. x \in {"none", "recent", "old"} /\ y \in {"none", "later", "due"}
      BY <2>3
    <3>2. sched[b] \in Agenda
      BY <2>1
    <3> HIDE DEF x, y
    <3>3. [sched[b] EXCEPT !.started = x, !.next = y] \in Agenda
      BY <3>1, <3>2, AgendaClock
    <3> QED BY <3>3 DEF x, y
  <2> QED BY <2>2, <2>4
<1> QED BY <1>1, <1>2 DEF DbStep, DbTypeOK, Tick

\* A change of one booking's agenda.
LEMMA AgendaLemma ==
  ASSUME DbTypeOK, NEW b \in Bookings, NEW a \in Agenda,
         sched' = [sched EXCEPT ![b] = a]
  PROVE  sched' \in [Bookings -> Agenda]
  BY DEF DbTypeOK

LEMMA AgendaFields ==
  ASSUME NEW a \in Agenda, NEW t \in Times \cup {Null}
  PROVE  /\ [a EXCEPT !.next = "none"] \in Agenda
         /\ [a EXCEPT !.started = "recent", !.next = "none"] \in Agenda
         /\ [a EXCEPT !.awaiting = t, !.recovery = t] \in Agenda
         /\ [a EXCEPT !.next = "none", !.awaiting = Null] \in Agenda
         /\ [a EXCEPT !.started = "none", !.awaiting = Null, !.recovery = Null]
                \in Agenda
  BY DEF Agenda

LEMMA BookStep ==
  ASSUME DbTypeOK, NEW b \in Bookings, CreateDeferredBooking(b)
  PROVE  DbStep
  BY DEF DbTypeOK, DbStep, CreateDeferredBooking, Statuses

LEMMA StartStep ==
  ASSUME DbTypeOK, NEW b \in Bookings, NEW k \in Ids,
         CanStart(b, k), ChargeBookingStart(b, k), row[b, k] # "succeeded"
  PROVE  DbStep
<1>1. row' \in [Bookings \X Ids -> RowStates]
  BY DEF DbTypeOK, ChargeBookingStart, RowStates
<1>2. status' \in [Bookings -> Statuses]
  BY DEF DbTypeOK, ChargeBookingStart, Statuses
<1>3. sched' \in [Bookings -> Agenda]
  <2>1. [sched[b] EXCEPT !.started = "recent", !.next = "none"] \in Agenda
    BY AgendaFields DEF DbTypeOK
  <2> QED BY <2>1, AgendaLemma DEF ChargeBookingStart
<1>4. DbTypeOK'
  BY <1>1, <1>2, <1>3 DEF DbTypeOK, ChargeBookingStart
<1>5. \A c \in Bookings, j \in Ids :
          row'[c, j] = "succeeded" <=> row[c, j] = "succeeded"
  BY DEF DbTypeOK, ChargeBookingStart
<1>6. \A c \in Bookings : /\ status'[c] = "confirmed" => status[c] = "confirmed"
                          /\ status[c] = "cancelled" => status'[c] = "cancelled"
  BY DEF DbTypeOK, ChargeBookingStart, CanStart
<1> QED BY <1>4, <1>5, <1>6 DEF DbStep, ChargeBookingStart

LEMMA MarkStep ==
  ASSUME DbTypeOK, mark' \in [Bookings -> Marks],
         UNCHANGED <<now, status, sched, row, refund, event, dep>>
  PROVE  DbStep
  BY DEF DbStep, DbTypeOK

LEMMA AuthorizeStep ==
  ASSUME DbTypeOK, NEW b \in Bookings, NEW k \in Ids, RecordAuthorization(b, k)
  PROVE  DbStep
<1>1. mark \in [Bookings -> Marks]
  BY DEF DbTypeOK
<1>2. mark' \in [Bookings -> Marks]
  <2>1. CASE mark' = [mark EXCEPT ![b].auth = TRUE]
    BY <1>1, <2>1 DEF Marks
  <2> QED BY <1>1, <2>1 DEF RecordAuthorization
<1> QED BY <1>2, MarkStep DEF RecordAuthorization

LEMMA RequiresActionStep ==
  ASSUME DbTypeOK, NEW b \in Bookings, NEW k \in Ids, ChargeRequiresAction(b, k)
  PROVE  DbStep
<1>1. sched \in [Bookings -> Agenda]
  BY DEF DbTypeOK
<1>2. DeadlineOf(b) \in Times \cup {Null}
  BY <1>1, TimesLemma DEF DeadlineOf, Agenda, DbTypeOK
<1>3. sched' \in [Bookings -> Agenda]
  <2>1. [sched[b] EXCEPT !.awaiting = DeadlineOf(b), !.recovery = DeadlineOf(b)]
           \in Agenda
    BY <1>1, <1>2, AgendaFields
  <2> QED BY <1>1, <2>1, AgendaLemma DEF ChargeRequiresAction
<1> QED BY <1>3 DEF ChargeRequiresAction, DbStep, DbTypeOK

LEMMA AttemptFailedStep ==
  ASSUME DbTypeOK, NEW b \in Bookings, NEW k \in Ids, NEW terminal \in BOOLEAN,
         ChargeAttemptFailed(b, k, terminal)
  PROVE  DbStep
<1>1. CASE ~CanFailAttempt(b, k)
  BY <1>1, StutterStep DEF ChargeAttemptFailed
<1>2. CASE CanFailAttempt(b, k)
  <2> DEFINE n    == Least(sched[b].attempts + 1, MaxAttempts)
             next == IF DeadlineOf(b) > now /\ sched[b].attempts < 3
                     THEN "later" ELSE "none"
  <2>1. /\ status' = [status EXCEPT ![b] = "pending_minimum"]
        /\ sched' = [sched EXCEPT ![b] = [@ EXCEPT !.attempts = n,
                        !.recovery = DeadlineOf(b), !.next = next,
                        !.awaiting = Null]]
        /\ mark' = [mark EXCEPT ![b] = NoMarks]
        /\ row' = IF terminal THEN [row EXCEPT ![<<b, k>>] = "closed"] ELSE row
        /\ UNCHANGED <<now, refund, event, dep>>
    BY <1>2 DEF ChargeAttemptFailed
  <2>2. sched \in [Bookings -> Agenda]
    BY DEF DbTypeOK
  <2>3. DeadlineOf(b) \in Times \cup {Null}
    BY <2>2, TimesLemma DEF DeadlineOf, Agenda, DbTypeOK
  <2>4. n \in 0..MaxAttempts /\ next \in {"none", "later", "due"}
    BY <2>2, BoundsAssumption DEF Agenda, Least
  <2>5. sched' \in [Bookings -> Agenda]
    <3> HIDE DEF n, next
    <3>1. sched[b] \in Agenda
      BY <2>2
    <3>2. [sched[b] EXCEPT !.attempts = n, !.recovery = DeadlineOf(b), !.next = next,
                           !.awaiting = Null] \in Agenda
      BY <2>3, <2>4, <3>1 DEF Agenda
    <3> QED BY <2>1, <3>2, AgendaLemma
  <2>6. status' \in [Bookings -> Statuses]
    BY <2>1 DEF DbTypeOK, Statuses
  <2>7. mark' \in [Bookings -> Marks]
    BY <2>1 DEF DbTypeOK, Marks, NoMarks, MarkAges
  <2>8. row[b, k] = "pending" /\ status[b] = "pending_payment"
    BY <1>2 DEF CanFailAttempt
  <2>9. /\ row' \in [Bookings \X Ids -> RowStates]
        /\ \A c \in Bookings, j \in Ids :
              row'[c, j] = "succeeded" <=> row[c, j] = "succeeded"
    BY <2>1, <2>8 DEF DbTypeOK, RowStates
  <2>10. \A c \in Bookings :
            /\ status'[c] = "confirmed" => status[c] = "confirmed"
            /\ status[c] = "cancelled" => status'[c] = "cancelled"
    BY <2>1, <2>8 DEF DbTypeOK
  <2>11. DbTypeOK'
    BY <2>1, <2>5, <2>6, <2>7, <2>9 DEF DbTypeOK
  <2> QED BY <2>1, <2>9, <2>10, <2>11 DEF DbStep
<1> QED BY <1>1, <1>2

LEMMA ClosePendingStep ==
  ASSUME DbTypeOK, NEW b \in Bookings, NEW k \in Ids, ClosePendingPayment(b, k)
  PROVE  DbStep
  BY DEF DbTypeOK, DbStep, ClosePendingPayment, CanClosePending, RowStates

LEMMA ReleaseStep ==
  ASSUME DbTypeOK, NEW b \in Bookings, NEW k \in Ids, ReleaseAuthorization(b, k)
  PROVE  DbStep
<1>1. CASE status[b] # "pending_payment"
  BY <1>1, StutterStep DEF ReleaseAuthorization
<1>2. CASE status[b] = "pending_payment"
  <2>1. /\ row' = IF row[b, k] = "pending"
                  THEN [row EXCEPT ![<<b, k>>] = "closed"] ELSE row
        /\ status' = [status EXCEPT ![b] = "pending_minimum"]
        /\ mark' = [mark EXCEPT ![b] = NoMarks]
        /\ sched' = [sched EXCEPT ![b] = [@ EXCEPT
                        !.started = "none", !.awaiting = Null, !.recovery = Null]]
        /\ UNCHANGED <<now, refund, event, dep>>
    BY <1>2 DEF ReleaseAuthorization
  <2>2. [sched[b] EXCEPT !.started = "none", !.awaiting = Null, !.recovery = Null]
           \in Agenda
    BY AgendaFields DEF DbTypeOK
  <2>3. sched' \in [Bookings -> Agenda]
    BY <2>1, <2>2, AgendaLemma
  <2>4. /\ row' \in [Bookings \X Ids -> RowStates]
        /\ \A c \in Bookings, j \in Ids :
              row'[c, j] = "succeeded" <=> row[c, j] = "succeeded"
    BY <2>1 DEF DbTypeOK, RowStates
  <2>5. status' \in [Bookings -> Statuses] /\ mark' \in [Bookings -> Marks]
    BY <2>1 DEF DbTypeOK, Statuses, Marks, NoMarks, MarkAges
  <2>6. \A c \in Bookings :
            /\ status'[c] = "confirmed" => status[c] = "confirmed"
            /\ status[c] = "cancelled" => status'[c] = "cancelled"
    BY <1>2, <2>1 DEF DbTypeOK
  <2>7. DbTypeOK'
    BY <2>1, <2>3, <2>4, <2>5 DEF DbTypeOK
  <2> QED BY <2>1, <2>4, <2>6, <2>7 DEF DbStep
<1> QED BY <1>1, <1>2

LEMMA RowsWhenCancelledLemma ==
  ASSUME DbTypeOK, NEW b \in Bookings, NEW r \in {"failed", "closed"},
         row' = RowsWhenCancelled(b, r)
  PROVE  /\ row' \in [Bookings \X Ids -> RowStates]
         /\ \A c \in Bookings, j \in Ids :
               row'[c, j] = "succeeded" <=> row[c, j] = "succeeded"
  BY DEF RowsWhenCancelled, DbTypeOK, RowStates

LEMMA CancelUnpaidStep ==
  ASSUME DbTypeOK, NEW b \in Bookings, CanCancelUnpaid(b), CancelUnpaidBooking(b)
  PROVE  DbStep
<1>1. /\ row' \in [Bookings \X Ids -> RowStates]
      /\ \A c \in Bookings, j \in Ids :
            row'[c, j] = "succeeded" <=> row[c, j] = "succeeded"
  BY RowsWhenCancelledLemma DEF CancelUnpaidBooking
<1>2. sched' \in [Bookings -> Agenda]
  <2>1. [sched[b] EXCEPT !.next = "none"] \in Agenda
    BY AgendaFields DEF DbTypeOK
  <2> QED BY <2>1, AgendaLemma DEF CancelUnpaidBooking
<1>3. /\ status' \in [Bookings -> Statuses]
      /\ \A c \in Bookings :
            /\ status'[c] = "confirmed" => status[c] = "confirmed"
            /\ status[c] = "cancelled" => status'[c] = "cancelled"
  BY DEF DbTypeOK, CancelUnpaidBooking, Statuses
<1>4. DbTypeOK'
  BY <1>1, <1>2, <1>3 DEF DbTypeOK, CancelUnpaidBooking
<1> QED BY <1>1, <1>3, <1>4 DEF DbStep, CancelUnpaidBooking

LEMMA CancelInFlightStep ==
  ASSUME DbTypeOK, NEW b \in Bookings, CancelChargeInFlight(b)
  PROVE  DbStep
<1>1. /\ row' \in [Bookings \X Ids -> RowStates]
      /\ \A c \in Bookings, j \in Ids :
            row'[c, j] = "succeeded" <=> row[c, j] = "succeeded"
  BY RowsWhenCancelledLemma DEF CancelChargeInFlight
<1>2. sched' \in [Bookings -> Agenda]
  <2>1. [sched[b] EXCEPT !.next = "none"] \in Agenda
    BY AgendaFields DEF DbTypeOK
  <2> QED BY <2>1, AgendaLemma DEF CancelChargeInFlight
<1>3. /\ status' \in [Bookings -> Statuses] /\ mark' \in [Bookings -> Marks]
      /\ \A c \in Bookings :
            /\ status'[c] = "confirmed" => status[c] = "confirmed"
            /\ status[c] = "cancelled" => status'[c] = "cancelled"
  BY DEF DbTypeOK, CancelChargeInFlight, Statuses, Marks, NoMarks, MarkAges
<1>4. DbTypeOK'
  BY <1>1, <1>2, <1>3 DEF DbTypeOK, CancelChargeInFlight
<1> QED BY <1>1, <1>3, <1>4 DEF DbStep, CancelChargeInFlight

LEMMA CancelAuthorizedStep ==
  ASSUME DbTypeOK, NEW b \in Bookings, CancelAuthorizedBooking(b)
  PROVE  DbStep
<1>1. /\ row' \in [Bookings \X Ids -> RowStates]
      /\ \A c \in Bookings, j \in Ids :
            row'[c, j] = "succeeded" <=> row[c, j] = "succeeded"
  BY RowsWhenCancelledLemma DEF CancelAuthorizedBooking
<1>2. sched' \in [Bookings -> Agenda]
  <2>1. [sched[b] EXCEPT !.next = "none", !.awaiting = Null] \in Agenda
    BY AgendaFields DEF DbTypeOK
  <2> QED BY <2>1, AgendaLemma DEF CancelAuthorizedBooking
<1>3. /\ status' \in [Bookings -> Statuses] /\ mark' \in [Bookings -> Marks]
      /\ \A c \in Bookings :
            /\ status'[c] = "confirmed" => status[c] = "confirmed"
            /\ status[c] = "cancelled" => status'[c] = "cancelled"
  BY DEF DbTypeOK, CancelAuthorizedBooking, Statuses, Marks, NoMarks, MarkAges
<1>4. DbTypeOK'
  BY <1>1, <1>2, <1>3 DEF DbTypeOK, CancelAuthorizedBooking
<1> QED BY <1>1, <1>3, <1>4 DEF DbStep, CancelAuthorizedBooking

LEMMA MarkingSteps ==
  ASSUME DbTypeOK, NEW b \in Bookings,
         \/ ClaimAuthorizationCancel(b) \/ MarkCaptureStarted(b)
         \/ ClearStaleMarks(b) \/ Unclaim(b)
  PROVE  DbStep
<1>1. mark \in [Bookings -> Marks]
  BY DEF DbTypeOK
<1>2. CASE ClaimAuthorizationCancel(b)
  <2>1. mark' \in [Bookings -> Marks]
    BY <1>1, <1>2 DEF ClaimAuthorizationCancel, Marks, MarkAges
  <2> QED BY <1>2, <2>1, MarkStep DEF ClaimAuthorizationCancel
<1>3. CASE MarkCaptureStarted(b)
  <2>1. mark' \in [Bookings -> Marks]
    BY <1>1, <1>3 DEF MarkCaptureStarted, Marks, MarkAges
  <2> QED BY <1>3, <2>1, MarkStep DEF MarkCaptureStarted
<1>4. CASE ClearStaleMarks(b)
  <2>1. mark' \in [Bookings -> Marks]
    BY <1>1, <1>4 DEF ClearStaleMarks, Marks, MarkAges
  <2> QED BY <1>4, <2>1, MarkStep DEF ClearStaleMarks
<1>5. CASE Unclaim(b)
  <2>1. mark' \in [Bookings -> Marks]
    BY <1>1, <1>5 DEF Unclaim, Marks, MarkAges
  <2> QED BY <1>5, <2>1, MarkStep DEF Unclaim
<1> QED BY <1>2, <1>3, <1>4, <1>5

LEMMA IntentClosedStep ==
  ASSUME DbTypeOK, NEW b \in Bookings, NEW k \in Ids, RecordIntentClosed(b, k)
  PROVE  DbStep
  BY DEF DbTypeOK, DbStep, RecordIntentClosed, RowStates

\* confirm_booking: what it settles, confirms and refunds.
Confirms(b, k) ==
    LET out == ConfirmOutcome(b, k) IN
    /\ DbTypeOK'
    /\ \A c \in Bookings, j \in Ids :
          /\ row[c, j] = "succeeded" => row'[c, j] = "succeeded"
          /\ row'[c, j] = "succeeded" =>
                row[c, j] = "succeeded" \/ (c = b /\ j = k)
    /\ out \notin {"already_processed", "ignored"} => row'[b, k] = "succeeded"
    /\ \A c \in Bookings :
          /\ status'[c] = "confirmed" =>
                status[c] = "confirmed" \/ (c = b /\ out = "confirmed")
          /\ status[c] = "cancelled" => status'[c] = "cancelled"
    /\ out = "late_payment_refunded" => status'[b] = "cancelled"
    /\ \A c \in Bookings :
          \/ refund'[c] = refund[c]
          \/ c = b /\ out = "late_payment_refunded" /\ refund'[c] = k

LEMMA ConfirmEffect ==
  ASSUME DbTypeOK, NEW b \in Bookings, NEW k \in Ids, ConfirmBooking(b, k)
  PROVE  Confirms(b, k)
<1> DEFINE out == ConfirmOutcome(b, k)
<1>1. /\ event' = event \cup {<<b, k>>}
      /\ status' = [status EXCEPT ![b] =
                       CASE out = "confirmed" -> "confirmed"
                         [] Live(b) /\ dep.cancelled
                              /\ out # "already_processed" -> "cancelled"
                         [] OTHER -> @]
      /\ row' = IF out \in {"already_processed", "ignored"} THEN row
                ELSE [row EXCEPT ![<<b, k>>] = "succeeded"]
      /\ refund' = IF out = "late_payment_refunded"
                   THEN [refund EXCEPT ![b] = k] ELSE refund
      /\ sched' = IF out = "confirmed"
                  THEN [sched EXCEPT ![b] = [@ EXCEPT !.next = "none",
                                                      !.awaiting = Null]]
                  ELSE sched
      /\ UNCHANGED <<now, mark, dep>>
  BY DEF ConfirmBooking
<1>2. out = "confirmed" => Live(b)
  BY DEF ConfirmOutcome
<1>3. out = "late_payment_refunded" =>
         status[b] = "cancelled" \/ (Live(b) /\ dep.cancelled)
  BY DEF ConfirmOutcome
<1> HIDE DEF out
<1>4. sched' \in [Bookings -> Agenda]
  <2>1. [sched[b] EXCEPT !.next = "none", !.awaiting = Null] \in Agenda
    BY AgendaFields DEF DbTypeOK
  <2>2. CASE out = "confirmed"
    BY <1>1, <2>1, <2>2, AgendaLemma
  <2>3. CASE out # "confirmed"
    BY <1>1, <2>3 DEF DbTypeOK
  <2> QED BY <2>2, <2>3
<1>5. /\ row' \in [Bookings \X Ids -> RowStates]
      /\ \A c \in Bookings, j \in Ids :
            /\ row[c, j] = "succeeded" => row'[c, j] = "succeeded"
            /\ row'[c, j] = "succeeded" =>
                  row[c, j] = "succeeded" \/ (c = b /\ j = k)
      /\ out \notin {"already_processed", "ignored"} => row'[b, k] = "succeeded"
  BY <1>1 DEF DbTypeOK, RowStates
<1>6. /\ status' \in [Bookings -> Statuses]
      /\ \A c \in Bookings :
            /\ status'[c] = "confirmed" =>
                  status[c] = "confirmed" \/ (c = b /\ out = "confirmed")
            /\ status[c] = "cancelled" => status'[c] = "cancelled"
      /\ out = "late_payment_refunded" => status'[b] = "cancelled"
  BY <1>1, <1>2, <1>3 DEF DbTypeOK, Statuses, Live
<1>7. /\ refund' \in [Bookings -> Ids \cup {NoId}]
      /\ \A c \in Bookings :
            \/ refund'[c] = refund[c]
            \/ c = b /\ out = "late_payment_refunded" /\ refund'[c] = k
  BY <1>1 DEF DbTypeOK
<1>8. event' \subseteq Bookings \X Ids
  BY <1>1 DEF DbTypeOK
<1>9. DbTypeOK'
  BY <1>1, <1>4, <1>5, <1>6, <1>7, <1>8 DEF DbTypeOK
<1> QED BY <1>5, <1>6, <1>7, <1>9 DEF out, Confirms

\* confirm_booking, called for an intent that the gateway charged.
LEMMA ConfirmStep ==
  ASSUME DbTypeOK, NEW b \in Bookings, NEW k \in Ids, ConfirmBooking(b, k),
         intent[b, k] = "succeeded"
  PROVE  DbStep
<1>1. Confirms(b, k)
  BY ConfirmEffect
<1> QED BY <1>1 DEF Confirms, DbStep

LEMMA RefundLemma ==
  ASSUME DbTypeOK, NEW B \in SUBSET Bookings
  PROVE  /\ RefundWhenCancelled(B) \in [Bookings -> Ids \cup {NoId}]
         /\ \A c \in Bookings :
               LET r == RefundWhenCancelled(B)[c] IN
               \/ r = refund[c]
               \/ c \in B /\ (r # NoId => row[c, r] = "succeeded")
<1>1. ASSUME NEW c \in Bookings
      PROVE  /\ PaidId(c) \in Ids \cup {NoId}
             /\ PaidId(c) # NoId => row[c, PaidId(c)] = "succeeded"
  BY DEF PaidId
<1> QED BY <1>1 DEF RefundWhenCancelled, DbTypeOK

LEMMA CancelBookingStep ==
  ASSUME DbTypeOK, NEW b \in Bookings, CancelBooking(b)
  PROVE  DbStep
<1>1. /\ status' \in [Bookings -> Statuses]
      /\ status'[b] = "cancelled"
      /\ \A c \in Bookings :
            /\ status'[c] = "confirmed" => status[c] = "confirmed"
            /\ status[c] = "cancelled" => status'[c] = "cancelled"
  BY DEF DbTypeOK, CancelBooking, Statuses
<1>2. refund' = RefundWhenCancelled({b}) \/ refund' = refund
  BY DEF CancelBooking
<1>3. /\ refund' \in [Bookings -> Ids \cup {NoId}]
      /\ \A c \in Bookings :
            \/ refund'[c] = refund[c]
            \/ c = b /\ (refund'[c] # NoId => row[c, refund'[c]] = "succeeded")
  <2>1. {b} \in SUBSET Bookings
    OBVIOUS
  <2>2. CASE refund' = RefundWhenCancelled({b})
    BY <2>1, <2>2, RefundLemma
  <2> QED BY <1>2, <2>2 DEF DbTypeOK
<1>4. DbTypeOK'
  BY <1>1, <1>3 DEF DbTypeOK, CancelBooking
<1> QED BY <1>1, <1>3, <1>4 DEF DbStep, CancelBooking

LEMMA OpenStep ==
  ASSUME DbTypeOK, OpenDepartureCharge
  PROVE  DbStep
<1>1. dep' \in Departure
  <2>1. /\ dep \in Departure
        /\ dep' = [dep EXCEPT !.triggered = TRUE, !.deadline = CycleDeadline,
                              !.closed = FALSE]
    BY DEF DbTypeOK, OpenDepartureCharge
  <2>2. CycleDeadline \in Times
    BY TimesLemma DEF DbTypeOK
  <2> QED BY <2>1, <2>2 DEF Departure
<1> QED BY <1>1 DEF OpenDepartureCharge, DbTypeOK, DbStep

LEMMA CloseStep ==
  ASSUME DbTypeOK, CloseDepartureCharge
  PROVE  DbStep
<1>1. dep' \in Departure
  <2>1. /\ dep \in Departure
        /\ \/ dep' = dep
           \/ dep' = [dep EXCEPT !.triggered = FALSE, !.deadline = Null,
                                 !.closed = TRUE]
    BY DEF DbTypeOK, CloseDepartureCharge
  <2> QED BY <2>1 DEF Departure
<1> QED BY <1>1 DEF CloseDepartureCharge, DbTypeOK, DbStep

LEMMA ResolveStep ==
  ASSUME DbTypeOK, NEW r \in Resolutions, ResolveDepartureMinimum(r)
  PROVE  DbStep
<1>1. dep' \in Departure
  <2>1. /\ dep \in Departure
        /\ dep' = [dep EXCEPT !.resolution = r,
                              !.cancelled = @ \/ Cancelling(r)]
    BY DEF DbTypeOK, ResolveDepartureMinimum
  <2>2. dep.cancelled \/ Cancelling(r) \in BOOLEAN
    BY <2>1 DEF Departure, Cancelling
  <2> QED BY <2>1, <2>2 DEF Departure
<1>2. CASE ~Cancelling(r)
  BY <1>1, <1>2 DEF ResolveDepartureMinimum, DbTypeOK, DbStep
<1>3. CASE Cancelling(r)
  <2>1. /\ status' = [b \in Bookings |->
              IF status[b] = "absent" THEN "absent" ELSE "cancelled"]
        /\ refund' = RefundWhenCancelled(
                         {b \in Bookings : status[b] = "confirmed"})
        /\ row' = [p \in Bookings \X Ids |->
              IF Live(p[1]) /\ row[p] = "pending" THEN "failed" ELSE row[p]]
        /\ mark' = [b \in Bookings |-> IF Live(b) THEN NoMarks ELSE mark[b]]
        /\ sched' = [b \in Bookings |->
              IF Live(b) THEN [sched[b] EXCEPT !.next = "none",
                                               !.awaiting = Null]
              ELSE sched[b]]
        /\ UNCHANGED <<now, event>>
    BY <1>3 DEF ResolveDepartureMinimum
  <2>2. /\ status' \in [Bookings -> Statuses]
        /\ \A c \in Bookings :
              /\ status'[c] # "confirmed"
              /\ status[c] # "absent" => status'[c] = "cancelled"
    BY <2>1 DEF DbTypeOK, Statuses
  <2>3. /\ refund' \in [Bookings -> Ids \cup {NoId}]
        /\ \A c \in Bookings :
              \/ refund'[c] = refund[c]
              \/ /\ status[c] = "confirmed"
                 /\ refund'[c] # NoId => row[c, refund'[c]] = "succeeded"
    BY <2>1, RefundLemma
  <2>4. /\ row' \in [Bookings \X Ids -> RowStates]
        /\ \A c \in Bookings, j \in Ids :
              row'[c, j] = "succeeded" <=> row[c, j] = "succeeded"
    BY <2>1 DEF DbTypeOK, RowStates
  <2>5. mark' \in [Bookings -> Marks]
    BY <2>1 DEF DbTypeOK, NoMarks, Marks, MarkAges
  <2>6. sched' \in [Bookings -> Agenda]
    <3>1. sched \in [Bookings -> Agenda]
      BY DEF DbTypeOK
    <3>2. ASSUME NEW b \in Bookings
          PROVE  [sched[b] EXCEPT !.next = "none", !.awaiting = Null] \in Agenda
      BY <3>1 DEF Agenda
    <3> QED BY <2>1, <3>1, <3>2
  <2>7. DbTypeOK'
    BY <1>1, <2>1, <2>2, <2>3, <2>4, <2>5, <2>6 DEF DbTypeOK
  <2> QED
    <3>1. \A c \in Bookings, j \in Ids :
            /\ row[c, j] = "succeeded" => row'[c, j] = "succeeded"
            /\ row'[c, j] = "succeeded" =>
                  row[c, j] = "succeeded" \/ intent[c, j] = "succeeded"
      BY <2>4
    <3>2. \A c \in Bookings :
            \/ refund'[c] = refund[c]
            \/ /\ status'[c] = "cancelled"
               /\ refund'[c] # NoId => row'[c, refund'[c]] = "succeeded"
      <4> SUFFICES ASSUME NEW c \in Bookings, refund'[c] # refund[c]
                   PROVE  /\ status'[c] = "cancelled"
                          /\ refund'[c] # NoId => row'[c, refund'[c]] = "succeeded"
        OBVIOUS
      <4>1. refund'[c] # NoId => refund'[c] \in Ids
        BY <2>3
      <4> QED BY <2>2, <2>3, <2>4, <4>1
    <3> QED BY <2>2, <2>7, <3>1, <3>2 DEF DbStep
<1> QED BY <1>2, <1>3

-----------------------------------------------------------------------------
(* The gateway.                                                            *)

\* Not charged, and only a confirm can change that.
Dormant == {"requires_payment_method", "canceled"}

GatewayStep ==
    /\ GatewayTypeOK'
    /\ \A c \in Bookings, j \in Ids :
          intent[c, j] = "succeeded" => intent'[c, j] = "succeeded"

StaysDormant ==
    \A c \in Bookings, j \in Ids : intent[c, j] \in Dormant => intent'[c, j] \in Dormant

LEMMA GatewayStutter ==
  ASSUME GatewayTypeOK, UNCHANGED gateway
  PROVE  GatewayStep /\ StaysDormant
  BY DEF GatewayTypeOK, gateway, GatewayStep, StaysDormant

LEMMA FaultLemma == ASSUME GatewayTypeOK, Fault PROVE faults' \in 0..MaxFaults
  BY FaultsAssumption DEF GatewayTypeOK, Fault

LEMMA FaultStep ==
  ASSUME GatewayTypeOK, Fault, UNCHANGED intent
  PROVE  GatewayStep /\ StaysDormant
  BY FaultLemma DEF GatewayTypeOK, GatewayStep, StaysDormant

LEMMA SetIntentLemma ==
  ASSUME GatewayTypeOK, NEW b \in Bookings, NEW k \in Ids, NEW s \in IntentStates,
         SetIntent(b, k, s), intent[b, k] # "succeeded",
         faults' \in 0..MaxFaults
  PROVE  /\ GatewayStep
         /\ intent'[b, k] = s
         /\ (intent[b, k] \in Dormant => s \in Dormant) => StaysDormant
<1>1. /\ intent \in [Bookings \X Ids -> IntentStates]
      /\ intent' = [intent EXCEPT ![<<b, k>>] = s]
  BY DEF GatewayTypeOK, SetIntent
<1>2. /\ intent' \in [Bookings \X Ids -> IntentStates]
      /\ intent'[b, k] = s
      /\ \A c \in Bookings, j \in Ids :
            intent'[c, j] = intent[c, j] \/ (c = b /\ j = k)
  BY <1>1
<1> QED BY <1>2 DEF GatewayTypeOK, GatewayStep, StaysDormant

LEMMA CancelLemma ==
  ASSUME GatewayTypeOK, NEW b \in Bookings, NEW k \in Ids, NEW ok \in BOOLEAN,
         CancelIntent(b, k, ok)
  PROVE  GatewayStep /\ StaysDormant
<1>1. CASE SetIntent(b, k, "canceled") /\ intent[b, k] \in Confirmable
           /\ faults' \in 0..MaxFaults
  BY <1>1, SetIntentLemma DEF Confirmable, IntentStates, Dormant
<1>2. CASE UNCHANGED gateway
  BY <1>2, GatewayStutter
<1>3. CASE UNCHANGED intent /\ Fault
  BY <1>3, FaultStep
<1>4. UNCHANGED faults => faults' \in 0..MaxFaults
  BY DEF GatewayTypeOK
<1> QED BY <1>1, <1>2, <1>3, <1>4, FaultLemma DEF CancelIntent, SetIntent

LEMMA GatewayMovesLemma ==
  ASSUME GatewayTypeOK, NEW b \in Bookings, NEW k \in Ids, GatewayMoves(b, k)
  PROVE  GatewayStep /\ StaysDormant
<1>1. PICK s \in Later(intent[b, k]) : SetIntent(b, k, s)
  BY DEF GatewayMoves
<1>2. /\ s \in IntentStates
      /\ intent[b, k] # "succeeded" /\ intent[b, k] \notin Dormant
  BY <1>1 DEF Later, IntentStates, Dormant
<1>3. faults' \in 0..MaxFaults
  BY DEF GatewayMoves, GatewayTypeOK
<1> QED BY <1>1, <1>2, <1>3, SetIntentLemma

-----------------------------------------------------------------------------
(* The inductive invariant: what the rows say of the gateway, and what each *)
(* process still knows of an intent that it asked about some steps ago.     *)

BooksInv ==
    /\ \A b \in Bookings, k \in Ids :
          row[b, k] = "succeeded" => intent[b, k] = "succeeded"
    /\ \A b \in Bookings :
          /\ status[b] = "confirmed" => \E k \in Ids : row[b, k] = "succeeded"
          /\ refund[b] # NoId => /\ row[b, refund[b]] = "succeeded"
                                 /\ status[b] = "cancelled"

EngineKnows ==
    /\ /\ eng.pc \in {"register", "confirmed", "captured"}
       /\ eng.reply = "succeeded"
       => intent[eng.b, eng.k] = "succeeded"
    /\ eng.pc = "start" => intent[eng.b, eng.k] \in Dormant

WatchKnows ==
    wd.pc = "do" /\ wd.act = "settle" => intent[wd.b, wd.k] = "succeeded"

SweepKnows ==
    sw.pc = "do" /\ sw.act = "settle" => intent[sw.b, sw.k] = "succeeded"

IInv == TypeOK /\ BooksInv /\ EngineKnows /\ WatchKnows /\ SweepKnows

LEMMA IdleTypes ==
  EngineIdle \in EngineType /\ WatchIdle \in WatchType /\ SweepIdle \in SweepType
    /\ WebIdle \in WebType
<1>1. EngineIdle \in EngineType
  BY DEF EngineIdle, EngineType, EnginePcs, Modes, Tasks, NoReply, NoId
<1>2. WatchIdle \in WatchType
  BY DEF WatchIdle, WatchType, Watchers, WatchActs, NoId
<1>3. SweepIdle \in SweepType /\ WebIdle \in WebType
  BY DEF SweepIdle, SweepType, WebIdle, WebType, NoId
<1> QED BY <1>1, <1>2, <1>3

\* The invariant holds before anybody acted.
LEMMA InitInv == Init => IInv
<1> SUFFICES ASSUME Init PROVE IInv
  OBVIOUS
<1>1. DbTypeOK
  <2>1. NoMarks \in Marks /\ NoAgenda \in Agenda
    BY BoundsAssumption DEF NoMarks, Marks, MarkAges, NoAgenda, Agenda
  <2>2. dep \in Departure
    BY DEF Init, DbInit, Departure, Resolutions
  <2>3. now \in Times
    BY TimesAssumption DEF Init, DbInit, Times
  <2> QED BY <2>1, <2>2, <2>3 DEF Init, DbInit, DbTypeOK, Statuses, RowStates
<1>2. GatewayTypeOK
  BY FaultsAssumption DEF Init, GatewayTypeOK, IntentStates
<1>3. EngineTypeOK
  BY IdleTypes DEF Init, EngineTypeOK, EngineIdle, HasBooking
<1>4. WatchTypeOK /\ SweepTypeOK /\ WebTypeOK
  BY IdleTypes DEF Init, WatchTypeOK, WatchIdle, SweepTypeOK, SweepIdle, WebTypeOK,
                   WebIdle
<1>5. BooksInv
  BY DEF Init, DbInit, BooksInv
<1>6. EngineKnows /\ WatchKnows /\ SweepKnows
  BY DEF Init, EngineKnows, EngineIdle, WatchKnows, WatchIdle, SweepKnows, SweepIdle
<1> QED BY <1>1, <1>2, <1>3, <1>4, <1>5, <1>6 DEF IInv, TypeOK

\* The books stay right under any SQL function and any move of the gateway.
LEMMA BooksLemma ==
  ASSUME DbTypeOK, BooksInv, DbStep, GatewayStep
  PROVE  BooksInv'
<1>1. ASSUME NEW b \in Bookings, NEW k \in Ids, row'[b, k] = "succeeded"
      PROVE  intent'[b, k] = "succeeded"
  <2>1. row[b, k] = "succeeded" \/ intent[b, k] = "succeeded"
    BY <1>1 DEF DbStep
  <2>2. intent[b, k] = "succeeded"
    BY <2>1 DEF BooksInv
  <2> QED BY <2>2 DEF GatewayStep
<1>2. ASSUME NEW b \in Bookings, status'[b] = "confirmed"
      PROVE  \E k \in Ids : row'[b, k] = "succeeded"
  <2>1. CASE status[b] = "confirmed"
    <3>1. PICK k \in Ids : row[b, k] = "succeeded"
      BY <2>1 DEF BooksInv
    <3>2. row'[b, k] = "succeeded"
      BY <3>1 DEF DbStep
    <3> QED BY <3>2
  <2>2. CASE status[b] # "confirmed"
    BY <1>2, <2>2 DEF DbStep
  <2> QED BY <2>1, <2>2
<1>3. ASSUME NEW b \in Bookings, refund'[b] # NoId
      PROVE  row'[b, refund'[b]] = "succeeded" /\ status'[b] = "cancelled"
  <2>1. CASE refund'[b] # refund[b]
    BY <1>3, <2>1 DEF DbStep
  <2>2. CASE refund'[b] = refund[b]
    <3>1. refund[b] \in Ids \cup {NoId} /\ refund[b] # NoId
      BY <1>3, <2>2 DEF DbTypeOK
    <3>2. PICK k \in Ids : k = refund[b]
      BY <3>1
    <3>3. row[b, k] = "succeeded" /\ status[b] = "cancelled"
      BY <3>1, <3>2 DEF BooksInv
    <3>4. row'[b, k] = "succeeded" /\ status'[b] = "cancelled"
      BY <3>3 DEF DbStep
    <3> QED BY <2>2, <3>2, <3>4
  <2> QED BY <2>1, <2>2
<1> QED BY <1>1, <1>2, <1>3 DEF BooksInv

\* Processes that do not move keep what they know.
LEMMA EngineRests ==
  ASSUME EngineTypeOK, EngineKnows, GatewayStep, StaysDormant, UNCHANGED eng
  PROVE  EngineTypeOK' /\ EngineKnows'
  BY DEF EngineTypeOK, EngineKnows, GatewayStep, StaysDormant, HasBooking, EnginePcs

LEMMA WatchRests ==
  ASSUME WatchTypeOK, WatchKnows, GatewayStep, UNCHANGED wd
  PROVE  WatchTypeOK' /\ WatchKnows'
  BY DEF WatchTypeOK, WatchKnows, GatewayStep

LEMMA SweepRests ==
  ASSUME SweepTypeOK, SweepKnows, GatewayStep, UNCHANGED sw
  PROVE  SweepTypeOK' /\ SweepKnows'
  BY DEF SweepTypeOK, SweepKnows, GatewayStep

LEMMA WebRests == ASSUME WebTypeOK, UNCHANGED web PROVE WebTypeOK'
  BY DEF WebTypeOK

-----------------------------------------------------------------------------
(* charge-departures: every step leaves the rows, the gateway and its own    *)
(* knowledge in order.                                                       *)

Knowing == {"register", "confirmed", "captured", "start"}

EngineFine == EngineTypeOK' /\ EngineKnows'
EngineMove == DbStep /\ GatewayStep /\ EngineFine /\ UNCHANGED <<wd, sw, web>>

LEMMA StopLemma == ASSUME Stop PROVE EngineFine
  BY IdleTypes DEF Stop, EngineFine, EngineTypeOK, EngineKnows, EngineIdle, HasBooking

LEMMA GotoLemma ==
  ASSUME EngineTypeOK, NEW pc \in EnginePcs, Goto(pc), pc \notin Knowing,
         pc \in HasBooking => eng.b \in Bookings,
         pc \in HasBooking \ {"create"} => eng.k \in Ids
  PROVE  EngineFine
<1>1. /\ eng' \in EngineType
      /\ eng'.pc = pc /\ eng'.b = eng.b /\ eng'.k = eng.k
  BY DEF Goto, EngineTypeOK, EngineType
<1> QED BY <1>1 DEF EngineFine, EngineTypeOK, EngineKnows, Knowing

LEMMA ResumeLemma ==
  ASSUME EngineTypeOK, NEW pc \in {"auth", "cap", "rel"}, NEW ok \in BOOLEAN,
         Resume(pc, ok)
  PROVE  EngineFine
<1>1. pc \in EnginePcs /\ pc \notin HasBooking /\ pc \notin Knowing
  BY DEF EnginePcs, HasBooking, Knowing
<1>2. eng' \in EngineType /\ eng'.pc = pc
  BY <1>1 DEF Resume, EngineTypeOK, EngineType, NoReply, NoId
<1> QED BY <1>1, <1>2 DEF EngineFine, EngineTypeOK, EngineKnows, Knowing

LEMMA PendingLemma ==
  ASSUME NEW b \in Bookings
  PROVE  /\ PendingOf(b) \in Ids \cup {NoId}
         /\ PendingOf(b) # NoId => row[b, PendingOf(b)] = "pending"
  BY DEF PendingOf, PendingIds

LEMMA NatLemma == Bookings \subseteq Nat /\ Ids \subseteq Nat /\ NoId \in Nat /\ NoId \notin Ids
  BY BoundsAssumption DEF Bookings, Ids, NoId

LEMMA ReadMove == ASSUME IInv, EngineOnly, EngineFine PROVE EngineMove
  BY StutterStep, GatewayStutter DEF IInv, TypeOK, EngineOnly, EngineMove

LEMMA DbMove == ASSUME IInv, DbStep, EngineDb, EngineFine PROVE EngineMove
  BY GatewayStutter DEF IInv, TypeOK, EngineDb, EngineMove

LEMMA RemoteMove ==
  ASSUME IInv, GatewayStep, EngineRemote, EngineFine PROVE EngineMove
  BY StutterStep DEF IInv, TypeOK, EngineRemote, EngineMove

\* The first step of a run.
LEMMA BeginLemma ==
  ASSUME NEW pc \in {"auth0", "due", "decide"}, NEW m \in Modes,
         \/ eng' = [EngineIdle EXCEPT !.pc = pc]
         \/ eng' = [EngineIdle EXCEPT !.pc = pc, !.mode = m]
  PROVE  EngineFine
<1>1. /\ EngineIdle \in EngineType /\ pc \in EnginePcs
      /\ pc \notin HasBooking /\ pc \notin Knowing
  BY IdleTypes DEF EnginePcs, HasBooking, Knowing
<1>2. CASE eng' = [EngineIdle EXCEPT !.pc = pc]
  <2>1. eng' \in EngineType /\ eng'.pc = pc
    BY <1>1, <1>2 DEF EngineType
  <2> QED BY <1>1, <2>1 DEF EngineFine, EngineTypeOK, EngineKnows, Knowing
<1>3. CASE eng' = [EngineIdle EXCEPT !.pc = pc, !.mode = m]
  <2>1. eng' \in EngineType /\ eng'.pc = pc
    BY <1>1, <1>3 DEF EngineType
  <2> QED BY <1>1, <2>1 DEF EngineFine, EngineTypeOK, EngineKnows, Knowing
<1> QED BY <1>2, <1>3

LEMMA StartMove == ASSUME IInv, EngStart PROVE EngineMove
<1>1. EngineFine
  <2>1. CASE eng' = [EngineIdle EXCEPT !.pc = "auth0", !.mode = "resolved"]
    BY <2>1, BeginLemma DEF Modes
  <2>2. CASE eng' = [EngineIdle EXCEPT !.pc = "due"]
    BY <2>2, BeginLemma DEF Modes
  <2>3. CASE eng' = [EngineIdle EXCEPT !.pc = "auth0"]
    BY <2>3, BeginLemma DEF Modes
  <2>4. CASE eng' = [EngineIdle EXCEPT !.pc = "decide", !.mode = "late"]
    BY <2>4, BeginLemma DEF Modes
  <2> QED BY <2>1, <2>2, <2>3, <2>4 DEF EngStart
<1> QED BY <1>1, ReadMove DEF EngStart

LEMMA OpenMove == ASSUME IInv, EngOpen PROVE EngineMove
<1>1. EngineTypeOK /\ DbTypeOK
  BY DEF IInv, TypeOK
<1>2. DbStep
  BY <1>1, OpenStep, StutterStep DEF EngOpen
<1>3. EngineFine
  <2>1. CASE Stop
    BY <2>1, StopLemma
  <2>2. CASE eng' = [eng EXCEPT !.pc = "auth0"]
    BY <1>1, <2>2, GotoLemma DEF Goto, EnginePcs, Knowing, HasBooking
  <2>3. CASE eng' = [eng EXCEPT !.pc = "decide", !.mode = "late"]
    <3>1. eng' \in EngineType /\ eng'.pc = "decide"
      BY <1>1, <2>3 DEF EngineTypeOK, EngineType, EnginePcs, Modes
    <3> QED BY <3>1 DEF EngineFine, EngineTypeOK, EngineKnows, HasBooking
  <2> QED BY <2>1, <2>2, <2>3 DEF EngOpen
<1> QED BY <1>2, <1>3, DbMove DEF EngOpen

\* A fetch fills the list of bookings to work through.
LEMMA ListLemma ==
  ASSUME EngineTypeOK, NEW pc \in {"auth", "cap", "rel"}, eng'.pc = pc,
         eng' \in EngineType
  PROVE  EngineFine
<1>1. pc \notin HasBooking /\ pc \notin Knowing
  BY DEF HasBooking, Knowing
<1> QED BY <1>1 DEF EngineFine, EngineTypeOK, EngineKnows, Knowing

LEMMA FetchMove ==
  ASSUME IInv, EngFetchAuth \/ EngFetchCapture \/ EngFetchRelease
  PROVE  EngineMove
<1>1. eng \in EngineType /\ EngineTypeOK
  BY DEF IInv, TypeOK, EngineTypeOK
<1>2. CASE EngFetchAuth
  <2>1. PICK todo \in [Bookings -> SUBSET Tasks] :
           eng' = [eng EXCEPT !.pc = "auth", !.todo = todo]
    <3> DEFINE t == [b \in Bookings |->
          {t \in {"clear", "adopt", "attempt"} : Live(b) /\
             CASE t = "clear" -> "stale" \in {mark[b].claim, mark[b].capture}
               [] t = "adopt" -> status[b] = "pending_payment" /\ ~mark[b].auth
               [] OTHER       -> status[b] = "pending_minimum" /\ CanAttempt(b)}]
    <3>1. t \in [Bookings -> SUBSET Tasks]
      BY DEF Tasks
    <3>2. eng' = [eng EXCEPT !.pc = "auth", !.todo = t]
      BY <1>2 DEF EngFetchAuth
    <3> HIDE DEF t
    <3> QED BY <3>1, <3>2
  <2>2. eng' \in EngineType /\ eng'.pc = "auth"
    BY <1>1, <2>1 DEF EngineType, EnginePcs
  <2> QED BY <1>1, <1>2, <2>2, ListLemma, ReadMove DEF EngFetchAuth
<1>3. CASE EngFetchCapture
  <2> DEFINE all  == \A b \in Bookings :
                        HasAuthorization(b) => mark[b].claim = "none"
             todo == [b \in Bookings |->
                        IF HasAuthorization(b) /\ mark[b].claim = "none"
                        THEN {"capture"} ELSE {}]
  <2>1. eng' = [eng EXCEPT !.pc = "cap", !.ok = all, !.todo = todo]
    BY <1>3 DEF EngFetchCapture
  <2>2. all \in BOOLEAN /\ todo \in [Bookings -> SUBSET Tasks]
    BY DEF Tasks
  <2> HIDE DEF all, todo
  <2>3. eng' \in EngineType /\ eng'.pc = "cap"
    BY <1>1, <2>1, <2>2 DEF EngineType, EnginePcs
  <2> QED BY <1>1, <1>3, <2>3, ListLemma, ReadMove DEF EngFetchCapture
<1>4. CASE EngFetchRelease
  <2> DEFINE todo == [b \in Bookings |-> IF status[b] = "pending_payment"
                                         THEN {"release"} ELSE {}]
  <2>1. eng' = [eng EXCEPT !.pc = "rel", !.ok = TRUE, !.todo = todo]
    BY <1>4 DEF EngFetchRelease
  <2>2. todo \in [Bookings -> SUBSET Tasks]
    BY DEF Tasks
  <2> HIDE DEF todo
  <2>3. eng' \in EngineType /\ eng'.pc = "rel"
    BY <1>1, <2>1, <2>2 DEF EngineType, EnginePcs
  <2> QED BY <1>1, <1>4, <2>3, ListLemma, ReadMove DEF EngFetchRelease
<1> QED BY <1>2, <1>3, <1>4

LEMMA ClearMove ==
  ASSUME IInv, NEW b \in Bookings, EngClear(b)
  PROVE  EngineMove
<1>1. eng \in EngineType /\ EngineTypeOK /\ DbTypeOK
  BY DEF IInv, TypeOK, EngineTypeOK
<1>2. DbStep
  BY <1>1, MarkingSteps DEF EngClear
<1>3. eng' \in EngineType /\ eng'.pc = "auth"
  <2>1. eng' = [eng EXCEPT !.todo[b] = @ \ {"clear"}] /\ eng.pc = "auth"
    BY DEF EngClear
  <2>2. eng.todo[b] \ {"clear"} \in SUBSET Tasks
    BY <1>1 DEF EngineType
  <2> QED BY <1>1, <2>1, <2>2 DEF EngineType
<1> QED BY <1>1, <1>2, <1>3, ListLemma, DbMove DEF EngClear

\* Taking the next booking of a list, with the intent its pending row names.
LEMMA TakeLemma ==
  ASSUME EngineTypeOK, NEW b \in Bookings, NEW pc \in EnginePcs \ Knowing,
         eng' = [eng EXCEPT !.todo = Taken(b), !.b = b, !.k = PendingOf(b),
                            !.pc = pc],
         PendingOf(b) = NoId => pc \in (EnginePcs \ HasBooking) \cup {"create"}
  PROVE  EngineFine
<1>1. Taken(b) \in [Bookings -> SUBSET Tasks]
  BY DEF Taken, EngineTypeOK, EngineType
<1>2. PendingOf(b) \in Ids \cup {NoId} /\ PendingOf(b) \in Nat /\ b \in Nat
  BY PendingLemma, NatLemma
<1>3. /\ eng' \in EngineType
      /\ eng'.pc = pc /\ eng'.b = b /\ eng'.k = PendingOf(b)
  BY <1>1, <1>2 DEF EngineTypeOK, EngineType
<1> QED BY <1>2, <1>3 DEF EngineFine, EngineTypeOK, EngineKnows, Knowing

LEMMA LookupMove ==
  ASSUME IInv, NEW b \in Bookings,
         EngLookup(b) \/ EngCaptureLookup(b) \/ EngReleaseLookup(b)
  PROVE  EngineMove
<1>1. EngineTypeOK
  BY DEF IInv, TypeOK
<1>2. CASE EngLookup(b)
  <2> DEFINE pc == IF "adopt" \in eng.todo[b]
                   THEN IF PendingOf(b) # NoId THEN "adoptGet" ELSE "auth"
                   ELSE IF PendingOf(b) # NoId THEN "attemptGet" ELSE "create"
  <2>1. eng' = [eng EXCEPT !.todo = Taken(b), !.b = b, !.k = PendingOf(b),
                           !.pc = pc]
    BY <1>2 DEF EngLookup
  <2>2. /\ pc \in EnginePcs \ Knowing
        /\ PendingOf(b) = NoId => pc \in (EnginePcs \ HasBooking) \cup {"create"}
    BY DEF EnginePcs, Knowing, HasBooking
  <2> HIDE DEF pc
  <2>3. EngineFine
    BY <1>1, <2>1, <2>2, TakeLemma
  <2> QED BY <1>2, <2>3, ReadMove DEF EngLookup
<1>3. CASE EngCaptureLookup(b)
  <2> DEFINE pc == IF PendingOf(b) = NoId THEN "cap" ELSE "capMark"
  <2>1. eng' = [eng EXCEPT !.todo = Taken(b), !.b = b, !.k = PendingOf(b),
                           !.pc = pc]
    BY <1>3 DEF EngCaptureLookup
  <2>2. /\ pc \in EnginePcs \ Knowing
        /\ PendingOf(b) = NoId => pc \in (EnginePcs \ HasBooking) \cup {"create"}
    BY DEF EnginePcs, Knowing, HasBooking
  <2> HIDE DEF pc
  <2>3. EngineFine
    BY <1>1, <2>1, <2>2, TakeLemma
  <2> QED BY <1>3, <2>3, ReadMove DEF EngCaptureLookup
<1>4. CASE EngReleaseLookup(b)
  <2> DEFINE pc == IF PendingOf(b) = NoId THEN "rel" ELSE "relGet"
  <2>1. eng' = [eng EXCEPT !.todo = Taken(b), !.b = b, !.k = PendingOf(b),
                           !.pc = pc]
    BY <1>4 DEF EngReleaseLookup
  <2>2. /\ pc \in EnginePcs \ Knowing
        /\ PendingOf(b) = NoId => pc \in (EnginePcs \ HasBooking) \cup {"create"}
    BY DEF EnginePcs, Knowing, HasBooking
  <2> HIDE DEF pc
  <2>3. EngineFine
    BY <1>1, <2>1, <2>2, TakeLemma
  <2> QED BY <1>4, <2>3, ReadMove DEF EngReleaseLookup
<1> QED BY <1>2, <1>3, <1>4

\* While the engine works on a booking, it has that booking and its intent.
LEMMA BusyLemma ==
  ASSUME IInv
  PROVE  /\ DbTypeOK /\ GatewayTypeOK /\ EngineTypeOK
         /\ eng.pc \in HasBooking => eng.b \in Bookings
         /\ eng.pc \in HasBooking \ {"create"} => eng.k \in Ids
  BY DEF IInv, TypeOK, EngineTypeOK

LEMMA ReplyLemma ==
  ASSUME EngineTypeOK, NEW pc \in {"register", "confirmed", "captured"},
         NEW s \in Replies \cup {NoReply},
         eng' = [eng EXCEPT !.pc = pc, !.reply = s],
         eng.b \in Bookings, eng.k \in Ids,
         s = "succeeded" => intent'[eng.b, eng.k] = "succeeded"
  PROVE  EngineFine
<1>1. /\ eng' \in EngineType
      /\ eng'.pc = pc /\ eng'.b = eng.b /\ eng'.k = eng.k /\ eng'.reply = s
  BY DEF EngineTypeOK, EngineType, EnginePcs
<1> QED BY <1>1 DEF EngineFine, EngineTypeOK, EngineKnows

LEMMA GetLemma ==
  ASSUME GatewayTypeOK, NEW b \in Bookings, NEW k \in Ids
  PROVE  /\ Get(b, k) \in Replies \cup {NoReply}
         /\ Get(b, k) = "succeeded" => intent[b, k] = "succeeded"
  BY DEF GatewayTypeOK, Get, Replies, NoReply, IntentStates

LEMMA AdoptGetMove == ASSUME IInv, EngAdoptGet PROVE EngineMove
<1>1. /\ EngineTypeOK /\ eng.b \in Bookings /\ eng.k \in Ids
  BY BusyLemma DEF EngAdoptGet, HasBooking, EnginePcs
<1> DEFINE s == Get(eng.b, eng.k)
<1>2. CASE /\ s \in {"requires_capture"} \cup ClosedIntents
           /\ eng' = [eng EXCEPT !.pc = "register", !.reply = s]
  <2>1. s \in Replies \cup {NoReply} /\ s # "succeeded"
    BY <1>2 DEF ClosedIntents, Replies, IntentStates, NoReply
  <2> HIDE DEF s
  <2>2. EngineFine
    BY <1>1, <1>2, <2>1, ReplyLemma
  <2> QED BY <2>2, ReadMove DEF EngAdoptGet
<1>3. CASE Resume("auth", TRUE)
  BY <1>1, <1>3, ResumeLemma, ReadMove DEF EngAdoptGet
<1> QED BY <1>2, <1>3 DEF EngAdoptGet

LEMMA AttemptGetMove == ASSUME IInv, EngAttemptGet PROVE EngineMove
<1>1. /\ EngineTypeOK /\ GatewayTypeOK /\ eng.b \in Bookings /\ eng.k \in Ids
  BY BusyLemma DEF EngAttemptGet, HasBooking, EnginePcs
<1> DEFINE s == Get(eng.b, eng.k)
<1>2. CASE s = "succeeded" /\ eng' = [eng EXCEPT !.pc = "register", !.reply = s]
  <2>1. s \in Replies \cup {NoReply} /\ intent[eng.b, eng.k] = "succeeded"
    BY <1>1, <1>2, GetLemma
  <2>2. intent'[eng.b, eng.k] = "succeeded"
    BY <2>1 DEF EngAttemptGet, EngineOnly, gateway
  <2> HIDE DEF s
  <2>3. EngineFine
    BY <1>1, <1>2, <2>1, <2>2, ReplyLemma
  <2> QED BY <2>3, ReadMove DEF EngAttemptGet
<1>3. CASE \E pc \in {"closePay", "discard"} : Goto(pc)
  <2>1. EngineFine
    BY <1>1, <1>3, GotoLemma DEF EnginePcs, Knowing
  <2> QED BY <2>1, ReadMove DEF EngAttemptGet
<1>4. CASE Resume("auth", TRUE)
  BY <1>1, <1>4, ResumeLemma, ReadMove DEF EngAttemptGet
<1> QED BY <1>2, <1>3, <1>4 DEF EngAttemptGet

LEMMA ClosePayMove == ASSUME IInv, EngClosePay \/ EngDiscarded PROVE EngineMove
<1>1. /\ EngineTypeOK /\ DbTypeOK /\ eng.b \in Bookings /\ eng.k \in Ids
  BY BusyLemma DEF EngClosePay, EngDiscarded, HasBooking, EnginePcs
<1>2. DbStep
  BY <1>1, ClosePendingStep DEF EngClosePay, EngDiscarded
<1>3. CASE Goto("create")
  <2>1. EngineFine
    BY <1>1, <1>3, GotoLemma DEF EnginePcs, Knowing
  <2> QED BY <1>2, <2>1, DbMove DEF EngClosePay, EngDiscarded
<1>4. CASE Resume("auth", TRUE)
  BY <1>1, <1>2, <1>4, ResumeLemma, DbMove DEF EngClosePay, EngDiscarded
<1> QED BY <1>3, <1>4 DEF EngClosePay, EngDiscarded

LEMMA CancellingMove ==
  ASSUME IInv, EngDiscard \/ EngDrop \/ EngReleaseCancel
  PROVE  EngineMove
<1>1. /\ EngineTypeOK /\ GatewayTypeOK /\ eng.b \in Bookings /\ eng.k \in Ids
  BY BusyLemma DEF EngDiscard, EngDrop, EngReleaseCancel, HasBooking, EnginePcs
<1>2. PICK ok \in BOOLEAN : CancelIntent(eng.b, eng.k, ok)
  BY DEF EngDiscard, EngDrop, EngReleaseCancel
<1>3. GatewayStep
  BY <1>1, <1>2, CancelLemma
<1>4. \/ \E pc \in {"discarded", "relDb"} : Goto(pc)
      \/ \E pc \in {"auth", "rel"}, done \in BOOLEAN : Resume(pc, done)
  BY DEF EngDiscard, EngDrop, EngReleaseCancel
<1>5. EngineFine
  <2>1. CASE \E pc \in {"discarded", "relDb"} : Goto(pc)
    BY <1>1, <2>1, GotoLemma DEF EnginePcs, Knowing
  <2>2. CASE \E pc \in {"auth", "rel"}, done \in BOOLEAN : Resume(pc, done)
    BY <1>1, <2>2, ResumeLemma
  <2> QED BY <1>4, <2>1, <2>2
<1> QED BY <1>3, <1>5, RemoteMove DEF EngDiscard, EngDrop, EngReleaseCancel

LEMMA CreateMove == ASSUME IInv, EngCreate PROVE EngineMove
<1>1. /\ EngineTypeOK /\ GatewayTypeOK /\ eng.b \in Bookings
  BY BusyLemma DEF EngCreate, HasBooking, EnginePcs
<1>2. CASE Resume("auth", TRUE) /\ UNCHANGED gateway
  BY <1>1, <1>2, ResumeLemma, GatewayStutter, RemoteMove DEF EngCreate
<1>3. CASE \E k \in FreshIds(eng.b) :
              /\ SetIntent(eng.b, k, "requires_payment_method")
              /\ eng' = [eng EXCEPT !.pc = "start", !.k = k]
              /\ UNCHANGED faults
  <2>1. PICK k \in Ids :
            /\ intent[eng.b, k] = "none"
            /\ SetIntent(eng.b, k, "requires_payment_method")
            /\ eng' = [eng EXCEPT !.pc = "start", !.k = k]
            /\ UNCHANGED faults
    BY <1>3 DEF FreshIds
  <2>2. GatewayStep /\ intent'[eng.b, k] = "requires_payment_method"
    BY <1>1, <2>1, SetIntentLemma DEF IntentStates, GatewayTypeOK
  <2>3. /\ eng' \in EngineType
        /\ eng'.pc = "start" /\ eng'.b = eng.b /\ eng'.k = k
    BY <1>1, <2>1, NatLemma DEF EngineTypeOK, EngineType, EnginePcs
  <2>4. EngineFine
    BY <1>1, <2>2, <2>3 DEF EngineFine, EngineTypeOK, EngineKnows, Dormant
  <2> QED BY <2>2, <2>4, RemoteMove DEF EngCreate
<1> QED BY <1>2, <1>3 DEF EngCreate

LEMMA StartChargeMove == ASSUME IInv, EngStartCharge PROVE EngineMove
<1>1. /\ EngineTypeOK /\ DbTypeOK /\ eng.b \in Bookings /\ eng.k \in Ids
  BY BusyLemma DEF EngStartCharge, HasBooking, EnginePcs
<1>2. row[eng.b, eng.k] # "succeeded"
  BY <1>1 DEF IInv, EngineKnows, EngStartCharge, BooksInv, Dormant
<1>3. DbStep
  BY <1>1, <1>2, StartStep, StutterStep DEF EngStartCharge
<1>4. EngineFine
  BY <1>1, GotoLemma DEF EngStartCharge, EnginePcs, Knowing
<1> QED BY <1>3, <1>4, DbMove DEF EngStartCharge

LEMMA ConfirmMove == ASSUME IInv, EngConfirm PROVE EngineMove
<1>1. /\ EngineTypeOK /\ GatewayTypeOK /\ eng.b \in Bookings /\ eng.k \in Ids
  BY BusyLemma DEF EngConfirm, HasBooking, EnginePcs
<1>2. CASE \E s \in Answers :
              /\ intent[eng.b, eng.k] = "requires_payment_method"
              /\ SetIntent(eng.b, eng.k, s)
              /\ \/ /\ eng' = [eng EXCEPT !.pc = "confirmed", !.reply = s]
                    /\ UNCHANGED faults
                 \/ Fault /\ Stop
  <2>1. PICK s \in Answers :
              /\ intent[eng.b, eng.k] = "requires_payment_method"
              /\ SetIntent(eng.b, eng.k, s)
              /\ \/ /\ eng' = [eng EXCEPT !.pc = "confirmed", !.reply = s]
                    /\ UNCHANGED faults
                 \/ Fault /\ Stop
    BY <1>2
  <2>2. s \in Replies /\ s \in IntentStates
    BY AnswersAssumption DEF Replies, IntentStates
  <2>3. faults' \in 0..MaxFaults
    BY <1>1, <2>1, FaultLemma DEF GatewayTypeOK
  <2>4. GatewayStep /\ intent'[eng.b, eng.k] = s
    BY <1>1, <2>1, <2>2, <2>3, SetIntentLemma
  <2>5. EngineFine
    BY <1>1, <2>1, <2>2, <2>4, ReplyLemma, StopLemma
  <2> QED BY <2>4, <2>5, RemoteMove DEF EngConfirm
<1>3. CASE /\ eng' = [eng EXCEPT !.pc = "confirmed", !.reply = Get(eng.b, eng.k)]
           /\ UNCHANGED gateway
  <2>1. intent' = intent /\ GatewayStep
    BY <1>1, <1>3, GatewayStutter DEF gateway
  <2>2. EngineFine
    BY <1>1, <1>3, <2>1, GetLemma, ReplyLemma
  <2> QED BY <2>1, <2>2, RemoteMove DEF EngConfirm
<1> QED BY <1>2, <1>3 DEF EngConfirm

LEMMA RegisterStep ==
  ASSUME DbTypeOK, NEW b \in Bookings, NEW k \in Ids, NEW s, Register(b, k, s),
         s = "succeeded" => intent[b, k] = "succeeded"
  PROVE  DbStep
<1>1. CASE s = "requires_capture"
  BY <1>1, AuthorizeStep DEF Register, ClosedIntents
<1>2. CASE s = "requires_action"
  BY <1>2, RequiresActionStep DEF Register, ClosedIntents
<1>3. CASE s = "succeeded"
  BY <1>3, ConfirmStep DEF Register, ClosedIntents
<1>4. CASE s = "processing"
  BY <1>4, StutterStep DEF Register, ClosedIntents
<1>5. CASE s \notin {"requires_capture", "requires_action", "succeeded", "processing"}
  <2>1. ChargeAttemptFailed(b, k, TRUE) \/ ChargeAttemptFailed(b, k, FALSE)
    BY <1>5 DEF Register, ClosedIntents
  <2> QED BY <2>1, AttemptFailedStep
<1> QED BY <1>1, <1>2, <1>3, <1>4, <1>5

LEMMA RegisterMove == ASSUME IInv, EngRegister PROVE EngineMove
<1>1. /\ EngineTypeOK /\ DbTypeOK /\ eng.b \in Bookings /\ eng.k \in Ids
  BY BusyLemma DEF EngRegister, HasBooking, EnginePcs
<1>2. eng.reply = "succeeded" => intent[eng.b, eng.k] = "succeeded"
  BY DEF IInv, EngineKnows, EngRegister
<1>3. DbStep
  BY <1>1, <1>2, RegisterStep DEF EngRegister
<1>4. EngineFine
  BY <1>1, ResumeLemma DEF EngRegister
<1> QED BY <1>3, <1>4, DbMove DEF EngRegister

LEMMA MarkMove == ASSUME IInv, EngMark PROVE EngineMove
<1>1. /\ EngineTypeOK /\ DbTypeOK /\ eng.b \in Bookings /\ eng.k \in Ids
  BY BusyLemma DEF EngMark, HasBooking, EnginePcs
<1>2. DbStep
  BY <1>1, MarkingSteps, StutterStep DEF EngMark
<1>3. EngineFine
  BY <1>1, GotoLemma, ResumeLemma DEF EngMark, EnginePcs, Knowing
<1> QED BY <1>2, <1>3, DbMove DEF EngMark

LEMMA CaptureMove == ASSUME IInv, EngCapture PROVE EngineMove
<1>1. /\ EngineTypeOK /\ GatewayTypeOK /\ eng.b \in Bookings /\ eng.k \in Ids
  BY BusyLemma DEF EngCapture, HasBooking, EnginePcs
<1>2. CASE Goto("reget") /\ UNCHANGED gateway
  <2>1. EngineFine
    BY <1>1, <1>2, GotoLemma DEF EnginePcs, Knowing
  <2> QED BY <1>1, <1>2, <2>1, GatewayStutter, RemoteMove DEF EngCapture
<1>3. CASE Goto("reget") /\ Fault /\ UNCHANGED intent
  <2>1. EngineFine
    BY <1>1, <1>3, GotoLemma DEF EnginePcs, Knowing
  <2> QED BY <1>1, <1>3, <2>1, FaultStep, RemoteMove DEF EngCapture
<1>4. CASE \E s \in {"succeeded", "capturing"} :
              /\ intent[eng.b, eng.k] = "requires_capture"
              /\ SetIntent(eng.b, eng.k, s)
              /\ \/ /\ eng' = [eng EXCEPT !.pc = "captured",
                              !.reply = IF s = "succeeded" THEN s
                                        ELSE "processing"]
                    /\ UNCHANGED faults
                 \/ Fault /\ Goto("reget")
  <2>1. PICK s \in {"succeeded", "capturing"} :
              /\ intent[eng.b, eng.k] = "requires_capture"
              /\ SetIntent(eng.b, eng.k, s)
              /\ \/ /\ eng' = [eng EXCEPT !.pc = "captured",
                              !.reply = IF s = "succeeded" THEN s
                                        ELSE "processing"]
                    /\ UNCHANGED faults
                 \/ Fault /\ Goto("reget")
    BY <1>4
  <2> DEFINE r == IF s = "succeeded" THEN s ELSE "processing"
  <2>2. /\ r \in Replies \cup {NoReply} /\ s \in IntentStates
        /\ r = "succeeded" => s = "succeeded"
    BY DEF Replies, IntentStates
  <2>3. faults' \in 0..MaxFaults
    BY <1>1, <2>1, FaultLemma DEF GatewayTypeOK
  <2>4. GatewayStep /\ intent'[eng.b, eng.k] = s
    BY <1>1, <2>1, <2>2, <2>3, SetIntentLemma
  <2>5. CASE eng' = [eng EXCEPT !.pc = "captured", !.reply = r]
    <3> HIDE DEF r
    <3>1. EngineFine
      BY <1>1, <2>2, <2>4, <2>5, ReplyLemma
    <3> QED BY <2>4, <3>1, RemoteMove DEF EngCapture
  <2>6. CASE Goto("reget")
    <3>1. EngineFine
      BY <1>1, <2>6, GotoLemma DEF EnginePcs, Knowing
    <3> QED BY <2>4, <3>1, RemoteMove DEF EngCapture
  <2> QED BY <2>1, <2>5, <2>6
<1> QED BY <1>2, <1>3, <1>4 DEF EngCapture

LEMMA RegetMove == ASSUME IInv, EngReget PROVE EngineMove
<1>1. /\ EngineTypeOK /\ GatewayTypeOK /\ eng.b \in Bookings /\ eng.k \in Ids
  BY BusyLemma DEF EngReget, HasBooking, EnginePcs
<1>2. CASE /\ eng' = [eng EXCEPT !.pc = "captured", !.reply = Get(eng.b, eng.k)]
           /\ UNCHANGED gateway
  <2>1. intent' = intent /\ GatewayStep
    BY <1>1, <1>2, GatewayStutter DEF gateway
  <2>2. EngineFine
    BY <1>1, <1>2, <2>1, GetLemma, ReplyLemma
  <2> QED BY <2>1, <2>2, RemoteMove DEF EngReget
<1>3. CASE Resume("cap", FALSE) /\ Fault /\ UNCHANGED intent
  BY <1>1, <1>3, ResumeLemma, FaultStep, RemoteMove DEF EngReget
<1> QED BY <1>2, <1>3 DEF EngReget

LEMMA CapturedMove == ASSUME IInv, EngCaptured PROVE EngineMove
<1>1. /\ EngineTypeOK /\ DbTypeOK /\ eng.b \in Bookings /\ eng.k \in Ids
  BY BusyLemma DEF EngCaptured, HasBooking, EnginePcs
<1>2. DbStep
  <2>1. CASE eng.reply = "succeeded"
    <3>1. intent[eng.b, eng.k] = "succeeded"
      BY <2>1 DEF IInv, EngineKnows, EngCaptured
    <3> QED BY <1>1, <2>1, <3>1, ConfirmStep DEF EngCaptured
  <2>2. CASE eng.reply \in {"requires_capture", "processing"}
    BY <1>1, <2>2, StutterStep DEF EngCaptured
  <2>3. CASE eng.reply \notin {"succeeded", "requires_capture", "processing"}
    BY <1>1, <2>3, AttemptFailedStep DEF EngCaptured
  <2> QED BY <2>1, <2>2, <2>3
<1>3. EngineFine
  <2> DEFINE done == eng.reply = "succeeded"
                       /\ ConfirmOutcome(eng.b, eng.k) = "confirmed"
  <2>1. Resume("cap", done) /\ done \in BOOLEAN
    BY DEF EngCaptured
  <2> HIDE DEF done
  <2> QED BY <1>1, <2>1, ResumeLemma
<1> QED BY <1>2, <1>3, DbMove DEF EngCaptured

\* The decisions of a run, which only move the engine on.
LEMMA DecideMove ==
  ASSUME IInv, EngAuthDone \/ EngDecide \/ EngBefore \/ EngCaptureDone
               \/ EngRecount \/ EngReleaseDone
  PROVE  EngineMove
<1>1. EngineTypeOK
  BY BusyLemma
<1>2. \/ Stop
      \/ \E pc \in {"before", "cap0", "decide", "rel0", "resolve0", "resolve", "close",
                    "autoCancel"} : Goto(pc)
  BY DEF EngAuthDone, EngDecide, EngBefore, EngCaptureDone, EngRecount,
         EngReleaseDone
<1>3. EngineFine
  BY <1>1, <1>2, StopLemma, GotoLemma DEF EnginePcs, HasBooking, Knowing
<1> QED BY <1>3, ReadMove DEF EngAuthDone, EngDecide, EngBefore, EngCaptureDone,
                              EngRecount, EngReleaseDone

LEMMA ReleaseGetMove == ASSUME IInv, EngReleaseGet PROVE EngineMove
<1>1. /\ EngineTypeOK /\ eng.b \in Bookings /\ eng.k \in Ids
  BY BusyLemma DEF EngReleaseGet, HasBooking, EnginePcs
<1>2. (\E pc \in {"relCancel", "relDb"} : Goto(pc)) \/ Resume("rel", FALSE)
  BY DEF EngReleaseGet
<1>3. EngineFine
  <2>1. CASE \E pc \in {"relCancel", "relDb"} : Goto(pc)
    BY <1>1, <2>1, GotoLemma DEF EnginePcs, Knowing
  <2>2. CASE Resume("rel", FALSE)
    BY <1>1, <2>2, ResumeLemma
  <2> QED BY <1>2, <2>1, <2>2
<1> QED BY <1>3, ReadMove DEF EngReleaseGet

LEMMA ReleaseDbMove == ASSUME IInv, EngReleaseDb PROVE EngineMove
<1>1. /\ EngineTypeOK /\ DbTypeOK /\ eng.b \in Bookings /\ eng.k \in Ids
  BY BusyLemma DEF EngReleaseDb, HasBooking, EnginePcs
<1>2. DbStep
  BY <1>1, ReleaseStep DEF EngReleaseDb
<1> QED BY <1>1, <1>2, ResumeLemma, DbMove DEF EngReleaseDb

\* The last step of a run, on the departure itself.
LEMMA ResolveMove ==
  ASSUME IInv, EngResolve \/ EngClose \/ EngAutoCancel
  PROVE  EngineMove
<1>1. DbTypeOK
  BY BusyLemma
<1>2. DbStep
  <2>1. {"reached", "auto_cancelled"} \subseteq Resolutions
    BY DEF Resolutions
  <2> QED BY <1>1, <2>1, ResolveStep, CloseStep, StutterStep
          DEF EngResolve, EngClose, EngAutoCancel
<1> QED BY <1>2, StopLemma, DbMove DEF EngResolve, EngClose, EngAutoCancel

LEMMA AbortMove == ASSUME IInv, EngAbort PROVE EngineMove
<1>1. GatewayStep /\ DbStep
  BY FaultStep, StutterStep DEF EngAbort, IInv, TypeOK
<1> QED BY <1>1, StopLemma DEF EngAbort, EngineMove

LEMMA EngineStepLemma == ASSUME IInv, EngineStep \/ EngAbort PROVE EngineMove
  BY StartMove, OpenMove, FetchMove, ClearMove, LookupMove, AdoptGetMove,
     AttemptGetMove, ClosePayMove, CancellingMove, CreateMove, StartChargeMove,
     ConfirmMove, RegisterMove, MarkMove, CaptureMove, RegetMove, CapturedMove,
     DecideMove, ReleaseGetMove, ReleaseDbMove, ResolveMove, AbortMove
  DEF EngineStep

LEMMA EngineInv == ASSUME IInv, EngineMove PROVE IInv'
<1>1. DbTypeOK' /\ GatewayTypeOK'
  BY DEF EngineMove, DbStep, GatewayStep
<1>2. BooksInv'
  BY BooksLemma DEF IInv, TypeOK, EngineMove
<1>3. EngineTypeOK' /\ EngineKnows'
  BY DEF EngineMove, EngineFine
<1>4. WatchTypeOK' /\ WatchKnows' /\ SweepTypeOK' /\ SweepKnows' /\ WebTypeOK'
  BY WatchRests, SweepRests, WebRests DEF IInv, TypeOK, EngineMove
<1> QED BY <1>1, <1>2, <1>3, <1>4 DEF IInv, TypeOK

-----------------------------------------------------------------------------
(* The other processes never confirm an intent, so they also leave alone the *)
(* one that the engine is about to start.                                    *)

OtherStep == DbStep /\ GatewayStep /\ StaysDormant /\ UNCHANGED eng

LEMMA OtherInv ==
  ASSUME IInv, OtherStep, WatchTypeOK', WatchKnows', SweepTypeOK', SweepKnows',
         WebTypeOK'
  PROVE  IInv'
<1>1. DbTypeOK' /\ GatewayTypeOK'
  BY DEF OtherStep, DbStep, GatewayStep
<1>2. BooksInv'
  BY BooksLemma DEF IInv, TypeOK, OtherStep
<1>3. EngineTypeOK' /\ EngineKnows'
  BY EngineRests DEF IInv, TypeOK, OtherStep
<1> QED BY <1>1, <1>2, <1>3 DEF IInv, TypeOK

LEMMA OtherReads ==
  ASSUME IInv, UNCHANGED <<db, gateway, eng>> PROVE OtherStep
  BY StutterStep, GatewayStutter DEF IInv, TypeOK, OtherStep

LEMMA OtherWrites ==
  ASSUME IInv, DbStep, UNCHANGED <<gateway, eng>> PROVE OtherStep
  BY GatewayStutter DEF IInv, TypeOK, OtherStep

LEMMA OtherCalls ==
  ASSUME IInv, GatewayStep, StaysDormant, UNCHANGED <<db, eng>> PROVE OtherStep
  BY StutterStep DEF IInv, TypeOK, OtherStep

\* watch-charges.
LEMMA WatchInv ==
  ASSUME IInv, OtherStep, WatchTypeOK', WatchKnows', UNCHANGED <<sw, web>>
  PROVE  IInv'
  BY OtherInv, SweepRests, WebRests DEF IInv, TypeOK, OtherStep

LEMMA WatchIdleLemma == ASSUME wd' = WatchIdle PROVE WatchTypeOK' /\ WatchKnows'
  BY IdleTypes DEF WatchTypeOK, WatchKnows, WatchIdle

LEMMA ReasonLemma ==
  ASSUME NEW b \in Bookings
  PROVE  /\ Dead(b) \in {"record"} \cup Reasons
         /\ Challenge(b) \in {"wait", "register_action"} \cup Reasons
  BY DEF Dead, Challenge, Reasons

LEMMA WatchFetchInv ==
  ASSUME IInv, NEW b \in Bookings, WdInFlight(b) \/ WdUnpaid(b)
  PROVE  IInv'
<1>1. PendingOf(b) \in Ids \cup {NoId} /\ PendingOf(b) \in Nat /\ b \in Nat
  BY PendingLemma, NatLemma
<1>2. CASE WdInFlight(b)
  <2>1. PendingOf(b) \in Ids
    BY <1>2, NatLemma DEF WdInFlight, PendingOf, PendingIds
  <2>2. wd' = [WatchIdle EXCEPT !.pc = "get", !.b = b, !.k = PendingOf(b),
                                !.challenge = Challenge(b), !.dead = Dead(b)]
    BY <1>2 DEF WdInFlight
  <2>3. /\ wd' \in WatchType
        /\ wd'.pc = "get" /\ wd'.b = b /\ wd'.k = PendingOf(b)
    BY <1>1, <2>2, IdleTypes, ReasonLemma DEF WatchType, Watchers
  <2>4. WatchTypeOK' /\ WatchKnows'
    BY <2>1, <2>3, NatLemma DEF WatchTypeOK, WatchKnows
  <2> QED BY <1>2, <2>4, OtherReads, WatchInv DEF WdInFlight, WatchOnly
<1>3. CASE WdUnpaid(b)
  <2> DEFINE kind == IF mark[b].auth THEN "authorized" ELSE "unpaid"
             dead == IF Started THEN "departure_started" ELSE "recovery_expired"
             pc   == IF PendingOf(b) = NoId THEN "do" ELSE "get"
  <2>1. wd' = [WatchIdle EXCEPT !.b = b, !.k = PendingOf(b), !.act = "cancel",
                                !.kind = kind, !.dead = dead, !.pc = pc]
    BY <1>3 DEF WdUnpaid
  <2>2. /\ kind \in {"inflight", "unpaid", "authorized"}
        /\ dead \in {"record"} \cup Reasons
        /\ pc \in Watchers /\ (PendingOf(b) = NoId => pc = "do")
    BY DEF Reasons, Watchers
  <2> HIDE DEF kind, dead, pc
  <2>3. /\ wd' \in WatchType
        /\ wd'.pc = pc /\ wd'.b = b /\ wd'.k = PendingOf(b)
        /\ wd'.act = "cancel" /\ wd'.live = WatchIdle.live
    BY <1>1, <2>1, <2>2, IdleTypes DEF WatchType, WatchActs
  <2>4. WatchIdle.live = FALSE
    BY DEF WatchIdle
  <2>5. WatchTypeOK' /\ WatchKnows'
    BY <1>1, <2>2, <2>3, <2>4 DEF WatchTypeOK, WatchKnows
  <2> QED BY <1>3, <2>5, OtherReads, WatchInv DEF WdUnpaid, WatchOnly
<1> QED BY <1>2, <1>3

LEMMA WatchGetInv == ASSUME IInv, WdGet PROVE IInv'
<1> DEFINE s == Get(wd.b, wd.k)
           a == IF wd.kind = "inflight" THEN InFlightAct(s) ELSE UnpaidAct(s)
           r == IF wd.kind = "inflight" /\ s = "requires_action"
                THEN wd.challenge ELSE wd.dead
           d == IF a = "cancel" THEN r ELSE "record"
           l == a = "cancel" /\ s \in Confirmable
<1>1. /\ wd \in WatchType /\ GatewayTypeOK
      /\ wd.b \in Bookings /\ wd.k \in Ids
  BY DEF IInv, TypeOK, WatchTypeOK, WdGet
<1>2. CASE wd' = WatchIdle
  BY <1>2, WatchIdleLemma, OtherReads, WatchInv DEF WdGet, WatchOnly
<1>3. CASE a # "wait" /\ wd' = [wd EXCEPT !.pc = "do", !.act = a,
                                    !.challenge = "wait", !.dead = d, !.live = l]
  <2>1. a \in WatchActs
    BY <1>1 DEF InFlightAct, UnpaidAct, WatchActs, WatchType, Reasons
  <2>2. d \in {"record"} \cup Reasons
    BY <1>1 DEF InFlightAct, WatchType, Reasons
  <2>3. l \in BOOLEAN
    OBVIOUS
  <2>4. a = "settle" => intent[wd.b, wd.k] = "succeeded"
    <3>1. a = "settle" => s = "succeeded"
      BY <1>1 DEF InFlightAct, UnpaidAct, WatchType, Reasons
    <3> QED BY <1>1, <3>1, GetLemma
  <2> HIDE DEF a, d, l
  <2>5. /\ wd' \in WatchType
        /\ wd'.pc = "do" /\ wd'.b = wd.b /\ wd'.k = wd.k /\ wd'.act = a
    BY <1>1, <1>3, <2>1, <2>2, <2>3 DEF WatchType, Watchers
  <2>6. UNCHANGED intent
    BY DEF WdGet, WatchOnly, gateway
  <2>7. WatchTypeOK' /\ WatchKnows'
    BY <1>1, <2>4, <2>5, <2>6, NatLemma DEF WatchTypeOK, WatchKnows
  <2> QED BY <2>7, OtherReads, WatchInv DEF WdGet, WatchOnly
<1> QED BY <1>2, <1>3 DEF WdGet

LEMMA WatchDoInv == ASSUME IInv, WdDo PROVE IInv'
<1>1. /\ wd \in WatchType /\ DbTypeOK /\ wd.b \in Bookings
      /\ wd.k \in Ids \cup {NoId}
      /\ wd.act # "cancel" \/ wd.live => wd.k \in Ids
  BY DEF IInv, TypeOK, WatchTypeOK, WdDo, WatchType
<1>2. DbStep
  <2>1. CASE wd.act = "settle"
    <3>1. intent[wd.b, wd.k] = "succeeded"
      BY <2>1 DEF IInv, WatchKnows, WdDo
    <3> QED BY <1>1, <2>1, <3>1, ConfirmStep DEF WdDo
  <2>2. CASE wd.act = "register_action"
    BY <1>1, <2>2, RequiresActionStep DEF WdDo
  <2>3. CASE wd.act \in {"record_retryable", "record_terminal"}
    BY <1>1, <2>3, AttemptFailedStep DEF WdDo
  <2>4. CASE wd.act \notin {"settle", "register_action", "record_retryable",
                            "record_terminal"}
    <3>1. \/ UNCHANGED db
          \/ CanWatchCancel /\ wd.kind = "unpaid" /\ CancelUnpaidBooking(wd.b)
          \/ CancelChargeInFlight(wd.b)
      BY <2>4 DEF WdDo
    <3> QED BY <1>1, <3>1, StutterStep, CancelUnpaidStep, CancelInFlightStep
            DEF CanWatchCancel
  <2> QED BY <2>1, <2>2, <2>3, <2>4
<1>3. WatchTypeOK' /\ WatchKnows'
  <2>1. CASE wd' = WatchIdle
    BY <2>1, WatchIdleLemma
  <2>2. CASE wd.live /\ wd' = [WatchIdle EXCEPT !.pc = "cancelIntent",
                                                !.b = wd.b, !.k = wd.k]
    <3>1. /\ wd' \in WatchType
          /\ wd'.pc = "cancelIntent" /\ wd'.b = wd.b /\ wd'.k = wd.k
      BY <1>1, <2>2, IdleTypes, NatLemma DEF WatchType, Watchers
    <3> QED BY <1>1, <2>2, <3>1, NatLemma DEF WatchTypeOK, WatchKnows
  <2> QED BY <2>1, <2>2 DEF WdDo
<1> QED BY <1>2, <1>3, OtherWrites, WatchInv DEF WdDo

LEMMA WatchCancelInv == ASSUME IInv, WdCancelIntent \/ WdAbort PROVE IInv'
<1>1. WatchTypeOK' /\ WatchKnows'
  BY WatchIdleLemma DEF WdCancelIntent, WdAbort
<1>2. GatewayTypeOK
  BY DEF IInv, TypeOK
<1>3. GatewayStep /\ StaysDormant
  <2>1. CASE WdCancelIntent
    <3>1. wd.b \in Bookings /\ wd.k \in Ids
      BY <2>1 DEF IInv, TypeOK, WatchTypeOK, WdCancelIntent
    <3> QED BY <1>2, <2>1, <3>1, CancelLemma DEF WdCancelIntent
  <2>2. CASE WdAbort
    BY <1>2, <2>2, FaultStep DEF WdAbort
  <2> QED BY <2>1, <2>2
<1>4. OtherStep
  BY <1>3, OtherCalls DEF WdCancelIntent, WdAbort
<1> QED BY <1>1, <1>4, WatchInv DEF WdCancelIntent, WdAbort

\* close-payment-intents.
LEMMA SweepInv ==
  ASSUME IInv, OtherStep, SweepTypeOK', SweepKnows', UNCHANGED <<wd, web>>
  PROVE  IInv'
  BY OtherInv, WatchRests, WebRests DEF IInv, TypeOK, OtherStep

LEMMA SweepIdleLemma == ASSUME sw' = SweepIdle PROVE SweepTypeOK' /\ SweepKnows'
  BY IdleTypes DEF SweepTypeOK, SweepKnows, SweepIdle

LEMMA SweepGetInv ==
  ASSUME IInv, NEW b \in Bookings, NEW k \in Ids, SwGet(b, k)
  PROVE  IInv'
<1> DEFINE act == SweepAct(Get(b, k))
<1>1. GatewayTypeOK
  BY DEF IInv, TypeOK
<1>2. sw' = [pc |-> "do", b |-> b, k |-> k, act |-> act]
  BY DEF SwGet
<1>3. act \in {"wait", "settle", "cancel", "mark_closed"}
  BY DEF SweepAct
<1>4. act = "settle" => intent[b, k] = "succeeded"
  <2>1. act = "settle" => Get(b, k) = "succeeded"
    BY DEF SweepAct
  <2> QED BY <1>1, <2>1, GetLemma
<1>5. UNCHANGED intent
  BY DEF SwGet, gateway
<1> HIDE DEF act
<1>6. SweepTypeOK' /\ SweepKnows'
  BY <1>2, <1>3, <1>4, <1>5, NatLemma DEF SweepTypeOK, SweepType, SweepKnows
<1> QED BY <1>6, OtherReads, SweepInv DEF SwGet

LEMMA SweepDoInv == ASSUME IInv, SwDo \/ SwAbort PROVE IInv'
<1>1. SweepTypeOK' /\ SweepKnows'
  BY SweepIdleLemma DEF SwDo, SwAbort
<1>2. DbTypeOK /\ GatewayTypeOK
  BY DEF IInv, TypeOK
<1>3. OtherStep
  <2>1. CASE SwDo
    <3>1. sw.b \in Bookings /\ sw.k \in Ids
      BY <2>1 DEF IInv, TypeOK, SweepTypeOK, SwDo
    <3>2. CASE sw.act = "settle"
      <4>1. intent[sw.b, sw.k] = "succeeded"
        BY <2>1, <3>2 DEF IInv, SweepKnows, SwDo
      <4>2. DbStep
        BY <1>2, <2>1, <3>1, <3>2, <4>1, ConfirmStep DEF SwDo
      <4> QED BY <2>1, <3>2, <4>2, OtherWrites DEF SwDo
    <3>3. CASE sw.act = "cancel"
      <4>1. GatewayStep /\ StaysDormant
        BY <1>2, <2>1, <3>1, <3>3, CancelLemma DEF SwDo
      <4> QED BY <2>1, <3>3, <4>1, OtherCalls DEF SwDo
    <3>4. CASE sw.act \notin {"settle", "cancel"}
      <4>1. DbStep
        BY <1>2, <2>1, <3>1, <3>4, IntentClosedStep DEF SwDo
      <4> QED BY <2>1, <3>4, <4>1, OtherWrites DEF SwDo
    <3> QED BY <3>2, <3>3, <3>4
  <2>2. CASE SwAbort
    BY <1>2, <2>2, FaultStep, OtherCalls DEF SwAbort
  <2> QED BY <2>1, <2>2
<1> QED BY <1>1, <1>3, SweepInv DEF SwDo, SwAbort

\* The web.
LEMMA WebInv ==
  ASSUME IInv, OtherStep, WebTypeOK', UNCHANGED <<wd, sw>>
  PROVE  IInv'
  BY OtherInv, WatchRests, SweepRests DEF IInv, TypeOK, OtherStep

LEMMA WebTypeLemma ==
  ASSUME WebTypeOK, NEW c \in Callers, NEW r \in WebType, WebOnly(c, r),
         r.pc # "idle" => r.b \in Bookings,
         r.pc \in {"release", "check"} => r.k \in Ids
  PROVE  WebTypeOK'
<1>1. web' = [web EXCEPT ![c] = r] /\ web \in [Callers -> WebType]
  BY DEF WebOnly, WebTypeOK
<1>2. web' \in [Callers -> WebType]
  BY <1>1
<1>3. ASSUME NEW d \in Callers
      PROVE  /\ web'[d].pc # "idle" => web'[d].b \in Bookings
             /\ web'[d].pc \in {"release", "check"} => web'[d].k \in Ids
  <2>1. web'[d] = IF d = c THEN r ELSE web[d]
    BY <1>1
  <2> QED BY <2>1 DEF WebTypeOK
<1> QED BY <1>2, <1>3 DEF WebTypeOK

LEMMA WebEndLemma ==
  ASSUME WebTypeOK, NEW c \in Callers, WebOnly(c, WebIdle)
  PROVE  WebTypeOK'
<1>1. WebIdle \in WebType /\ WebIdle.pc = "idle"
  BY IdleTypes DEF WebIdle
<1> QED BY <1>1, WebTypeLemma

LEMMA WebGotoLemma ==
  ASSUME WebTypeOK, NEW c \in Callers, web[c].pc # "idle",
         NEW pc \in {"release", "check", "unclaim", "close"},
         NEW k \in Ids \cup {NoId}, pc \in {"release", "check"} => k \in Ids,
         WebOnly(c, [web[c] EXCEPT !.k = k, !.pc = pc])
  PROVE  WebTypeOK'
<1> DEFINE r == [web[c] EXCEPT !.k = k, !.pc = pc]
<1>1. web[c] \in WebType /\ web[c].b \in Bookings
  BY DEF WebTypeOK
<1>2. r \in WebType /\ r.pc = pc /\ r.b = web[c].b /\ r.k = k
  BY <1>1, NatLemma DEF WebType
<1>3. WebOnly(c, r)
  OBVIOUS
<1> HIDE DEF r
<1> QED BY <1>1, <1>2, <1>3, WebTypeLemma

LEMMA WebClaimInv ==
  ASSUME IInv, NEW c \in Callers, NEW b \in Bookings, WebClaim(c, b)
  PROVE  IInv'
<1>1. WebTypeOK /\ DbTypeOK
  BY DEF IInv, TypeOK
<1>2. DbStep
  BY <1>1, MarkingSteps, StutterStep DEF WebClaim
<1>3. \E pc \in {"read", "unpaid"} : WebOnly(c, [WebIdle EXCEPT !.pc = pc, !.b = b])
  BY DEF WebClaim
<1>4. WebTypeOK'
  <2>1. PICK pc \in {"read", "unpaid"} :
            WebOnly(c, [WebIdle EXCEPT !.pc = pc, !.b = b])
    BY <1>3
  <2> DEFINE r == [WebIdle EXCEPT !.pc = pc, !.b = b]
  <2>2. r \in WebType /\ r.pc = pc /\ r.b = b
    BY IdleTypes, NatLemma DEF WebType
  <2>3. WebOnly(c, r)
    BY <2>1
  <2> HIDE DEF r
  <2> QED BY <1>1, <2>2, <2>3, WebTypeLemma
<1>5. UNCHANGED <<gateway, eng, wd, sw>>
  BY DEF WebClaim, WebDb
<1> QED BY <1>2, <1>4, <1>5, OtherWrites, WebInv

LEMMA WebEndInv ==
  ASSUME IInv, NEW c \in Callers, WebUnpaid(c) \/ WebUnclaim(c) \/ WebClose(c)
  PROVE  IInv'
<1>1. WebTypeOK /\ DbTypeOK
  BY DEF IInv, TypeOK
<1>2. web[c].b \in Bookings
  BY <1>1 DEF WebTypeOK, WebUnpaid, WebUnclaim, WebClose
<1>3. DbStep
  BY <1>1, <1>2, CancelUnpaidStep, MarkingSteps, CancelAuthorizedStep, StutterStep
  DEF WebUnpaid, WebUnclaim, WebClose
<1>4. WebTypeOK'
  BY <1>1, WebEndLemma DEF WebUnpaid, WebUnclaim, WebClose
<1>5. UNCHANGED <<gateway, eng, wd, sw>>
  BY DEF WebUnpaid, WebUnclaim, WebClose, WebDb
<1> QED BY <1>3, <1>4, <1>5, OtherWrites, WebInv

LEMMA WebReadInv == ASSUME IInv, NEW c \in Callers, WebRead(c) PROVE IInv'
<1>1. WebTypeOK /\ web[c].pc = "read" /\ web[c].b \in Bookings
  BY DEF IInv, TypeOK, WebTypeOK, WebRead
<1>2. PICK k \in {PendingOf(web[c].b), NoId} :
          WebOnly(c, [web[c] EXCEPT !.k = k,
                         !.pc = IF k = NoId THEN "close" ELSE "release"])
  BY DEF WebRead
<1>3. k \in Ids \cup {NoId}
  BY <1>1, PendingLemma
<1>4. WebTypeOK'
  BY <1>1, <1>2, <1>3, WebGotoLemma
<1> QED BY <1>4, OtherReads, WebInv DEF WebRead, WebDb

LEMMA WebCallInv ==
  ASSUME IInv, NEW c \in Callers, WebRelease(c) \/ WebCheck(c) \/ WebCrash(c)
  PROVE  IInv'
<1>1. WebTypeOK /\ GatewayTypeOK
  BY DEF IInv, TypeOK
<1>2. CASE WebRelease(c) \/ WebCheck(c)
  <2>1. /\ web[c].pc # "idle" /\ web[c].b \in Bookings /\ web[c].k \in Ids
        /\ web[c] \in WebType
    BY <1>1, <1>2 DEF WebTypeOK, WebRelease, WebCheck
  <2>2. GatewayStep /\ StaysDormant
    BY <1>1, <1>2, <2>1, CancelLemma, FaultStep, GatewayStutter
    DEF WebRelease, WebCheck, gateway
  <2>3. \E pc \in {"close", "check", "unclaim"} :
            WebOnly(c, [web[c] EXCEPT !.pc = pc])
    BY <1>2 DEF WebRelease, WebCheck
  <2>4. WebTypeOK'
    <3>1. PICK pc \in {"close", "check", "unclaim"} :
              WebOnly(c, [web[c] EXCEPT !.pc = pc])
      BY <2>3
    <3> DEFINE r == [web[c] EXCEPT !.pc = pc]
    <3>2. r \in WebType /\ r.pc = pc /\ r.b = web[c].b /\ r.k = web[c].k
      BY <2>1 DEF WebType
    <3>3. WebOnly(c, r)
      BY <3>1
    <3> HIDE DEF r
    <3> QED BY <1>1, <2>1, <3>2, <3>3, WebTypeLemma
  <2> QED BY <1>2, <2>2, <2>4, OtherCalls, WebInv DEF WebRelease, WebCheck
<1>3. CASE WebCrash(c)
  <2>1. WebTypeOK'
    BY <1>1, <1>3, WebEndLemma DEF WebCrash
  <2>2. GatewayStep /\ StaysDormant
    BY <1>1, <1>3, FaultStep DEF WebCrash
  <2> QED BY <1>3, <2>1, <2>2, OtherCalls, WebInv DEF WebCrash
<1> QED BY <1>2, <1>3

\* Everybody else.
LEMMA ElsewhereInv == ASSUME IInv, OtherStep, Elsewhere PROVE IInv'
  BY OtherInv, WatchRests, SweepRests, WebRests
  DEF IInv, TypeOK, OtherStep, Elsewhere

LEMMA OldMarkStep ==
  ASSUME DbTypeOK, NEW b \in Bookings, MarkGrowsOld(b) PROVE DbStep
<1>1. mark \in [Bookings -> Marks]
  BY DEF DbTypeOK
<1>2. mark' \in [Bookings -> Marks]
  <2>1. CASE mark' = [mark EXCEPT ![b].claim = "stale"]
    BY <1>1, <2>1 DEF Marks, MarkAges
  <2>2. CASE mark' = [mark EXCEPT ![b].capture = "stale"]
    BY <1>1, <2>2 DEF Marks, MarkAges
  <2> QED BY <2>1, <2>2 DEF MarkGrowsOld
<1> QED BY <1>2, MarkStep DEF MarkGrowsOld

LEMMA EnvironmentInv == ASSUME IInv, Environment PROVE IInv'
<1>1. DbTypeOK /\ GatewayTypeOK
  BY DEF IInv, TypeOK
<1>2. ASSUME NEW b \in Bookings, Book(b) \/ CancelPaid(b) \/ MarkGrowsOld(b)
      PROVE  IInv'
  <2>1. DbStep
    BY <1>1, <1>2, BookStep, CancelBookingStep, OldMarkStep DEF Book, CancelPaid
  <2> QED BY <1>2, <2>1, OtherWrites, ElsewhereInv
          DEF Book, CancelPaid, MarkGrowsOld, Elsewhere
<1>3. ASSUME NEW r \in {"staff_confirmed", "staff_cancelled"}, StaffDecides(r)
      PROVE  IInv'
  <2>1. DbStep
    BY <1>1, <1>3, ResolveStep DEF StaffDecides, Resolutions
  <2> QED BY <1>3, <2>1, OtherWrites, ElsewhereInv DEF StaffDecides, Elsewhere
<1>4. ASSUME NEW b \in Bookings, NEW k \in Ids, Webhook(b, k)
      PROVE  IInv'
  <2>1. DbStep
    BY <1>1, <1>4, ConfirmStep DEF Webhook
  <2> QED BY <1>4, <2>1, OtherWrites, ElsewhereInv DEF Webhook, Elsewhere
<1>5. ASSUME NEW b \in Bookings, NEW k \in Ids, GatewayMoves(b, k)
      PROVE  IInv'
  <2>1. GatewayStep /\ StaysDormant
    BY <1>1, <1>5, GatewayMovesLemma
  <2> QED BY <1>5, <2>1, OtherCalls, ElsewhereInv DEF GatewayMoves, Elsewhere
<1>6. CASE TimePasses
  <2>1. DbStep
    BY <1>1, <1>6, TickStep DEF TimePasses
  <2> QED BY <1>6, <2>1, OtherWrites, ElsewhereInv DEF TimePasses, Elsewhere
<1> QED BY <1>2, <1>3, <1>4, <1>5, <1>6 DEF Environment

-----------------------------------------------------------------------------
(* The theorems.                                                           *)

LEMMA NextInv == ASSUME IInv, [Next]_vars PROVE IInv'
<1>1. CASE EngineStep \/ EngAbort
  BY <1>1, EngineStepLemma, EngineInv
<1>2. CASE WatchStep \/ WdAbort
  BY <1>2, WatchFetchInv, WatchGetInv, WatchDoInv, WatchCancelInv DEF WatchStep
<1>3. CASE SweepStep \/ SwAbort
  BY <1>3, SweepGetInv, SweepDoInv DEF SweepStep
<1>4. ASSUME NEW c \in Callers, WebStep(c) \/ WebCrash(c)
      PROVE  IInv'
  BY <1>4, WebClaimInv, WebEndInv, WebReadInv, WebCallInv DEF WebStep
<1>5. CASE Environment
  BY <1>5, EnvironmentInv
<1>6. CASE UNCHANGED vars
  BY <1>6, OtherReads, ElsewhereInv DEF vars, Elsewhere
<1> QED BY <1>1, <1>2, <1>3, <1>4, <1>5, <1>6 DEF Next, Crash

\* The inductive invariant: no SQL function, no call of the jobs, no request of
\* the web and no failure ever makes the rows, the gateway and what a process
\* remembers of an earlier GET disagree about what was charged.
THEOREM Inductive == Spec => []IInv
<1>1. Init => IInv
  BY InitInv
<1>2. IInv /\ [Next]_vars => IInv'
  BY NextInv
<1> QED BY <1>1, <1>2, PTL DEF Spec

\* Every variable keeps its type: among others, a process that holds a booking
\* and an intent holds ones that exist, whatever the others did meanwhile.
THEOREM TypeCorrect == Spec => []TypeOK
<1>1. IInv => TypeOK
  BY DEF IInv
<1> QED BY <1>1, Inductive, PTL

\* Nobody has a confirmed seat without having paid: whatever the interleaving
\* of jobs, requests, webhooks and failures, one of the booking's intents was
\* charged and its row says so.
THEOREM ConfirmedPaid == Spec => []ConfirmedIsPaid
<1>1. IInv => ConfirmedIsPaid
  BY DEF IInv, BooksInv, ConfirmedIsPaid
<1> QED BY <1>1, Inductive, PTL

\* Money is only given back out of a charge that was really made, and only
\* for a booking that is cancelled.
THEOREM RefundsCovered == Spec => []RefundIsOfACharge
<1>1. IInv => RefundIsOfACharge
  <2> SUFFICES ASSUME IInv, NEW b \in Bookings, refund[b] # NoId
               PROVE  /\ row[b, refund[b]] = "succeeded"
                      /\ intent[b, refund[b]] = "succeeded"
                      /\ status[b] = "cancelled"
    BY DEF RefundIsOfACharge
  <2>1. PICK k \in Ids : k = refund[b]
    BY DEF IInv, TypeOK, DbTypeOK
  <2>2. row[b, k] = "succeeded" /\ status[b] = "cancelled"
    BY <2>1 DEF IInv, BooksInv
  <2> QED BY <2>1, <2>2 DEF IInv, BooksInv
<1> QED BY <1>1, Inductive, PTL

-----------------------------------------------------------------------------
(* The money of a charge: what the gateway holds or took is always on the  *)
(* list of some job, and is held or taken once.  For every number of       *)
(* bookings and intents, every answer, fault and dead process, with two    *)
(* hypotheses that the code does not keep and without which the property   *)
(* is false: one request at a time cancels bookings, and its query of the  *)
(* live intent does not fail.                                              *)

OneRequest == \A c, d \in Callers : c = d

-----------------------------------------------------------------------------
(* The inductive invariant.                                                *)

\* What may be known of an intent for good: it is closed, it was not
\* confirmed or was rejected, or its payment was once authorized.
Closed(b, k)  == intent[b, k] \in ClosedIntents
Spent(b, k)   == intent[b, k] \notin Committed
WasHeld(b, k) == intent[b, k] \in {"requires_capture", "capturing", "succeeded",
                                   "canceled"}

Pending(b, k) == row[b, k] = "pending"
Charging(b)   == status[b] = "pending_payment"

\* The rows of a booking against its status, its marks and its intents.
RowFacts(b, k) ==
    /\ row[b, k] = "closed" => Closed(b, k)
    /\ row[b, k] = "none" =>
          intent[b, k] \in {"none", "requires_payment_method", "canceled"}
    /\ intent[b, k] = "none" => row[b, k] = "none"
    /\ row[b, k] = "succeeded" => status[b] \in {"confirmed", "cancelled"}
    /\ Charging(b) /\ mark[b].auth /\ Pending(b, k) => WasHeld(b, k)
RowsOf(b) ==
    /\ \A i, j \in Ids : Pending(b, i) /\ Pending(b, j) => i = j
    /\ Charging(b) => \E k \in Ids : Pending(b, k)
    /\ \A k \in Ids : RowFacts(b, k)
    /\ status[b] \in {"absent", "pending_minimum"} => mark[b] = NoMarks
    /\ dep.cancelled => ~Live(b)

\* MoneyIsTracked and HeldOnce, of one booking.
TrackedOf(b) ==
    \A k \in Ids :
        intent[b, k] \in Committed =>
            \/ Pending(b, k) /\ Charging(b)
            \/ row[b, k] \in {"pending", "failed"} /\ status[b] = "cancelled"
            \/ row[b, k] = "succeeded" /\ intent[b, k] = "succeeded"
OnceOf(b) ==
    \A i, j \in Ids : ~Spent(b, i) /\ ~Spent(b, j) => i = j

MoneyOf(b) == RowsOf(b) /\ TrackedOf(b) /\ OnceOf(b)

\* What the engine relies on when it confirms an intent, and what an answer
\* of the gateway says of the intent for good.
ConfirmReady(b, k) ==
    /\ \/ Pending(b, k) /\ Charging(b) /\ ~mark[b].auth
       \/ /\ status[b] = "cancelled"
          /\ row[b, k] \in {"pending", "failed"} \/ Closed(b, k)
    /\ \A j \in Ids : Spent(b, j)

Answered(b, k, s) ==
    /\ s = "requires_capture" => WasHeld(b, k)
    /\ s \in ClosedIntents => Closed(b, k)
    /\ s \notin {"requires_capture", "requires_action", "succeeded", "processing"}
          => Spent(b, k)

CaptureAnswered(b, k, s) ==
    s \in {"succeeded", "requires_capture", "processing"} \/ Closed(b, k)

\* The engine is the only one who starts a charge: of a booking that is still
\* charging it looks at the intent it found.
EngineSees ==
    /\ eng.pc = "start" => row[eng.b, eng.k] = "none"
    /\ eng.pc = "confirm" =>
          /\ ConfirmReady(eng.b, eng.k)
          /\ wd.pc # "idle" /\ wd.b = eng.b => wd.k # eng.k
    /\ eng.pc \in {"register", "confirmed"} => Answered(eng.b, eng.k, eng.reply)
    /\ eng.pc \in {"closePay", "discarded", "relDb"} => Closed(eng.b, eng.k)
    /\ eng.pc \in {"capMark", "relGet", "relCancel", "relDb"} /\ Charging(eng.b) =>
          Pending(eng.b, eng.k)
    /\ eng.pc \in {"capture", "reget", "captured"} => WasHeld(eng.b, eng.k)
    /\ eng.pc = "captured" => CaptureAnswered(eng.b, eng.k, eng.reply)

WatchSees ==
    /\ wd.pc # "idle" /\ wd.k # NoId => row[wd.b, wd.k] # "none"
    /\ wd.pc = "do" /\ wd.act = "record_retryable" => Spent(wd.b, wd.k)
    /\ wd.pc = "do" /\ wd.act = "record_terminal" => Closed(wd.b, wd.k)

SweepSees ==
    sw.pc = "do" /\ sw.act \notin {"settle", "cancel"} => Closed(sw.b, sw.k)

\* A request that has the claim of a booking and read its intent: no other
\* intent is live until the claim is gone.
WebSees ==
    \A c \in Callers :
        LET b == web[c].b IN
        /\ web[c].pc \in {"release", "check", "close"}
        /\ Charging(b) /\ mark[b].claim # "none"
        => \A k \in Ids : Pending(b, k) =>
              IF web[c].pc = "close" THEN Closed(b, k) ELSE k = web[c].k

MoneyInv ==
    /\ \A b \in Bookings : MoneyOf(b)
    /\ EngineSees /\ WatchSees /\ SweepSees /\ WebSees

-----------------------------------------------------------------------------
(* The SQL functions and the rows of a booking.                            *)

SameBooking(c) ==
    /\ status'[c] = status[c] /\ mark'[c] = mark[c]
    /\ \A j \in Ids : row'[c, j] = row[c, j]

\* No row is ever deleted.
RowsGrow(c) == \A j \in Ids : row[c, j] # "none" => row'[c, j] # "none"

\* A booking that is charging under a claim was so before, with that intent.
ClaimsStay(c) ==
    status'[c] = "pending_payment" /\ mark'[c].claim # "none" =>
        /\ Charging(c) /\ mark[c].claim # "none"
        /\ \A j \in Ids : row'[c, j] = "pending" => Pending(c, j)

\* What those do to a booking who do not start charges.
OutsideOf(c) ==
    /\ \A j \in Ids : row'[c, j] = "none" <=> row[c, j] = "none"
    /\ status'[c] = "pending_payment" =>
          /\ Charging(c)
          /\ mark'[c].auth => mark[c].auth
          /\ \A j \in Ids : row'[c, j] = "pending" <=> Pending(c, j)
    /\ status[c] = "cancelled" =>
          /\ status'[c] = "cancelled"
          /\ \A j \in Ids :
                row[c, j] \in {"pending", "failed"} =>
                    \/ row'[c, j] \in {"pending", "failed"}
                    \/ Closed(c, j) \/ intent[c, j] = "succeeded"
    /\ Charging(c) /\ status'[c] # "pending_payment" =>
          \/ /\ status'[c] = "cancelled"
             /\ \A j \in Ids : Pending(c, j) =>
                   row'[c, j] \in {"pending", "failed"} \/ Closed(c, j)
          \/ \E j \in Ids :
                /\ Pending(c, j)
                /\ \/ intent[c, j] = "succeeded"
                   \/ wd.pc # "idle" /\ wd.b = c /\ wd.k = j

MoneyFine == \A c \in Bookings : MoneyOf(c)' /\ RowsGrow(c)
Claims    == \A c \in Bookings : ClaimsStay(c)
Outside   == \A c \in Bookings : OutsideOf(c)

\* A function that works on one booking.
DbKeeps(b) ==
    /\ RowsOf(b)' /\ TrackedOf(b)' /\ RowsGrow(b)
    /\ \A c \in Bookings : c # b => SameBooking(c)
    /\ dep'.cancelled = dep.cancelled

LEMMA SameKeeps ==
  ASSUME NEW b \in Bookings, MoneyOf(b), SameBooking(b), UNCHANGED intent,
         dep'.cancelled = dep.cancelled
  PROVE  MoneyOf(b)' /\ RowsGrow(b) /\ ClaimsStay(b) /\ OutsideOf(b)
<1>1. RowsOf(b)'
  BY
     DEF MoneyOf, RowsOf, RowFacts, SameBooking, Pending, Charging, Closed, WasHeld,
         Live
<1>2. TrackedOf(b)' /\ OnceOf(b)'
  BY DEF MoneyOf, TrackedOf, OnceOf, SameBooking, Pending, Charging, Spent
<1>3. RowsGrow(b) /\ ClaimsStay(b) /\ OutsideOf(b)
  BY DEF SameBooking, RowsGrow, ClaimsStay, OutsideOf, Pending, Charging
<1> QED BY <1>1, <1>2, <1>3 DEF MoneyOf

LEMMA KeepsLemma ==
  ASSUME \A c \in Bookings : MoneyOf(c), NEW b \in Bookings, DbKeeps(b),
         UNCHANGED intent
  PROVE  /\ MoneyFine
         /\ ClaimsStay(b) => Claims
         /\ OutsideOf(b) => Outside
<1>1. OnceOf(b)'
  BY DEF MoneyOf, OnceOf, Spent
<1>2. MoneyOf(b)'
  BY <1>1 DEF MoneyOf, DbKeeps
<1>3. ASSUME NEW c \in Bookings, c # b
      PROVE  MoneyOf(c)' /\ RowsGrow(c) /\ ClaimsStay(c) /\ OutsideOf(c)
  <2>1. SameBooking(c) /\ MoneyOf(c) /\ dep'.cancelled = dep.cancelled
    BY <1>3 DEF DbKeeps
  <2> QED BY <2>1, SameKeeps
<1> QED BY <1>2, <1>3 DEF MoneyFine, Claims, Outside, DbKeeps

LEMMA NothingMoves ==
  ASSUME \A c \in Bookings : MoneyOf(c), UNCHANGED intent,
         UNCHANGED <<status, mark, row>>, dep'.cancelled = dep.cancelled
  PROVE  MoneyFine /\ Claims /\ Outside
<1>1. ASSUME NEW c \in Bookings
      PROVE  MoneyOf(c)' /\ RowsGrow(c) /\ ClaimsStay(c) /\ OutsideOf(c)
  <2>1. SameBooking(c)
    BY DEF SameBooking
  <2> QED BY <2>1, SameKeeps
<1> QED BY <1>1 DEF MoneyFine, Claims, Outside

\* The row of one intent, and the status and the marks of one booking.
LEMMA RowUpdate ==
  ASSUME DbTypeOK, NEW b \in Bookings, NEW k \in Ids, NEW x,
         row' = [row EXCEPT ![<<b, k>>] = x]
  PROVE  /\ row'[b, k] = x
         /\ \A c \in Bookings, j \in Ids : c # b \/ j # k => row'[c, j] = row[c, j]
  BY DEF DbTypeOK

LEMMA RowSet ==
  ASSUME DbTypeOK, NEW b \in Bookings, NEW k \in Ids, NEW x,
         row' = [row EXCEPT ![<<b, k>>] = x]
  PROVE  row'[b, k] = x
  BY DEF DbTypeOK

LEMMA StatusUpdate ==
  ASSUME DbTypeOK, NEW b \in Bookings, NEW x, status' = [status EXCEPT ![b] = x]
  PROVE  /\ status'[b] = x
         /\ \A c \in Bookings : c # b => status'[c] = status[c]
  BY DEF DbTypeOK

LEMMA MarkUpdate ==
  ASSUME DbTypeOK, NEW b \in Bookings, NEW x, mark' = [mark EXCEPT ![b] = x]
  PROVE  /\ mark'[b] = x
         /\ \A c \in Bookings : c # b => mark'[c] = mark[c]
  BY DEF DbTypeOK

LEMMA NoMarksLemma == ~NoMarks.auth /\ NoMarks.claim = "none"
  BY DEF NoMarks

LEMMA FieldUpdates ==
  ASSUME DbTypeOK, NEW b \in Bookings, NEW x, NEW y
  PROVE  /\ mark' = [mark EXCEPT ![b].auth = x] =>
               /\ mark'[b].auth = x /\ mark'[b].claim = mark[b].claim
               /\ \A c \in Bookings : c # b => mark'[c] = mark[c]
         /\ mark' = [mark EXCEPT ![b].claim = x] =>
               /\ mark'[b].auth = mark[b].auth /\ mark'[b].claim = x
               /\ \A c \in Bookings : c # b => mark'[c] = mark[c]
         /\ mark' = [mark EXCEPT ![b].capture = x] =>
               /\ mark'[b].auth = mark[b].auth
               /\ mark'[b].claim = mark[b].claim
               /\ \A c \in Bookings : c # b => mark'[c] = mark[c]
         /\ mark' = [mark EXCEPT ![b].claim = x, ![b].capture = y] =>
               /\ mark'[b].auth = mark[b].auth
               /\ mark'[b].claim = x /\ mark'[b].capture = y
               /\ \A c \in Bookings : c # b => mark'[c] = mark[c]
  BY DEF DbTypeOK, Marks

LEMMA CancelledRows ==
  ASSUME NEW b \in Bookings, NEW r, row' = RowsWhenCancelled(b, r)
  PROVE  /\ \A j \in Ids : row'[b, j] = IF Pending(b, j) THEN r ELSE row[b, j]
         /\ \A c \in Bookings, j \in Ids : c # b => row'[c, j] = row[c, j]
  BY DEF RowsWhenCancelled, Pending

\* A function that finds nothing to do.
LEMMA IdleKeeps ==
  ASSUME NEW b \in Bookings, MoneyOf(b), UNCHANGED <<intent, status, mark, row, dep>>
  PROVE  DbKeeps(b) /\ ClaimsStay(b) /\ OutsideOf(b)
<1>1. \A c \in Bookings : SameBooking(c)
  BY DEF SameBooking
<1> QED BY <1>1, SameKeeps DEF DbKeeps, MoneyOf

LEMMA BookKeeps ==
  ASSUME DbTypeOK, UNCHANGED intent, NEW b \in Bookings, MoneyOf(b),
         CreateDeferredBooking(b)
  PROVE  DbKeeps(b) /\ ClaimsStay(b) /\ OutsideOf(b)
<1>1. /\ status[b] = "absent" /\ ~dep.cancelled
      /\ status' = [status EXCEPT ![b] = "pending_minimum"]
      /\ UNCHANGED <<mark, row, dep, intent>>
  BY DEF CreateDeferredBooking
<1>2. /\ status'[b] = "pending_minimum"
      /\ \A c \in Bookings : c # b => status'[c] = status[c]
  BY <1>1, StatusUpdate
<1>11. RowsOf(b)'
  BY <1>1, <1>2 DEF MoneyOf, RowsOf, RowFacts, Pending, Charging, Closed, WasHeld, Live
<1>12. TrackedOf(b)'
  BY <1>1, <1>2
     DEF MoneyOf, RowsOf, RowFacts, TrackedOf, Pending, Charging, Closed, Spent
<1>13. /\ RowsGrow(b) /\ dep'.cancelled = dep.cancelled
      /\ \A c \in Bookings : c # b => SameBooking(c)
  BY <1>1, <1>2 DEF RowsGrow, SameBooking
<1>14. ClaimsStay(b)
  BY <1>1, <1>2 DEF ClaimsStay, Pending, Charging, MoneyOf, RowsOf, RowFacts
<1>15. OutsideOf(b)
  BY <1>1, <1>2
     DEF OutsideOf, Pending, Charging, Closed, Spent, MoneyOf, RowsOf, RowFacts
<1> QED BY <1>11, <1>12, <1>13, <1>14, <1>15 DEF DbKeeps

LEMMA StartKeeps ==
  ASSUME DbTypeOK, UNCHANGED intent, NEW b \in Bookings, MoneyOf(b),
         NEW k \in Ids, row[b, k] = "none", intent[b, k] \in Dormant,
         CanStart(b, k), ChargeBookingStart(b, k)
  PROVE  DbKeeps(b) /\ ClaimsStay(b)
<1>1. /\ row' = [row EXCEPT ![<<b, k>>] = "pending"]
      /\ status' = [status EXCEPT ![b] = "pending_payment"]
      /\ UNCHANGED <<mark, dep, intent>>
      /\ status[b] = "pending_minimum" /\ ~dep.cancelled
      /\ \A j \in Ids : Pending(b, j) => j = k
  BY DEF ChargeBookingStart, CanStart, PendingIds, Pending
<1>2. /\ status'[b] = "pending_payment" /\ row'[b, k] = "pending"
      /\ \A c \in Bookings : c # b => status'[c] = status[c]
      /\ \A c \in Bookings, j \in Ids : c # b \/ j # k => row'[c, j] = row[c, j]
  <2>1. /\ status'[b] = "pending_payment"
        /\ \A c \in Bookings : c # b => status'[c] = status[c]
    BY <1>1, StatusUpdate
  <2>2. /\ row'[b, k] = "pending"
        /\ \A c \in Bookings, j \in Ids : c # b \/ j # k => row'[c, j] = row[c, j]
    BY <1>1, RowUpdate
  <2> QED BY <2>1, <2>2
<1>3. /\ mark[b] = NoMarks /\ mark'[b] = NoMarks
      /\ ~mark'[b].auth /\ mark'[b].claim = "none"
  <2>1. mark[b] = NoMarks /\ mark'[b] = NoMarks
    BY <1>1 DEF MoneyOf, RowsOf
  <2> QED BY <2>1, NoMarksLemma
<1>4. \A j \in Ids : intent[b, j] \notin Committed
  BY <1>1 DEF MoneyOf, RowsOf, RowFacts, TrackedOf, Charging
<1>5. intent[b, k] # "none"
  BY DEF Dormant
<1>11. RowsOf(b)'
  <2>1. \A i, j \in Ids : Pending(b, i)' /\ Pending(b, j)' => i = j
    BY <1>1, <1>2, <1>3, <1>4, <1>5 DEF MoneyOf, RowsOf, Pending
  <2>2. Charging(b)' => \E i \in Ids : Pending(b, i)'
    BY <1>1, <1>2, <1>3, <1>4, <1>5 DEF MoneyOf, RowsOf, Pending, Charging
  <2>3. ASSUME NEW j \in Ids PROVE RowFacts(b, j)'
    <3>1. RowFacts(b, j) /\ intent'[b, j] = intent[b, j]
      BY DEF MoneyOf, RowsOf
    <3>2. CASE j = k
      BY <1>1, <1>2, <1>3, <1>4, <1>5, <3>1, <3>2
         DEF RowFacts, Pending, Charging, Closed, WasHeld
    <3>3. CASE j # k
      BY <1>1, <1>2, <1>3, <1>4, <1>5, <3>1, <3>3
         DEF RowFacts, Pending, Charging, Closed, WasHeld
    <3> QED BY <3>2, <3>3
  <2>4. /\ status'[b] \in {"absent", "pending_minimum"} => mark'[b] = NoMarks
        /\ dep'.cancelled => ~Live(b)'
    BY <1>1, <1>2, <1>3, <1>4, <1>5 DEF MoneyOf, RowsOf, Live, Charging
  <2> QED BY <2>1, <2>2, <2>3, <2>4 DEF RowsOf, Pending, Charging, Live
<1>12. TrackedOf(b)'
  BY <1>1, <1>2, <1>3, <1>4, <1>5
     DEF MoneyOf, RowsOf, RowFacts, TrackedOf, Pending, Charging, Closed, Spent
<1>13. /\ RowsGrow(b) /\ dep'.cancelled = dep.cancelled
      /\ \A c \in Bookings : c # b => SameBooking(c)
  BY <1>1, <1>2, <1>3, <1>4, <1>5 DEF RowsGrow, SameBooking
<1>14. ClaimsStay(b)
  BY <1>1, <1>2, <1>3, <1>4, <1>5
     DEF ClaimsStay, Pending, Charging, MoneyOf, RowsOf, RowFacts
<1> QED BY <1>11, <1>12, <1>13, <1>14 DEF DbKeeps

LEMMA AuthorizeKeeps ==
  ASSUME DbTypeOK, UNCHANGED intent, NEW b \in Bookings, MoneyOf(b),
         NEW k \in Ids, WasHeld(b, k), RecordAuthorization(b, k)
  PROVE  DbKeeps(b) /\ ClaimsStay(b)
<1>1. UNCHANGED <<intent, status, row, dep>>
  BY DEF RecordAuthorization
<1>2. CASE ~CanAuthorize(b, k)
  BY <1>1, <1>2, IdleKeeps DEF RecordAuthorization
<1>3. CASE CanAuthorize(b, k)
  <2>1. Charging(b) /\ Pending(b, k)
    BY <1>3 DEF CanAuthorize, Charging, Pending
  <2>2. /\ mark'[b].claim = mark[b].claim
        /\ \A c \in Bookings : c # b => mark'[c] = mark[c]
    BY <1>3, FieldUpdates DEF RecordAuthorization
  <2>11. RowsOf(b)'
    BY <1>1, <2>1, <2>2
       DEF MoneyOf, RowsOf, RowFacts, Pending, Charging, Closed, WasHeld, Live
  <2>12. TrackedOf(b)'
    BY <1>1, <2>1, <2>2
       DEF MoneyOf, RowsOf, RowFacts, TrackedOf, Pending, Charging, Closed, Spent
  <2>13. /\ RowsGrow(b) /\ dep'.cancelled = dep.cancelled
        /\ \A c \in Bookings : c # b => SameBooking(c)
    BY <1>1, <2>1, <2>2 DEF RowsGrow, SameBooking
  <2>14. ClaimsStay(b)
    BY <1>1, <2>1, <2>2 DEF ClaimsStay, Pending, Charging, MoneyOf, RowsOf, RowFacts
  <2> QED BY <2>11, <2>12, <2>13, <2>14 DEF DbKeeps
<1> QED BY <1>2, <1>3

LEMMA AttemptFailedKeeps ==
  ASSUME DbTypeOK, UNCHANGED intent, NEW b \in Bookings, MoneyOf(b),
         NEW k \in Ids, NEW terminal \in BOOLEAN, Spent(b, k),
         terminal => Closed(b, k), ChargeAttemptFailed(b, k, terminal)
  PROVE  /\ DbKeeps(b) /\ ClaimsStay(b)
         /\ wd.pc # "idle" /\ wd.b = b /\ wd.k = k => OutsideOf(b)
<1>1. CASE ~CanFailAttempt(b, k)
  BY <1>1, IdleKeeps DEF ChargeAttemptFailed, db
<1>2. CASE CanFailAttempt(b, k)
  <2>1. /\ status' = [status EXCEPT ![b] = "pending_minimum"]
        /\ mark' = [mark EXCEPT ![b] = NoMarks]
        /\ row' = IF terminal THEN [row EXCEPT ![<<b, k>>] = "closed"] ELSE row
        /\ UNCHANGED <<dep, intent>>
        /\ Charging(b) /\ Pending(b, k)
    BY <1>2 DEF ChargeAttemptFailed, CanFailAttempt, Charging, Pending
  <2>2. /\ status'[b] = "pending_minimum" /\ mark'[b] = NoMarks
        /\ \A c \in Bookings : c # b => status'[c] = status[c] /\ mark'[c] = mark[c]
    <3>1. /\ status'[b] = "pending_minimum"
          /\ \A c \in Bookings : c # b => status'[c] = status[c]
      BY <2>1, StatusUpdate
    <3>2. /\ mark'[b] = NoMarks
          /\ \A c \in Bookings : c # b => mark'[c] = mark[c]
      BY <2>1, MarkUpdate
    <3> QED BY <3>1, <3>2
  <2>3. /\ terminal => row'[b, k] = "closed"
        /\ ~terminal => row'[b, k] = "pending"
        /\ \A c \in Bookings, j \in Ids : c # b \/ j # k => row'[c, j] = row[c, j]
    <3>1. CASE terminal
      <4>1. row' = [row EXCEPT ![<<b, k>>] = "closed"]
        BY <2>1, <3>1
      <4>2. row'[b, k] = "closed"
        BY <4>1, RowSet
      <4>3. \A c \in Bookings, j \in Ids : c # b \/ j # k => row'[c, j] = row[c, j]
        BY <4>1, RowUpdate
      <4> QED BY <3>1, <4>2, <4>3
    <3>2. CASE ~terminal
      <4>1. row' = row
        BY <2>1, <3>2
      <4> QED BY <2>1, <3>2, <4>1 DEF Pending
    <3> QED BY <3>1, <3>2
  <2>4. \A j \in Ids : intent[b, j] \notin Committed
    BY <2>1 DEF MoneyOf, RowsOf, RowFacts, TrackedOf, Charging, Pending, Spent
  <2>5. terminal => intent[b, k] \in ClosedIntents
    BY DEF Closed
  <2>11. RowsOf(b)'
    <3>1. \A i, j \in Ids : Pending(b, i)' /\ Pending(b, j)' => i = j
      <4>1. \A i, j \in Ids : Pending(b, i) /\ Pending(b, j) => i = j
        BY DEF MoneyOf, RowsOf
      <4>2. \A j \in Ids : Pending(b, j)' => Pending(b, j)
        BY <2>1, <2>3 DEF Pending
      <4> QED BY <4>1, <4>2
    <3>2. Charging(b)' => \E i \in Ids : Pending(b, i)'
      BY <2>2 DEF Charging
    <3>3. ASSUME NEW j \in Ids PROVE RowFacts(b, j)'
      <4>1. RowFacts(b, j) /\ intent'[b, j] = intent[b, j]
        BY DEF MoneyOf, RowsOf
      <4>2. CASE j = k
        BY <2>1, <2>2, <2>3, <2>4, <2>5, <4>1, <4>2
           DEF RowFacts, Pending, Charging, Closed, WasHeld
      <4>3. CASE j # k
        BY <2>1, <2>2, <2>3, <2>4, <2>5, <4>1, <4>3
           DEF RowFacts, Pending, Charging, Closed, WasHeld
      <4> QED BY <4>2, <4>3
    <3>4. /\ status'[b] \in {"absent", "pending_minimum"} => mark'[b] = NoMarks
          /\ dep'.cancelled => ~Live(b)'
      BY <2>1, <2>2, <2>3, <2>4, <2>5 DEF MoneyOf, RowsOf, Live, Charging
    <3> QED BY <3>1, <3>2, <3>3, <3>4 DEF RowsOf, Pending, Charging, Live
  <2>12. TrackedOf(b)'
    BY <2>1, <2>2, <2>3, <2>4, <2>5
       DEF MoneyOf, RowsOf, RowFacts, TrackedOf, Pending, Charging, Closed, Spent
  <2>13. /\ RowsGrow(b) /\ dep'.cancelled = dep.cancelled
        /\ \A c \in Bookings : c # b => SameBooking(c)
    BY <2>1, <2>2, <2>3, <2>4, <2>5 DEF RowsGrow, SameBooking
  <2>14. ClaimsStay(b)
    BY <2>1, <2>2, <2>3, <2>4, <2>5
       DEF ClaimsStay, Pending, Charging, MoneyOf, RowsOf, RowFacts
  <2>15. wd.pc # "idle" /\ wd.b = b /\ wd.k = k => OutsideOf(b)
    BY <2>1, <2>2, <2>3, <2>4, <2>5
       DEF OutsideOf, Pending, Charging, Closed, Spent, MoneyOf, RowsOf, RowFacts
  <2> QED BY <2>11, <2>12, <2>13, <2>14, <2>15 DEF DbKeeps
<1> QED BY <1>1, <1>2

LEMMA ClosePendingKeeps ==
  ASSUME DbTypeOK, UNCHANGED intent, NEW b \in Bookings, MoneyOf(b),
         NEW k \in Ids, Closed(b, k), ClosePendingPayment(b, k)
  PROVE  DbKeeps(b) /\ ClaimsStay(b)
<1>1. UNCHANGED <<intent, status, mark, dep>>
  BY DEF ClosePendingPayment
<1>2. CASE ~CanClosePending(b, k)
  BY <1>1, <1>2, IdleKeeps DEF ClosePendingPayment
<1>3. CASE CanClosePending(b, k)
  <2>1. /\ row' = [row EXCEPT ![<<b, k>>] = "closed"]
        /\ status[b] = "pending_minimum"
    BY <1>3 DEF ClosePendingPayment, CanClosePending
  <2>2. /\ row'[b, k] = "closed"
        /\ \A c \in Bookings, j \in Ids : c # b \/ j # k => row'[c, j] = row[c, j]
    BY <2>1, RowUpdate
  <2>3. intent[b, k] \in ClosedIntents /\ intent[b, k] # "none"
    BY DEF Closed, ClosedIntents
  <2>11. RowsOf(b)'
    <3>1. \A i, j \in Ids : Pending(b, i)' /\ Pending(b, j)' => i = j
      BY <1>1, <2>1, <2>2, <2>3 DEF MoneyOf, RowsOf, Pending
    <3>2. Charging(b)' => \E i \in Ids : Pending(b, i)'
      BY <1>1, <2>1, <2>2, <2>3 DEF MoneyOf, RowsOf, Pending, Charging
    <3>3. ASSUME NEW j \in Ids PROVE RowFacts(b, j)'
      <4>1. RowFacts(b, j) /\ intent'[b, j] = intent[b, j]
        BY DEF MoneyOf, RowsOf
      <4>2. CASE j = k
        BY <1>1, <2>1, <2>2, <2>3, <4>1, <4>2
           DEF RowFacts, Pending, Charging, Closed, WasHeld
      <4>3. CASE j # k
        BY <1>1, <2>1, <2>2, <2>3, <4>1, <4>3
           DEF RowFacts, Pending, Charging, Closed, WasHeld
      <4> QED BY <4>2, <4>3
    <3>4. /\ status'[b] \in {"absent", "pending_minimum"} => mark'[b] = NoMarks
          /\ dep'.cancelled => ~Live(b)'
      BY <1>1, <2>1, <2>2, <2>3 DEF MoneyOf, RowsOf, Live, Charging
    <3> QED BY <3>1, <3>2, <3>3, <3>4 DEF RowsOf, Pending, Charging, Live
  <2>12. TrackedOf(b)'
    BY <1>1, <2>1, <2>2, <2>3
       DEF MoneyOf, RowsOf, RowFacts, TrackedOf, Pending, Charging, Closed, Spent
  <2>13. /\ RowsGrow(b) /\ dep'.cancelled = dep.cancelled
        /\ \A c \in Bookings : c # b => SameBooking(c)
    BY <1>1, <2>1, <2>2, <2>3 DEF RowsGrow, SameBooking
  <2>14. ClaimsStay(b)
    BY <1>1, <2>1, <2>2, <2>3
       DEF ClaimsStay, Pending, Charging, MoneyOf, RowsOf, RowFacts
  <2> QED BY <2>11, <2>12, <2>13, <2>14 DEF DbKeeps
<1> QED BY <1>2, <1>3

LEMMA ReleaseKeeps ==
  ASSUME DbTypeOK, UNCHANGED intent, NEW b \in Bookings, MoneyOf(b),
         NEW k \in Ids, Closed(b, k), Charging(b) => Pending(b, k),
         ReleaseAuthorization(b, k)
  PROVE  DbKeeps(b) /\ ClaimsStay(b)
<1>1. CASE ~Charging(b)
  BY <1>1, IdleKeeps DEF ReleaseAuthorization, Charging, db
<1>2. CASE Charging(b)
  <2>1. /\ row' = [row EXCEPT ![<<b, k>>] = "closed"]
        /\ status' = [status EXCEPT ![b] = "pending_minimum"]
        /\ mark' = [mark EXCEPT ![b] = NoMarks]
        /\ UNCHANGED <<dep, intent>>
        /\ Charging(b) /\ Pending(b, k)
    BY <1>2 DEF ReleaseAuthorization, Charging, Pending
  <2>2. /\ status'[b] = "pending_minimum" /\ mark'[b] = NoMarks
        /\ row'[b, k] = "closed"
        /\ \A c \in Bookings : c # b => status'[c] = status[c] /\ mark'[c] = mark[c]
        /\ \A c \in Bookings, j \in Ids : c # b \/ j # k => row'[c, j] = row[c, j]
    <3>1. /\ status'[b] = "pending_minimum"
          /\ \A c \in Bookings : c # b => status'[c] = status[c]
      BY <2>1, StatusUpdate
    <3>2. /\ mark'[b] = NoMarks
          /\ \A c \in Bookings : c # b => mark'[c] = mark[c]
      BY <2>1, MarkUpdate
    <3>3. /\ row'[b, k] = "closed"
          /\ \A c \in Bookings, j \in Ids : c # b \/ j # k => row'[c, j] = row[c, j]
      BY <2>1, RowUpdate
    <3> QED BY <3>1, <3>2, <3>3
  <2>3. intent[b, k] \in ClosedIntents /\ intent[b, k] # "none"
        /\ intent[b, k] \notin Committed
    BY DEF Closed, ClosedIntents, Committed
  <2>4. \A j \in Ids : intent[b, j] \notin Committed
    BY <2>1, <2>3 DEF MoneyOf, RowsOf, RowFacts, TrackedOf, Charging, Pending
  <2>11. RowsOf(b)'
    <3>1. \A i, j \in Ids : Pending(b, i)' /\ Pending(b, j)' => i = j
      BY <2>1, <2>2, <2>3, <2>4 DEF MoneyOf, RowsOf, Pending
    <3>2. Charging(b)' => \E i \in Ids : Pending(b, i)'
      BY <2>1, <2>2, <2>3, <2>4 DEF MoneyOf, RowsOf, Pending, Charging
    <3>3. ASSUME NEW j \in Ids PROVE RowFacts(b, j)'
      <4>1. RowFacts(b, j) /\ intent'[b, j] = intent[b, j]
        BY DEF MoneyOf, RowsOf
      <4>2. CASE j = k
        BY <2>1, <2>2, <2>3, <2>4, <4>1, <4>2
           DEF RowFacts, Pending, Charging, Closed, WasHeld
      <4>3. CASE j # k
        BY <2>1, <2>2, <2>3, <2>4, <4>1, <4>3
           DEF RowFacts, Pending, Charging, Closed, WasHeld
      <4> QED BY <4>2, <4>3
    <3>4. /\ status'[b] \in {"absent", "pending_minimum"} => mark'[b] = NoMarks
          /\ dep'.cancelled => ~Live(b)'
      BY <2>1, <2>2, <2>3, <2>4 DEF MoneyOf, RowsOf, Live, Charging
    <3> QED BY <3>1, <3>2, <3>3, <3>4 DEF RowsOf, Pending, Charging, Live
  <2>12. TrackedOf(b)'
    BY <2>1, <2>2, <2>3, <2>4
       DEF MoneyOf, RowsOf, RowFacts, TrackedOf, Pending, Charging, Closed, Spent
  <2>13. /\ RowsGrow(b) /\ dep'.cancelled = dep.cancelled
        /\ \A c \in Bookings : c # b => SameBooking(c)
    BY <2>1, <2>2, <2>3, <2>4 DEF RowsGrow, SameBooking
  <2>14. ClaimsStay(b)
    BY <2>1, <2>2, <2>3, <2>4
       DEF ClaimsStay, Pending, Charging, MoneyOf, RowsOf, RowFacts
  <2> QED BY <2>11, <2>12, <2>13, <2>14 DEF DbKeeps
<1> QED BY <1>1, <1>2

\* The rows of a cancelled booking fail or are closed, and none appears.
LEMMA RowsEnd ==
  ASSUME NEW b \in Bookings, RowsOf(b), status'[b] = "cancelled", UNCHANGED intent,
         \A j \in Ids :
             \/ row'[b, j] = row[b, j]
             \/ /\ row[b, j] \in {"pending", "failed"}
                /\ \/ row'[b, j] = "failed"
                   \/ row'[b, j] = "closed" /\ Closed(b, j)
  PROVE  RowsOf(b)'
<1>1. \A j \in Ids : Pending(b, j)' => Pending(b, j)
  BY DEF Pending
<1>2. \A i, j \in Ids : Pending(b, i) /\ Pending(b, j) => i = j
  BY DEF RowsOf
<1>3. ASSUME NEW j \in Ids PROVE RowFacts(b, j)'
  <2>1. RowFacts(b, j)
    BY DEF RowsOf
  <2>2. Closed(b, j)' <=> Closed(b, j)
    BY DEF Closed
  <2> QED BY <2>1, <2>2 DEF RowFacts, Charging, Pending
<1> QED BY <1>1, <1>2, <1>3 DEF RowsOf, Charging, Live

LEMMA CancelUnpaidKeeps ==
  ASSUME DbTypeOK, UNCHANGED intent, NEW b \in Bookings, MoneyOf(b),
         CanCancelUnpaid(b), CancelUnpaidBooking(b)
  PROVE  DbKeeps(b) /\ ClaimsStay(b) /\ OutsideOf(b)
<1>1. /\ row' = RowsWhenCancelled(b, "failed")
      /\ status' = [status EXCEPT ![b] = "cancelled"]
      /\ UNCHANGED <<mark, dep, intent>>
      /\ status[b] = "pending_minimum"
  BY DEF CancelUnpaidBooking, CanCancelUnpaid
<1>2. /\ status'[b] = "cancelled"
      /\ \A c \in Bookings : c # b => status'[c] = status[c]
  BY <1>1, StatusUpdate
<1>3. /\ \A j \in Ids : row'[b, j] = IF Pending(b, j) THEN "failed" ELSE row[b, j]
      /\ \A c \in Bookings, j \in Ids : c # b => row'[c, j] = row[c, j]
  BY <1>1, CancelledRows
<1>11. RowsOf(b)'
  BY <1>1, <1>2, <1>3, RowsEnd DEF MoneyOf, Pending
<1>12. TrackedOf(b)'
  BY <1>1, <1>2, <1>3
     DEF MoneyOf, RowsOf, RowFacts, TrackedOf, Pending, Charging, Closed, Spent
<1>13. /\ RowsGrow(b) /\ dep'.cancelled = dep.cancelled
      /\ \A c \in Bookings : c # b => SameBooking(c)
  BY <1>1, <1>2, <1>3 DEF RowsGrow, SameBooking
<1>14. ClaimsStay(b)
  BY <1>1, <1>2, <1>3 DEF ClaimsStay, Pending, Charging, MoneyOf, RowsOf, RowFacts
<1>15. OutsideOf(b)
  BY <1>1, <1>2, <1>3
     DEF OutsideOf, Pending, Charging, Closed, Spent, MoneyOf, RowsOf, RowFacts
<1> QED BY <1>11, <1>12, <1>13, <1>14, <1>15 DEF DbKeeps

LEMMA CancelInFlightKeeps ==
  ASSUME DbTypeOK, UNCHANGED intent, NEW b \in Bookings, MoneyOf(b),
         Charging(b), CancelChargeInFlight(b)
  PROVE  DbKeeps(b) /\ ClaimsStay(b) /\ OutsideOf(b)
<1>1. /\ row' = RowsWhenCancelled(b, "failed")
      /\ status' = [status EXCEPT ![b] = "cancelled"]
      /\ mark' = [mark EXCEPT ![b] = NoMarks]
      /\ UNCHANGED <<dep, intent>>
  BY DEF CancelChargeInFlight
<1>2. /\ status'[b] = "cancelled"
      /\ mark'[b] = NoMarks
      /\ \A c \in Bookings : c # b => status'[c] = status[c] /\ mark'[c] = mark[c]
  <2>1. /\ status'[b] = "cancelled"
        /\ \A c \in Bookings : c # b => status'[c] = status[c]
    BY <1>1, StatusUpdate
  <2>2. /\ mark'[b] = NoMarks
        /\ \A c \in Bookings : c # b => mark'[c] = mark[c]
    BY <1>1, MarkUpdate
  <2> QED BY <2>1, <2>2
<1>3. /\ \A j \in Ids : row'[b, j] = IF Pending(b, j) THEN "failed" ELSE row[b, j]
      /\ \A c \in Bookings, j \in Ids : c # b => row'[c, j] = row[c, j]
  BY <1>1, CancelledRows
<1>11. RowsOf(b)'
  BY <1>1, <1>2, <1>3, RowsEnd DEF MoneyOf, Pending
<1>12. TrackedOf(b)'
  BY <1>1, <1>2, <1>3
     DEF MoneyOf, RowsOf, RowFacts, TrackedOf, Pending, Charging, Closed, Spent
<1>13. /\ RowsGrow(b) /\ dep'.cancelled = dep.cancelled
      /\ \A c \in Bookings : c # b => SameBooking(c)
  BY <1>1, <1>2, <1>3 DEF RowsGrow, SameBooking
<1>14. ClaimsStay(b)
  BY <1>1, <1>2, <1>3 DEF ClaimsStay, Pending, Charging, MoneyOf, RowsOf, RowFacts
<1>15. OutsideOf(b)
  BY <1>1, <1>2, <1>3
     DEF OutsideOf, Pending, Charging, Closed, Spent, MoneyOf, RowsOf, RowFacts
<1> QED BY <1>11, <1>12, <1>13, <1>14, <1>15 DEF DbKeeps

LEMMA CancelAuthorizedKeeps ==
  ASSUME DbTypeOK, UNCHANGED intent, NEW b \in Bookings, MoneyOf(b),
         CanCancelAuthorized(b), CancelAuthorizedBooking(b),
         \A j \in Ids : Pending(b, j) => Closed(b, j)
  PROVE  DbKeeps(b) /\ ClaimsStay(b) /\ OutsideOf(b)
<1>1. /\ row' = RowsWhenCancelled(b, "closed")
      /\ status' = [status EXCEPT ![b] = "cancelled"]
      /\ mark' = [mark EXCEPT ![b] = NoMarks]
      /\ UNCHANGED <<dep, intent>>
      /\ Charging(b)
  BY DEF CancelAuthorizedBooking, CanCancelAuthorized, Charging
<1>2. /\ status'[b] = "cancelled"
      /\ mark'[b] = NoMarks
      /\ \A c \in Bookings : c # b => status'[c] = status[c] /\ mark'[c] = mark[c]
  <2>1. /\ status'[b] = "cancelled"
        /\ \A c \in Bookings : c # b => status'[c] = status[c]
    BY <1>1, StatusUpdate
  <2>2. /\ mark'[b] = NoMarks
        /\ \A c \in Bookings : c # b => mark'[c] = mark[c]
    BY <1>1, MarkUpdate
  <2> QED BY <2>1, <2>2
<1>3. /\ \A j \in Ids : row'[b, j] = IF Pending(b, j) THEN "closed" ELSE row[b, j]
      /\ \A c \in Bookings, j \in Ids : c # b => row'[c, j] = row[c, j]
  BY <1>1, CancelledRows
<1>4. \A j \in Ids : Pending(b, j) => /\ intent[b, j] \in ClosedIntents
                                      /\ intent[b, j] \notin Committed
                                      /\ intent[b, j] # "none"
  BY DEF Closed, ClosedIntents, Committed
<1>11. RowsOf(b)'
  <2>1. \A i, j \in Ids : Pending(b, i)' /\ Pending(b, j)' => i = j
    BY <1>1, <1>2, <1>3, <1>4 DEF MoneyOf, RowsOf, Pending
  <2>2. Charging(b)' => \E i \in Ids : Pending(b, i)'
    BY <1>1, <1>2, <1>3, <1>4 DEF MoneyOf, RowsOf, Pending, Charging
  <2>3. ASSUME NEW j \in Ids PROVE RowFacts(b, j)'
    <3>1. RowFacts(b, j) /\ intent'[b, j] = intent[b, j]
      BY DEF MoneyOf, RowsOf
    <3> QED BY <1>1, <1>2, <1>3, <1>4, <3>1
               DEF RowFacts, Pending, Charging, Closed, WasHeld
  <2>4. /\ status'[b] \in {"absent", "pending_minimum"} => mark'[b] = NoMarks
        /\ dep'.cancelled => ~Live(b)'
    BY <1>1, <1>2, <1>3, <1>4 DEF MoneyOf, RowsOf, Live, Charging
  <2> QED BY <2>1, <2>2, <2>3, <2>4 DEF RowsOf, Pending, Charging, Live
<1>12. TrackedOf(b)'
  BY <1>1, <1>2, <1>3, <1>4
     DEF MoneyOf, RowsOf, RowFacts, TrackedOf, Pending, Charging, Closed, Spent
<1>13. /\ RowsGrow(b) /\ dep'.cancelled = dep.cancelled
      /\ \A c \in Bookings : c # b => SameBooking(c)
  BY <1>1, <1>2, <1>3, <1>4 DEF RowsGrow, SameBooking
<1>14. ClaimsStay(b)
  BY <1>1, <1>2, <1>3, <1>4 DEF ClaimsStay, Pending, Charging, MoneyOf, RowsOf, RowFacts
<1>15. OutsideOf(b)
  BY <1>1, <1>2, <1>3, <1>4
     DEF OutsideOf, Pending, Charging, Closed, Spent, MoneyOf, RowsOf, RowFacts
<1> QED BY <1>11, <1>12, <1>13, <1>14, <1>15 DEF DbKeeps

LEMMA MarksKeep ==
  ASSUME DbTypeOK, UNCHANGED intent, NEW b \in Bookings, MoneyOf(b),
         \/ CanClaim(b) /\ ClaimAuthorizationCancel(b)
         \/ CanMarkCapture(b) /\ MarkCaptureStarted(b)
         \/ ClearStaleMarks(b) \/ Unclaim(b)
  PROVE  DbKeeps(b) /\ OutsideOf(b) /\ (ClaimAuthorizationCancel(b) \/ ClaimsStay(b))
<1>1. UNCHANGED <<intent, status, row, dep>>
  BY DEF ClaimAuthorizationCancel, MarkCaptureStarted, ClearStaleMarks, Unclaim
<1>2. CASE UNCHANGED mark
  BY <1>1, <1>2, IdleKeeps
<1>3. CASE /\ CanClaim(b) /\ ClaimAuthorizationCancel(b)
  <2>1. /\ mark'[b].auth = mark[b].auth
        /\ \A c \in Bookings : c # b => mark'[c] = mark[c]
        /\ Charging(b)
    BY <1>3, FieldUpdates DEF ClaimAuthorizationCancel, CanClaim, HasAuthorization,
       Charging
  <2>11. RowsOf(b)'
    BY <1>1, <2>1
       DEF MoneyOf, RowsOf, RowFacts, Pending, Charging, Closed, WasHeld, Live
  <2>12. TrackedOf(b)'
    BY <1>1, <2>1
       DEF MoneyOf, RowsOf, RowFacts, TrackedOf, Pending, Charging, Closed, Spent
  <2>13. /\ RowsGrow(b) /\ dep'.cancelled = dep.cancelled
        /\ \A c \in Bookings : c # b => SameBooking(c)
    BY <1>1, <2>1 DEF RowsGrow, SameBooking
  <2>15. OutsideOf(b)
    BY <1>1, <2>1
       DEF OutsideOf, Pending, Charging, Closed, Spent, MoneyOf, RowsOf, RowFacts
  <2> QED BY <1>3, <2>11, <2>12, <2>13, <2>15 DEF DbKeeps
<1>4. CASE CanMarkCapture(b) /\ MarkCaptureStarted(b)
  <2>1. /\ mark'[b].auth = mark[b].auth /\ mark'[b].claim = mark[b].claim
        /\ \A c \in Bookings : c # b => mark'[c] = mark[c]
        /\ Charging(b)
    BY <1>4, FieldUpdates DEF MarkCaptureStarted, CanMarkCapture, Charging
  <2>11. RowsOf(b)'
    BY <1>1, <2>1
       DEF MoneyOf, RowsOf, RowFacts, Pending, Charging, Closed, WasHeld, Live
  <2>12. TrackedOf(b)'
    BY <1>1, <2>1
       DEF MoneyOf, RowsOf, RowFacts, TrackedOf, Pending, Charging, Closed, Spent
  <2>13. /\ RowsGrow(b) /\ dep'.cancelled = dep.cancelled
        /\ \A c \in Bookings : c # b => SameBooking(c)
    BY <1>1, <2>1 DEF RowsGrow, SameBooking
  <2>14. ClaimsStay(b)
    BY <1>1, <2>1 DEF ClaimsStay, Pending, Charging, MoneyOf, RowsOf, RowFacts
  <2>15. OutsideOf(b)
    BY <1>1, <2>1
       DEF OutsideOf, Pending, Charging, Closed, Spent, MoneyOf, RowsOf, RowFacts
  <2> QED BY <2>11, <2>12, <2>13, <2>14, <2>15 DEF DbKeeps
<1>5. CASE ClearStaleMarks(b)
  <2>1. /\ mark'[b].auth = mark[b].auth /\ mark'[b].claim = "none"
        /\ \A c \in Bookings : c # b => mark'[c] = mark[c]
    BY <1>5, FieldUpdates DEF ClearStaleMarks
  <2>2. mark[b] = NoMarks => mark'[b] = NoMarks
    <3>1. ASSUME NEW m \in Marks, m = NoMarks
          PROVE  [m EXCEPT !.claim = "none", !.capture = "none"] = NoMarks
      <4>1. m.claim = "none" /\ m.capture = "none"
        BY <3>1 DEF NoMarks
      <4>2. [m EXCEPT !.claim = "none", !.capture = "none"] = m
        BY <4>1 DEF Marks
      <4> QED BY <3>1, <4>2
    <3>2. mark'[b] = [mark[b] EXCEPT !.claim = "none", !.capture = "none"]
      BY <1>5 DEF ClearStaleMarks, DbTypeOK
    <3>3. mark[b] \in Marks
      BY DEF DbTypeOK
    <3> QED BY <3>1, <3>2, <3>3
  <2>11. RowsOf(b)'
    BY <1>1, <2>1, <2>2
       DEF MoneyOf, RowsOf, RowFacts, Pending, Charging, Closed, WasHeld, Live
  <2>12. TrackedOf(b)'
    BY <1>1, <2>1, <2>2
       DEF MoneyOf, RowsOf, RowFacts, TrackedOf, Pending, Charging, Closed, Spent
  <2>13. /\ RowsGrow(b) /\ dep'.cancelled = dep.cancelled
        /\ \A c \in Bookings : c # b => SameBooking(c)
    BY <1>1, <2>1, <2>2 DEF RowsGrow, SameBooking
  <2>14. ClaimsStay(b)
    BY <1>1, <2>1, <2>2 DEF ClaimsStay, Pending, Charging, MoneyOf, RowsOf, RowFacts
  <2>15. OutsideOf(b)
    BY <1>1, <2>1, <2>2
       DEF OutsideOf, Pending, Charging, Closed, Spent, MoneyOf, RowsOf, RowFacts
  <2> QED BY <2>11, <2>12, <2>13, <2>14, <2>15 DEF DbKeeps
<1>6. CASE Charging(b) /\ mark' = [mark EXCEPT ![b].claim = "none"]
  <2>1. /\ mark'[b].auth = mark[b].auth /\ mark'[b].claim = "none"
        /\ \A c \in Bookings : c # b => mark'[c] = mark[c]
    BY <1>6, FieldUpdates
  <2>11. RowsOf(b)'
    BY <1>1, <1>6, <2>1
       DEF MoneyOf, RowsOf, RowFacts, Pending, Charging, Closed, WasHeld, Live
  <2>12. TrackedOf(b)'
    BY <1>1, <1>6, <2>1
       DEF MoneyOf, RowsOf, RowFacts, TrackedOf, Pending, Charging, Closed, Spent
  <2>13. /\ RowsGrow(b) /\ dep'.cancelled = dep.cancelled
        /\ \A c \in Bookings : c # b => SameBooking(c)
    BY <1>1, <1>6, <2>1 DEF RowsGrow, SameBooking
  <2>14. ClaimsStay(b)
    BY <1>1, <1>6, <2>1 DEF ClaimsStay, Pending, Charging, MoneyOf, RowsOf, RowFacts
  <2>15. OutsideOf(b)
    BY <1>1, <1>6, <2>1
       DEF OutsideOf, Pending, Charging, Closed, Spent, MoneyOf, RowsOf, RowFacts
  <2> QED BY <2>11, <2>12, <2>13, <2>14, <2>15 DEF DbKeeps
<1> QED BY <1>2, <1>3, <1>4, <1>5, <1>6 DEF Unclaim, Charging

LEMMA MarkAgesKeeps ==
  ASSUME DbTypeOK, UNCHANGED intent, NEW b \in Bookings, MoneyOf(b),
         MarkGrowsOld(b)
  PROVE  DbKeeps(b) /\ ClaimsStay(b) /\ OutsideOf(b)
<1>1. UNCHANGED <<intent, status, row, dep>>
  BY DEF MarkGrowsOld
<1>2. /\ mark'[b].auth = mark[b].auth
      /\ mark'[b].claim # "none" => mark[b].claim # "none"
      /\ \A c \in Bookings : c # b => mark'[c] = mark[c]
      /\ mark[b] # NoMarks
  <2>1. CASE /\ mark[b].claim = "fresh"
             /\ mark' = [mark EXCEPT ![b].claim = "stale"]
    BY <2>1, FieldUpdates DEF NoMarks
  <2>2. CASE /\ mark[b].capture = "fresh"
             /\ mark' = [mark EXCEPT ![b].capture = "stale"]
    BY <2>2, FieldUpdates DEF NoMarks
  <2> QED BY <2>1, <2>2 DEF MarkGrowsOld
<1>11. RowsOf(b)'
  BY <1>1, <1>2 DEF MoneyOf, RowsOf, RowFacts, Pending, Charging, Closed, WasHeld, Live
<1>12. TrackedOf(b)'
  BY <1>1, <1>2
     DEF MoneyOf, RowsOf, RowFacts, TrackedOf, Pending, Charging, Closed, Spent
<1>13. /\ RowsGrow(b) /\ dep'.cancelled = dep.cancelled
      /\ \A c \in Bookings : c # b => SameBooking(c)
  BY <1>1, <1>2 DEF RowsGrow, SameBooking
<1>14. ClaimsStay(b)
  BY <1>1, <1>2 DEF ClaimsStay, Pending, Charging, MoneyOf, RowsOf, RowFacts
<1>15. OutsideOf(b)
  BY <1>1, <1>2
     DEF OutsideOf, Pending, Charging, Closed, Spent, MoneyOf, RowsOf, RowFacts
<1> QED BY <1>11, <1>12, <1>13, <1>14, <1>15 DEF DbKeeps

LEMMA ConfirmKeeps ==
  ASSUME DbTypeOK, UNCHANGED intent, NEW b \in Bookings, MoneyOf(b),
         BooksInv, NEW k \in Ids, intent[b, k] = "succeeded", ConfirmBooking(b, k)
  PROVE  DbKeeps(b) /\ ClaimsStay(b) /\ OutsideOf(b)
<1> DEFINE out == ConfirmOutcome(b, k)
<1>1. /\ status' = [status EXCEPT ![b] =
                       CASE out = "confirmed" -> "confirmed"
                         [] Live(b) /\ dep.cancelled
                              /\ out # "already_processed" -> "cancelled"
                         [] OTHER -> @]
      /\ row' = IF out \in {"already_processed", "ignored"} THEN row
                ELSE [row EXCEPT ![<<b, k>>] = "succeeded"]
      /\ UNCHANGED <<mark, dep, intent>>
  BY DEF ConfirmBooking
<1>2. ~(Live(b) /\ dep.cancelled)
  BY DEF MoneyOf, RowsOf, RowFacts
<1>3. \/ Pending(b, k) /\ Charging(b)
      \/ row[b, k] \in {"pending", "failed"} /\ status[b] = "cancelled"
      \/ row[b, k] = "succeeded" /\ status[b] \in {"confirmed", "cancelled"}
  BY DEF MoneyOf, RowsOf, RowFacts, TrackedOf, Committed
<1>4. /\ out = "confirmed" => Pending(b, k) /\ Charging(b)
      /\ Pending(b, k) /\ Charging(b) => out \in {"confirmed", "already_processed"}
      /\ row[b, k] = "succeeded" => out \in {"already_processed", "ignored"}
  BY <1>2, <1>3 DEF ConfirmOutcome, Unsettled, Live, Charging, Pending
<1> HIDE DEF out
<1>5. /\ status'[b] = IF out = "confirmed" THEN "confirmed" ELSE status[b]
      /\ \A c \in Bookings : c # b => status'[c] = status[c]
  BY <1>1, <1>2 DEF DbTypeOK
<1>6. /\ out \in {"already_processed", "ignored"} => row'[b, k] = row[b, k]
      /\ out \notin {"already_processed", "ignored"} => row'[b, k] = "succeeded"
      /\ \A c \in Bookings, j \in Ids : c # b \/ j # k => row'[c, j] = row[c, j]
  <2>1. CASE out \in {"already_processed", "ignored"}
    BY <1>1, <2>1
  <2>2. CASE out \notin {"already_processed", "ignored"}
    <3>1. row' = [row EXCEPT ![<<b, k>>] = "succeeded"]
      BY <1>1, <2>2
    <3>2. row'[b, k] = "succeeded"
      BY <3>1, RowSet
    <3>3. \A c \in Bookings, j \in Ids : c # b \/ j # k => row'[c, j] = row[c, j]
      BY <3>1, RowUpdate
    <3> QED BY <2>2, <3>2, <3>3
  <2> QED BY <2>1, <2>2
<1>7. intent[b, k] \in Committed /\ intent[b, k] # "none"
  BY DEF Committed
<1>8. \A j \in Ids : j # k => intent[b, j] \notin Committed
  BY <1>7 DEF MoneyOf, OnceOf, Spent
<1>9. CASE out \in {"already_processed", "ignored"}
  <2>1. SameBooking(b)
    <3>1. status'[b] = status[b] /\ mark'[b] = mark[b]
      BY <1>1, <1>5, <1>9
    <3>2. \A j \in Ids : row'[b, j] = row[b, j]
      BY <1>6, <1>9
    <3> QED BY <3>1, <3>2 DEF SameBooking
  <2>2. \A c \in Bookings : c # b => SameBooking(c)
    BY <1>1, <1>5, <1>6 DEF SameBooking
  <2> QED BY <1>1, <2>1, <2>2, SameKeeps DEF DbKeeps, MoneyOf
<1>10. CASE out \notin {"already_processed", "ignored"}
  <2>1. /\ row'[b, k] = "succeeded"
        /\ \/ Charging(b) /\ Pending(b, k) /\ status'[b] = "confirmed"
           \/ /\ status[b] = "cancelled" /\ status'[b] = "cancelled"
              /\ row[b, k] \in {"pending", "failed"}
    BY <1>3, <1>4, <1>5, <1>6, <1>10 DEF Charging
  <2>11. RowsOf(b)'
    <3>1. \A i, j \in Ids : Pending(b, i)' /\ Pending(b, j)' => i = j
      <4>1. \A i \in Ids : Pending(b, i)' => Pending(b, i)
        BY <1>6, <2>1 DEF Pending
      <4> QED BY <4>1 DEF MoneyOf, RowsOf
    <3>2. Charging(b)' => \E i \in Ids : Pending(b, i)'
      BY <1>1, <1>5, <1>6, <1>7, <1>8, <2>1 DEF MoneyOf, RowsOf, Pending, Charging
    <3>3. ASSUME NEW j \in Ids PROVE RowFacts(b, j)'
      <4>1. RowFacts(b, j) /\ intent'[b, j] = intent[b, j]
        BY DEF MoneyOf, RowsOf
      <4>2. CASE j = k
        BY <1>1, <1>5, <1>6, <1>7, <1>8, <2>1, <4>1, <4>2
           DEF RowFacts, Pending, Charging, Closed, WasHeld
      <4>3. CASE j # k
        BY <1>1, <1>5, <1>6, <1>7, <1>8, <2>1, <4>1, <4>3
           DEF RowFacts, Pending, Charging, Closed, WasHeld
      <4> QED BY <4>2, <4>3
    <3>4. /\ status'[b] \in {"absent", "pending_minimum"} => mark'[b] = NoMarks
          /\ dep'.cancelled => ~Live(b)'
      BY <1>1, <1>5, <1>6, <1>7, <1>8, <2>1 DEF MoneyOf, RowsOf, Live, Charging
    <3> QED BY <3>1, <3>2, <3>3, <3>4 DEF RowsOf, Pending, Charging, Live
  <2>12. TrackedOf(b)'
    BY <1>1, <1>5, <1>6, <1>7, <1>8, <2>1
       DEF MoneyOf, RowsOf, RowFacts, TrackedOf, Pending, Charging, Closed, Spent
  <2>13. /\ RowsGrow(b) /\ dep'.cancelled = dep.cancelled
        /\ \A c \in Bookings : c # b => SameBooking(c)
    BY <1>1, <1>5, <1>6, <1>7, <1>8, <2>1 DEF RowsGrow, SameBooking
  <2>14. ClaimsStay(b)
    BY <1>1, <1>5, <1>6, <1>7, <1>8, <2>1
       DEF ClaimsStay, Pending, Charging, MoneyOf, RowsOf, RowFacts
  <2>15. OutsideOf(b)
    BY <1>1, <1>5, <1>6, <1>7, <1>8, <2>1
       DEF OutsideOf, Pending, Charging, Closed, Spent, MoneyOf, RowsOf, RowFacts
  <2> QED BY <2>11, <2>12, <2>13, <2>14, <2>15 DEF DbKeeps
<1> QED BY <1>9, <1>10

LEMMA CancelPaidKeeps ==
  ASSUME DbTypeOK, UNCHANGED intent, NEW b \in Bookings, MoneyOf(b),
         CancelBooking(b)
  PROVE  DbKeeps(b) /\ ClaimsStay(b) /\ OutsideOf(b)
<1>1. /\ status[b] = "confirmed"
      /\ status' = [status EXCEPT ![b] = "cancelled"]
      /\ UNCHANGED <<mark, row, dep, intent>>
  BY DEF CancelBooking
<1>2. /\ status'[b] = "cancelled"
      /\ \A c \in Bookings : c # b => status'[c] = status[c]
  BY <1>1, StatusUpdate
<1>11. RowsOf(b)'
  BY <1>1, <1>2 DEF MoneyOf, RowsOf, RowFacts, Pending, Charging, Closed, WasHeld, Live
<1>12. TrackedOf(b)'
  BY <1>1, <1>2
     DEF MoneyOf, RowsOf, RowFacts, TrackedOf, Pending, Charging, Closed, Spent
<1>13. /\ RowsGrow(b) /\ dep'.cancelled = dep.cancelled
      /\ \A c \in Bookings : c # b => SameBooking(c)
  BY <1>1, <1>2 DEF RowsGrow, SameBooking
<1>14. ClaimsStay(b)
  BY <1>1, <1>2 DEF ClaimsStay, Pending, Charging, MoneyOf, RowsOf, RowFacts
<1>15. OutsideOf(b)
  BY <1>1, <1>2
     DEF OutsideOf, Pending, Charging, Closed, Spent, MoneyOf, RowsOf, RowFacts
<1> QED BY <1>11, <1>12, <1>13, <1>14, <1>15 DEF DbKeeps

LEMMA IntentClosedKeeps ==
  ASSUME DbTypeOK, UNCHANGED intent, NEW b \in Bookings, MoneyOf(b),
         NEW k \in Ids, Closed(b, k), RecordIntentClosed(b, k)
  PROVE  DbKeeps(b) /\ ClaimsStay(b) /\ OutsideOf(b)
<1>1. UNCHANGED <<intent, status, mark, dep>>
  BY DEF RecordIntentClosed
<1>2. CASE ~(status[b] = "cancelled" /\ row[b, k] \in {"pending", "failed"})
  BY <1>1, <1>2, IdleKeeps DEF RecordIntentClosed
<1>3. CASE status[b] = "cancelled" /\ row[b, k] \in {"pending", "failed"}
  <2>1. /\ row'[b, k] = "closed"
        /\ \A c \in Bookings, j \in Ids : c # b \/ j # k => row'[c, j] = row[c, j]
    BY <1>3, RowUpdate, StatusUpdate, MarkUpdate DEF RecordIntentClosed
  <2>2. /\ intent[b, k] \in ClosedIntents /\ intent[b, k] # "none"
        /\ intent[b, k] \notin Committed
    BY DEF Closed, ClosedIntents, Committed
  <2>11. RowsOf(b)'
    <3>1. \A j \in Ids : \/ row'[b, j] = row[b, j]
                         \/ row[b, j] \in {"pending", "failed"} /\ row'[b, j] = "closed"
                              /\ Closed(b, j)
      BY <1>3, <2>1
    <3> QED BY <1>1, <1>3, <3>1, RowsEnd DEF MoneyOf
  <2>12. TrackedOf(b)'
    BY <1>1, <1>3, <2>1, <2>2
       DEF MoneyOf, RowsOf, RowFacts, TrackedOf, Pending, Charging, Closed, Spent
  <2>13. /\ RowsGrow(b) /\ dep'.cancelled = dep.cancelled
        /\ \A c \in Bookings : c # b => SameBooking(c)
    BY <1>1, <1>3, <2>1, <2>2 DEF RowsGrow, SameBooking
  <2>14. ClaimsStay(b)
    BY <1>1, <1>3, <2>1, <2>2
       DEF ClaimsStay, Pending, Charging, MoneyOf, RowsOf, RowFacts
  <2>15. OutsideOf(b)
    BY <1>1, <1>3, <2>1, <2>2
       DEF OutsideOf, Pending, Charging, Closed, Spent, MoneyOf, RowsOf, RowFacts
  <2> QED BY <2>11, <2>12, <2>13, <2>14, <2>15 DEF DbKeeps
<1> QED BY <1>2, <1>3

\* The function that ends the cycle of the departure, for every booking.
LEMMA ResolveKeeps ==
  ASSUME DbTypeOK, UNCHANGED intent, \A c \in Bookings : MoneyOf(c),
         NEW r, ResolveDepartureMinimum(r)
  PROVE  MoneyFine /\ Claims /\ Outside
<1>1. CASE ~Cancelling(r)
  <2>1. UNCHANGED <<status, mark, row>>
    BY <1>1 DEF ResolveDepartureMinimum
  <2>2. dep'.cancelled = dep.cancelled
    BY <1>1 DEF ResolveDepartureMinimum, DbTypeOK, Departure
  <2> QED BY <2>1, <2>2, NothingMoves
<1>2. CASE Cancelling(r)
  <2>1. /\ status' = [b \in Bookings |->
               IF status[b] = "absent" THEN "absent" ELSE "cancelled"]
        /\ row' = [p \in Bookings \X Ids |->
               IF Live(p[1]) /\ row[p] = "pending" THEN "failed" ELSE row[p]]
        /\ mark' = [b \in Bookings |-> IF Live(b) THEN NoMarks ELSE mark[b]]
    BY <1>2 DEF ResolveDepartureMinimum
  <2>2. ASSUME NEW b \in Bookings
        PROVE  MoneyOf(b)' /\ RowsGrow(b) /\ ClaimsStay(b) /\ OutsideOf(b)
    <3>1. /\ status[b] = "absent" => status'[b] = "absent"
          /\ status[b] # "absent" => status'[b] = "cancelled"
          /\ Live(b) => mark'[b] = NoMarks
          /\ ~Live(b) => mark'[b] = mark[b]
      BY <2>1
    <3>2. /\ \A j \in Ids : Live(b) /\ Pending(b, j) => row'[b, j] = "failed"
          /\ \A j \in Ids : ~(Live(b) /\ Pending(b, j)) => row'[b, j] = row[b, j]
      BY <2>1 DEF Pending
    <3>3. CASE status[b] = "absent"
      <4>1. ~Live(b) /\ ~Charging(b)
        BY <3>3 DEF Live, Charging
      <4>2. SameBooking(b)
        BY <3>1, <3>2, <3>3, <4>1 DEF SameBooking
      <4>3. RowsOf(b)'
        <5>1. \A i, j \in Ids : Pending(b, i)' /\ Pending(b, j)' => i = j
          <6>1. \A i, j \in Ids : Pending(b, i) /\ Pending(b, j) => i = j
            BY DEF MoneyOf, RowsOf
          <6> QED BY <4>2, <6>1 DEF Pending, SameBooking
        <5>2. ASSUME NEW j \in Ids PROVE RowFacts(b, j)'
          <6>1. RowFacts(b, j) /\ intent'[b, j] = intent[b, j]
            BY DEF MoneyOf, RowsOf
          <6> QED BY <3>1, <3>3, <4>1, <4>2, <6>1
                 DEF RowFacts, Charging, Closed, SameBooking
        <5>3. mark'[b] = NoMarks
          BY <3>3, <4>2 DEF MoneyOf, RowsOf, SameBooking
        <5> QED BY <3>1, <3>3, <5>1, <5>2, <5>3 DEF RowsOf, Pending, Charging, Live
      <4>4. TrackedOf(b)' /\ OnceOf(b)'
        BY <4>2 DEF MoneyOf, TrackedOf, OnceOf, SameBooking, Pending, Charging, Spent
      <4>5. RowsGrow(b) /\ ClaimsStay(b) /\ OutsideOf(b)
        BY <4>2 DEF SameBooking, RowsGrow, ClaimsStay, OutsideOf, Pending, Charging
      <4> QED BY <4>3, <4>4, <4>5 DEF MoneyOf
    <3>4. CASE status[b] # "absent"
      <4>1. status'[b] = "cancelled"
        BY <3>1, <3>4
      <4>2. ASSUME NEW j \in Ids
            PROVE  \/ Live(b) /\ Pending(b, j) /\ row'[b, j] = "failed"
                   \/ row'[b, j] = row[b, j]
        BY <3>2
      <4>3. RowsOf(b)'
        <5>1. \A i, j \in Ids : Pending(b, i)' /\ Pending(b, j)' => i = j
          BY <3>2, <4>2 DEF MoneyOf, RowsOf, Pending
        <5>2. ASSUME NEW j \in Ids PROVE RowFacts(b, j)'
          <6>1. RowFacts(b, j) /\ intent'[b, j] = intent[b, j]
            BY DEF MoneyOf, RowsOf
          <6>2. CASE Pending(b, j) /\ row'[b, j] = "failed"
            <7>1. intent'[b, j] # "none"
              BY <6>1, <6>2 DEF RowFacts, Pending
            <7> QED BY <4>1, <6>2, <7>1 DEF RowFacts, Charging, Pending
          <6>3. CASE row'[b, j] = row[b, j]
            BY <4>1, <6>1, <6>3 DEF RowFacts, Charging, Closed
          <6> QED BY <4>2, <6>2, <6>3
        <5> QED BY <4>1, <5>1, <5>2 DEF RowsOf, Pending, Charging, Live
      <4>4. TrackedOf(b)' /\ OnceOf(b)'
        <5>1. ASSUME NEW j \in Ids, intent'[b, j] \in Committed
              PROVE  \/ row'[b, j] \in {"pending", "failed"}
                     \/ row'[b, j] = "succeeded" /\ intent'[b, j] = "succeeded"
          <6>1. \/ Pending(b, j)
                \/ row[b, j] \in {"pending", "failed"}
                \/ row[b, j] = "succeeded" /\ intent[b, j] = "succeeded"
            BY <5>1 DEF MoneyOf, TrackedOf
          <6> QED BY <4>2, <6>1 DEF Pending
        <5>2. OnceOf(b)'
          BY DEF MoneyOf, OnceOf, Spent
        <5> QED BY <4>1, <5>1, <5>2 DEF TrackedOf
      <4>5. RowsGrow(b) /\ ClaimsStay(b)
        BY <4>1, <4>2 DEF RowsGrow, ClaimsStay, Pending
      <4>6. OutsideOf(b)
        <5>1. \A j \in Ids : row'[b, j] = "none" <=> row[b, j] = "none"
          BY <4>2 DEF Pending
        <5>2. \A j \in Ids : row[b, j] \in {"pending", "failed"} =>
                  row'[b, j] \in {"pending", "failed"}
          BY <4>2
        <5> QED BY <4>1, <5>1, <5>2 DEF OutsideOf, Pending
      <4> QED BY <4>3, <4>4, <4>5, <4>6 DEF MoneyOf
    <3> QED BY <3>3, <3>4
  <2> QED BY <2>2 DEF MoneyFine, Claims, Outside
<1> QED BY <1>1, <1>2

-----------------------------------------------------------------------------
(* The gateway. *)

\* What is known of an intent for good stays known.
Calm == \A c \in Bookings, j \in Ids :
            /\ Closed(c, j) => Closed(c, j)'
            /\ WasHeld(c, j) => WasHeld(c, j)'
            /\ Spent(c, j) => Spent(c, j)'

\* A move of an intent that anybody may see happen.
Settles(i, j) ==
    \/ j = i
    \/ i = "none" /\ j = "requires_payment_method"
    \/ i \in {"requires_action", "processing"}
          /\ j \in {"requires_payment_method", "requires_capture", "succeeded", "failed"}
    \/ i = "capturing" /\ j \in {"requires_capture", "succeeded"}
    \/ i = "requires_capture" /\ j \in {"capturing", "succeeded"}
    \/ i \in Confirmable /\ j = "canceled"

IntentsSettle == \A c \in Bookings, j \in Ids : Settles(intent[c, j], intent'[c, j])

LEMMA SettlesLemma ==
  ASSUME NEW i, NEW j, Settles(i, j)
  PROVE  /\ i \in ClosedIntents => j \in ClosedIntents
         /\ i = "succeeded" => j = "succeeded"
         /\ i \notin Committed => j \notin Committed
         /\ j = "none" => i = "none"
         /\ i \in {"none", "requires_payment_method", "canceled"} =>
               j \in {"none", "requires_payment_method", "canceled"}
         /\ i \in {"requires_capture", "capturing", "succeeded", "canceled"} =>
               j \in {"requires_capture", "capturing", "succeeded", "canceled"}
  BY DEF Settles, ClosedIntents, Committed, Confirmable

LEMMA GatewayKeeps ==
  ASSUME \A c \in Bookings : MoneyOf(c), IntentsSettle,
         UNCHANGED <<status, mark, row, dep>>
  PROVE  MoneyFine /\ Claims /\ Outside /\ Calm
<1>1. ASSUME NEW c \in Bookings, NEW j \in Ids
      PROVE  /\ Closed(c, j) => Closed(c, j)'
             /\ WasHeld(c, j) => WasHeld(c, j)'
             /\ Spent(c, j) => Spent(c, j)'
             /\ intent[c, j] = "succeeded" => intent'[c, j] = "succeeded"
             /\ intent'[c, j] = "none" => intent[c, j] = "none"
             /\ intent[c, j] \in {"none", "requires_payment_method", "canceled"} =>
                   intent'[c, j] \in {"none", "requires_payment_method", "canceled"}
  <2>1. Settles(intent[c, j], intent'[c, j])
    BY DEF IntentsSettle
  <2> QED BY <2>1, SettlesLemma DEF Closed, WasHeld, Spent
<1>2. ASSUME NEW c \in Bookings
      PROVE  MoneyOf(c)' /\ RowsGrow(c) /\ ClaimsStay(c) /\ OutsideOf(c)
  <2>1. RowsOf(c)'
    <3>1. ASSUME NEW j \in Ids PROVE RowFacts(c, j)'
      <4>1. RowFacts(c, j)
        BY DEF MoneyOf, RowsOf
      <4> QED BY <1>1, <4>1 DEF RowFacts, Charging, Pending
    <3> QED BY <3>1 DEF MoneyOf, RowsOf, Pending, Charging, Live
  <2>2. TrackedOf(c)'
    <3>1. ASSUME NEW j \in Ids, intent'[c, j] \in Committed
          PROVE  \/ Pending(c, j) /\ Charging(c)
                 \/ row[c, j] \in {"pending", "failed"} /\ status[c] = "cancelled"
                 \/ row[c, j] = "succeeded" /\ intent[c, j] = "succeeded"
      <4>1. intent[c, j] \in Committed
        BY <1>1, <3>1 DEF Spent
      <4> QED BY <4>1 DEF MoneyOf, TrackedOf
    <3> QED BY <1>1, <3>1 DEF TrackedOf, Pending, Charging
  <2>3. OnceOf(c)'
    <3>1. \A j \in Ids : ~Spent(c, j)' => ~Spent(c, j)
      BY <1>1
    <3> QED BY <3>1 DEF MoneyOf, OnceOf
  <2>4. SameBooking(c)
    BY DEF SameBooking
  <2>5. RowsGrow(c) /\ ClaimsStay(c) /\ OutsideOf(c)
    BY <2>4 DEF SameBooking, RowsGrow, ClaimsStay, OutsideOf, Pending, Charging
  <2> QED BY <2>1, <2>2, <2>3, <2>5 DEF MoneyOf
<1> QED BY <1>1, <1>2 DEF MoneyFine, Claims, Outside, Calm

LEMMA QuietGateway == ASSUME UNCHANGED intent PROVE Calm
  BY DEF Calm, Closed, WasHeld, Spent

\* One intent moves.
LEMMA OneSettles ==
  ASSUME GatewayTypeOK, NEW b \in Bookings, NEW k \in Ids, NEW x,
         SetIntent(b, k, x), Settles(intent[b, k], x)
  PROVE  IntentsSettle /\ intent'[b, k] = x
<1>1. intent'[b, k] = x
  BY DEF SetIntent, GatewayTypeOK
<1>2. \A c \in Bookings, j \in Ids : c # b \/ j # k => intent'[c, j] = intent[c, j]
  BY DEF SetIntent, GatewayTypeOK
<1>3. ASSUME NEW c \in Bookings, NEW j \in Ids
      PROVE  Settles(intent[c, j], intent'[c, j])
  <2>1. CASE c = b /\ j = k
    BY <1>1, <2>1
  <2>2. CASE c # b \/ j # k
    <3>1. intent'[c, j] = intent[c, j]
      BY <1>2, <2>2
    <3> QED BY <3>1 DEF Settles
  <2> QED BY <2>1, <2>2
<1> QED BY <1>1, <1>3 DEF IntentsSettle

LEMMA CancelSettles ==
  ASSUME GatewayTypeOK, NEW b \in Bookings, NEW k \in Ids, NEW ok \in BOOLEAN,
         CancelIntent(b, k, ok)
  PROVE  IntentsSettle /\ (ok => Closed(b, k)')
<1>1. CASE intent' = intent /\ ~ok
  BY <1>1 DEF IntentsSettle, Settles
<1>2. CASE intent[b, k] \in Confirmable /\ SetIntent(b, k, "canceled")
  <2>1. Settles(intent[b, k], "canceled")
    BY <1>2 DEF Settles
  <2>2. IntentsSettle /\ intent'[b, k] = "canceled"
    BY <1>2, <2>1, OneSettles
  <2> QED BY <2>2 DEF Closed, ClosedIntents
<1> QED BY <1>1, <1>2 DEF CancelIntent, SetIntent, gateway

LEMMA MovesSettle ==
  ASSUME GatewayTypeOK, NEW b \in Bookings, NEW k \in Ids, GatewayMoves(b, k)
  PROVE  IntentsSettle
<1>1. PICK x \in Later(intent[b, k]) : SetIntent(b, k, x)
  BY DEF GatewayMoves
<1>2. Settles(intent[b, k], x)
  BY <1>1 DEF Later, Settles, Confirmable
<1> QED BY <1>1, <1>2, OneSettles

-----------------------------------------------------------------------------
(* What a process knows outlives the steps of the others.                  *)

Sighted == {"start", "confirm", "register", "confirmed", "closePay", "discarded",
            "relDb", "capMark", "relGet", "relCancel", "capture", "reget",
            "captured"}

LEMMA EngineKeeps ==
  ASSUME IInv, MoneyInv, UNCHANGED eng, MoneyFine, Outside, Calm,
         eng.pc = "confirm" /\ wd'.pc # "idle" /\ wd'.b = eng.b => wd'.k # eng.k
  PROVE  EngineSees'
<1>1. CASE eng.pc \notin Sighted
  BY <1>1 DEF EngineSees, Sighted
<1>2. CASE eng.pc \in Sighted
  <2>1. /\ eng.b \in Bookings /\ eng.k \in Ids
        /\ EngineSees /\ MoneyOf(eng.b) /\ OutsideOf(eng.b)
        /\ eng'.b = eng.b /\ eng'.k = eng.k /\ eng'.pc = eng.pc
        /\ eng'.reply = eng.reply
    BY <1>2, BusyLemma DEF Sighted, HasBooking, EnginePcs, MoneyInv, Outside
  <2>2. PICK b \in Bookings : b = eng.b
    BY <2>1
  <2>3. PICK k \in Ids : k = eng.k
    BY <2>1
  <2>4. /\ Closed(b, k) => Closed(b, k)'
        /\ WasHeld(b, k) => WasHeld(b, k)'
        /\ \A j \in Ids : Spent(b, j) => Spent(b, j)'
    BY DEF Calm
  <2>5. MoneyOf(b) /\ OutsideOf(b)
    BY <2>1, <2>2
  <2>6. row[b, k] = "none" => row'[b, k] = "none"
    BY <2>5 DEF OutsideOf
  <2>7. ASSUME ConfirmReady(b, k), wd.pc # "idle" /\ wd.b = b => wd.k # k
        PROVE  ConfirmReady(b, k)'
    <3>1. \A j \in Ids : Spent(b, j) /\ Spent(b, j)'
      BY <2>4, <2>7 DEF ConfirmReady
    <3>2. \A j \in Ids : intent[b, j] # "succeeded"
      BY <3>1 DEF Spent, Committed
    <3>3. CASE Pending(b, k) /\ Charging(b) /\ ~mark[b].auth
      <4>1. CASE status'[b] = "pending_payment"
        <5>1. row'[b, k] = "pending" /\ ~mark'[b].auth
          BY <2>5, <3>3, <4>1 DEF OutsideOf, Pending
        <5> QED BY <3>1, <4>1, <5>1 DEF ConfirmReady, Pending, Charging
      <4>2. CASE status'[b] # "pending_payment"
        <5>1. \A j \in Ids : Pending(b, j) => j = k
          BY <2>5, <3>3 DEF MoneyOf, RowsOf
        <5>2. /\ status'[b] = "cancelled"
              /\ row'[b, k] \in {"pending", "failed"} \/ Closed(b, k)
          BY <2>5, <2>7, <3>2, <3>3, <4>2, <5>1 DEF OutsideOf
        <5> QED BY <2>4, <3>1, <5>2 DEF ConfirmReady
      <4> QED BY <4>1, <4>2
    <3>4. CASE /\ status[b] = "cancelled"
               /\ row[b, k] \in {"pending", "failed"} \/ Closed(b, k)
      <4>1. /\ status'[b] = "cancelled"
            /\ row'[b, k] \in {"pending", "failed"} \/ Closed(b, k)
        BY <2>5, <3>2, <3>4 DEF OutsideOf
      <4> QED BY <2>4, <3>1, <4>1 DEF ConfirmReady
    <3> QED BY <2>7, <3>3, <3>4 DEF ConfirmReady
  <2>8. \A s : Answered(b, k, s) => Answered(b, k, s)'
    BY <2>4 DEF Answered
  <2>9. \A s : CaptureAnswered(b, k, s) => CaptureAnswered(b, k, s)'
    BY <2>4 DEF CaptureAnswered
  <2>10. (Charging(b) => Pending(b, k)) => (Charging(b)' => Pending(b, k)')
    BY <2>5 DEF OutsideOf, Charging, Pending
  <2>11. /\ eng.pc = "start" => row[b, k] = "none"
         /\ eng.pc = "confirm" =>
               /\ ConfirmReady(b, k)
               /\ wd.pc # "idle" /\ wd.b = b => wd.k # k
         /\ eng.pc \in {"register", "confirmed"} => Answered(b, k, eng.reply)
         /\ eng.pc \in {"closePay", "discarded", "relDb"} => Closed(b, k)
         /\ eng.pc \in {"capMark", "relGet", "relCancel", "relDb"} /\ Charging(b) =>
               Pending(b, k)
         /\ eng.pc \in {"capture", "reget", "captured"} => WasHeld(b, k)
         /\ eng.pc = "captured" => CaptureAnswered(b, k, eng.reply)
    BY <2>1, <2>2, <2>3 DEF EngineSees
  <2>12. /\ eng.pc = "start" => row'[b, k] = "none"
         /\ eng.pc = "confirm" => ConfirmReady(b, k)'
         /\ eng.pc \in {"register", "confirmed"} => Answered(b, k, eng.reply)'
         /\ eng.pc \in {"closePay", "discarded", "relDb"} => Closed(b, k)'
         /\ eng.pc \in {"capMark", "relGet", "relCancel", "relDb"} /\ Charging(b)' =>
               Pending(b, k)'
         /\ eng.pc \in {"capture", "reget", "captured"} => WasHeld(b, k)'
         /\ eng.pc = "captured" => CaptureAnswered(b, k, eng.reply)'
    BY <2>4, <2>6, <2>7, <2>8, <2>9, <2>10, <2>11
  <2> QED BY <2>1, <2>2, <2>3, <2>12 DEF EngineSees
<1> QED BY <1>1, <1>2

LEMMA WatchKeeps ==
  ASSUME IInv, MoneyInv, UNCHANGED wd, MoneyFine, Calm
  PROVE  WatchSees'
<1>1. CASE wd.pc = "idle"
  BY <1>1 DEF WatchSees
<1>2. CASE wd.pc # "idle"
  <2>1. /\ wd.b \in Bookings /\ wd.k \in Ids \cup {NoId}
        /\ wd.pc = "do" /\ wd.act \in {"record_retryable", "record_terminal"} =>
              wd.k \in Ids
        /\ WatchSees
    BY <1>2 DEF IInv, TypeOK, WatchTypeOK, MoneyInv
  <2>2. PICK b \in Bookings : b = wd.b
    BY <2>1
  <2>3. RowsGrow(b)
    BY DEF MoneyFine
  <2>4. wd.k \in Ids /\ row[b, wd.k] # "none" => row'[b, wd.k] # "none"
    BY <2>3 DEF RowsGrow
  <2>5. wd.k \in Ids =>
           /\ Closed(b, wd.k) => intent'[b, wd.k] \in ClosedIntents
           /\ Spent(b, wd.k) => intent'[b, wd.k] \notin Committed
    BY DEF Calm, Closed, Spent
  <2> QED BY <2>1, <2>2, <2>4, <2>5 DEF WatchSees, Closed, Spent
<1> QED BY <1>1, <1>2

LEMMA SweepKeeps ==
  ASSUME IInv, MoneyInv, UNCHANGED sw, Calm
  PROVE  SweepSees'
<1>1. CASE sw.pc = "idle"
  BY <1>1 DEF SweepSees
<1>2. CASE sw.pc # "idle"
  <2>1. sw.b \in Bookings /\ sw.k \in Ids /\ SweepSees
    BY <1>2 DEF IInv, TypeOK, SweepTypeOK, MoneyInv
  <2>2. Closed(sw.b, sw.k) => intent'[sw.b, sw.k] \in ClosedIntents
    BY <2>1 DEF Calm, Closed
  <2> QED BY <2>1, <2>2 DEF SweepSees, Closed
<1> QED BY <1>1, <1>2

\* What one request knows.
CallerSees(c) ==
    LET b == web[c].b IN
    /\ web[c].pc \in {"release", "check", "close"}
    /\ Charging(b) /\ mark[b].claim # "none"
    => \A k \in Ids : Pending(b, k) =>
          IF web[c].pc = "close" THEN Closed(b, k) ELSE k = web[c].k

LEMMA CallerKeeps ==
  ASSUME IInv, MoneyInv, NEW c \in Callers, web'[c] = web[c], Claims, Calm
  PROVE  CallerSees(c)'
<1>1. CASE web[c].pc \notin {"release", "check", "close"}
  BY <1>1 DEF CallerSees
<1>2. CASE web[c].pc \in {"release", "check", "close"}
  <2>1. web[c].b \in Bookings /\ CallerSees(c)
    BY <1>2 DEF IInv, TypeOK, WebTypeOK, MoneyInv, WebSees, CallerSees
  <2>2. PICK b \in Bookings : b = web[c].b
    BY <2>1
  <2>3. ClaimsStay(b)
    BY DEF Claims
  <2>4. SUFFICES ASSUME status'[b] = "pending_payment", mark'[b].claim # "none",
                        NEW k \in Ids, row'[b, k] = "pending"
                 PROVE  /\ web[c].pc = "close" => intent'[b, k] \in ClosedIntents
                        /\ web[c].pc # "close" => k = web[c].k
    BY <2>2 DEF CallerSees, Charging, Pending, Closed
  <2>5. Charging(b) /\ mark[b].claim # "none" /\ Pending(b, k)
    BY <2>3, <2>4 DEF ClaimsStay
  <2>6. /\ web[c].pc = "close" => Closed(b, k)
        /\ web[c].pc # "close" => k = web[c].k
    BY <1>2, <2>1, <2>2, <2>5 DEF CallerSees
  <2>7. Closed(b, k) => intent'[b, k] \in ClosedIntents
    BY DEF Calm, Closed
  <2> QED BY <2>6, <2>7
<1> QED BY <1>1, <1>2

LEMMA WebKeeps ==
  ASSUME IInv, MoneyInv, UNCHANGED web, Claims, Calm
  PROVE  WebSees'
<1>1. \A c \in Callers : CallerSees(c)'
  BY CallerKeeps
<1> QED BY <1>1 DEF WebSees, CallerSees

\* A step of the engine, and of anybody else.
LEMMA EngineTurn ==
  ASSUME IInv, MoneyInv, MoneyFine, Claims, Calm, EngineSees', UNCHANGED <<wd, sw, web>>
  PROVE  MoneyInv'
BY WatchKeeps, SweepKeeps, WebKeeps DEF MoneyInv, MoneyFine

-----------------------------------------------------------------------------
(* What the engine knows at each of its steps.                             *)

LEMMA QuietEngine == ASSUME eng'.pc \notin Sighted PROVE EngineSees'
  BY DEF EngineSees, Sighted

LEMMA StopSees == ASSUME Stop PROVE EngineSees'
<1>1. eng'.pc = "idle"
  BY DEF Stop, EngineIdle
<1> QED BY <1>1, QuietEngine DEF Sighted

LEMMA GotoFields ==
  ASSUME EngineTypeOK, NEW pc, Goto(pc)
  PROVE  /\ eng'.pc = pc /\ eng'.b = eng.b /\ eng'.k = eng.k
         /\ eng'.reply = eng.reply
  BY DEF Goto, EngineTypeOK, EngineType

LEMMA QuietGoto ==
  ASSUME EngineTypeOK, NEW pc, Goto(pc), pc \notin Sighted PROVE EngineSees'
  BY GotoFields, QuietEngine

LEMMA ResumeSees ==
  ASSUME EngineTypeOK, NEW pc \in {"auth", "cap", "rel"}, NEW ok, Resume(pc, ok)
  PROVE  EngineSees'
<1>1. eng'.pc = pc
  BY DEF Resume, EngineTypeOK, EngineType
<1> QED BY <1>1, QuietEngine DEF Sighted

LEMMA AnswerFields ==
  ASSUME EngineTypeOK, NEW pc, NEW s, eng' = [eng EXCEPT !.pc = pc, !.reply = s]
  PROVE  /\ eng'.pc = pc /\ eng'.b = eng.b /\ eng'.k = eng.k /\ eng'.reply = s
  BY DEF EngineTypeOK, EngineType

LEMMA AnswerSees ==
  ASSUME NEW pc \in {"register", "confirmed"}, NEW s, NEW b, NEW k,
         eng'.pc = pc, eng'.reply = s, eng'.b = b, eng'.k = k, Answered(b, k, s)'
  PROVE  EngineSees'
  BY DEF EngineSees, Answered, Closed, WasHeld, Spent

LEMMA CapturedSees ==
  ASSUME NEW s, NEW b, NEW k, eng'.pc = "captured", eng'.reply = s, eng'.b = b,
         eng'.k = k, WasHeld(b, k)', CaptureAnswered(b, k, s)'
  PROVE  EngineSees'
  BY DEF EngineSees, CaptureAnswered, Closed, WasHeld

LEMMA HeldSees ==
  ASSUME NEW b, NEW k, eng'.pc \in {"capture", "reget"}, eng'.b = b, eng'.k = k,
         WasHeld(b, k)'
  PROVE  EngineSees'
  BY DEF EngineSees, WasHeld

LEMMA PendingSees ==
  ASSUME NEW b, NEW k, eng'.pc \in {"capMark", "relGet", "relCancel"},
         eng'.b = b, eng'.k = k, Charging(b)' => Pending(b, k)'
  PROVE  EngineSees'
  BY DEF EngineSees, Charging, Pending

LEMMA ClosedSees ==
  ASSUME NEW b, NEW k, eng'.pc \in {"closePay", "discarded", "relDb"},
         eng'.b = b, eng'.k = k, Closed(b, k)',
         eng'.pc = "relDb" /\ Charging(b)' => Pending(b, k)'
  PROVE  EngineSees'
  BY DEF EngineSees, Charging, Pending, Closed

\* What it saw, of the booking and the intent it works on.
LEMMA Sight ==
  ASSUME IInv, MoneyInv, NEW b \in Bookings, NEW k \in Ids, b = eng.b, k = eng.k
  PROVE  /\ eng.pc = "start" => row[b, k] = "none"
         /\ eng.pc = "confirm" => ConfirmReady(b, k)
         /\ eng.pc = "confirm" /\ wd.pc # "idle" /\ wd.b = b => wd.k # k
         /\ eng.pc \in {"register", "confirmed"} => Answered(b, k, eng.reply)
         /\ eng.pc \in {"closePay", "discarded", "relDb"} => Closed(b, k)
         /\ eng.pc \in {"capMark", "relGet", "relCancel", "relDb"} /\ Charging(b) =>
               Pending(b, k)
         /\ eng.pc \in {"capture", "reget", "captured"} => WasHeld(b, k)
         /\ eng.pc = "captured" => CaptureAnswered(b, k, eng.reply)
         /\ MoneyOf(b)
<1>1. EngineSees /\ MoneyOf(b)
  BY DEF MoneyInv
<1> QED BY <1>1 DEF EngineSees

LEMMA Bits ==
  ASSUME MoneyInv
  PROVE  \A c \in Bookings : MoneyOf(c)
  BY DEF MoneyInv

-----------------------------------------------------------------------------
(* charge-departures. *)

\* A query or a decision: only the engine moves.
LEMMA EngineReads ==
  ASSUME IInv, MoneyInv, EngineOnly, EngineSees'
  PROVE  MoneyInv'
<1>1. UNCHANGED <<status, mark, row, dep, intent, wd, sw, web>>
  BY DEF EngineOnly, db, gateway
<1>2. MoneyFine /\ Claims
  BY <1>1, Bits, NothingMoves
<1> QED BY <1>1, <1>2, QuietGateway, EngineTurn

LEMMA EngineWrites ==
  ASSUME IInv, MoneyInv, EngineDb, MoneyFine, Claims, EngineSees'
  PROVE  MoneyInv'
<1>1. UNCHANGED <<intent, wd, sw, web>>
  BY DEF EngineDb, gateway
<1> QED BY <1>1, QuietGateway, EngineTurn

LEMMA EngineCalls ==
  ASSUME IInv, MoneyInv, EngineRemote, IntentsSettle, EngineSees'
  PROVE  MoneyInv'
<1>1. UNCHANGED <<status, mark, row, dep, wd, sw, web>>
  BY DEF EngineRemote, db
<1>2. MoneyFine /\ Claims /\ Calm
  BY <1>1, Bits, GatewayKeeps
<1> QED BY <1>1, <1>2, EngineTurn

\* Steps of a run that take no booking in hand.
LEMMA BeginMoney == ASSUME IInv, MoneyInv, EngStart PROVE MoneyInv'
<1>1. eng'.pc \in {"auth0", "due", "decide"}
  BY DEF EngStart, EngineIdle
<1>2. EngineSees'
  BY <1>1, QuietEngine DEF Sighted
<1> QED BY <1>2, EngineReads DEF EngStart

LEMMA OpenMoney == ASSUME IInv, MoneyInv, EngOpen PROVE MoneyInv'
<1>1. EngineTypeOK /\ DbTypeOK /\ \A c \in Bookings : MoneyOf(c)
  BY BusyLemma, Bits
<1>2. EngineSees'
  <2>1. CASE Stop
    BY <2>1, StopSees
  <2>2. CASE Goto("auth0")
    BY <1>1, <2>2, QuietGoto DEF Sighted
  <2>3. CASE eng' = [eng EXCEPT !.pc = "decide", !.mode = "late"]
    <3>1. eng'.pc = "decide"
      BY <1>1, <2>3 DEF EngineTypeOK, EngineType
    <3> QED BY <3>1, QuietEngine DEF Sighted
  <2> QED BY <2>1, <2>2, <2>3 DEF EngOpen, Goto
<1>3. UNCHANGED <<intent, status, mark, row>>
  BY DEF EngOpen, EngineDb, gateway, OpenDepartureCharge, db
<1>4. dep'.cancelled = dep.cancelled
  <2>1. CASE UNCHANGED db
    BY <2>1 DEF db
  <2>2. CASE OpenDepartureCharge
    BY <1>1, <2>2 DEF OpenDepartureCharge, DbTypeOK, Departure
  <2> QED BY <2>1, <2>2 DEF EngOpen
<1>5. MoneyFine /\ Claims
  BY <1>1, <1>3, <1>4, NothingMoves
<1> QED BY <1>2, <1>5, EngineWrites DEF EngOpen

LEMMA FetchMoney ==
  ASSUME IInv, MoneyInv, EngFetchAuth \/ EngFetchCapture \/ EngFetchRelease
  PROVE  MoneyInv'
<1>1. eng \in EngineType
  BY DEF IInv, TypeOK, EngineTypeOK
<1>2. eng'.pc \in {"auth", "cap", "rel"}
  BY <1>1 DEF EngFetchAuth, EngFetchCapture, EngFetchRelease, EngineType
<1>3. EngineSees'
  BY <1>2, QuietEngine DEF Sighted
<1> QED BY <1>3, EngineReads DEF EngFetchAuth, EngFetchCapture, EngFetchRelease

LEMMA ClearMoney ==
  ASSUME IInv, MoneyInv, NEW b \in Bookings, EngClear(b) PROVE MoneyInv'
<1>1. eng \in EngineType /\ DbTypeOK /\ MoneyOf(b) /\ \A c \in Bookings : MoneyOf(c)
  BY Bits DEF IInv, TypeOK, EngineTypeOK
<1>2. /\ eng' = [eng EXCEPT !.todo[b] = @ \ {"clear"}] /\ eng.pc = "auth"
      /\ ClearStaleMarks(b) /\ UNCHANGED intent
  BY DEF EngClear, EngineDb, gateway
<1>3. eng'.pc = "auth"
  BY <1>1, <1>2 DEF EngineType
<1>4. EngineSees'
  BY <1>3, QuietEngine DEF Sighted
<1>5. DbKeeps(b) /\ (ClaimAuthorizationCancel(b) \/ ClaimsStay(b))
  BY <1>1, <1>2, MarksKeep
<1>6. ClaimsStay(b)
  <2>1. CASE ClaimAuthorizationCancel(b)
    <3>1. mark[b] \in Marks /\ mark' = [mark EXCEPT ![b].claim = "fresh"]
          /\ mark' = [mark EXCEPT ![b].claim = "none", ![b].capture = "none"]
      BY <1>1, <1>2, <2>1 DEF ClaimAuthorizationCancel, ClearStaleMarks, DbTypeOK
    <3>2. mark'[b].claim = "fresh"
      BY <1>1, <3>1, FieldUpdates
    <3>3. mark'[b].claim = "none"
      <4>1. mark'[b] = [mark[b] EXCEPT !.claim = "none", !.capture = "none"]
        BY <1>1, <3>1 DEF DbTypeOK
      <4> QED BY <3>1, <4>1 DEF Marks
    <3> QED BY <3>2, <3>3
  <2> QED BY <1>5, <2>1
<1>7. MoneyFine /\ Claims
  BY <1>1, <1>2, <1>5, <1>6, KeepsLemma
<1> QED BY <1>4, <1>7, EngineWrites DEF EngClear

LEMMA FirstPending ==
  ASSUME NEW b \in Bookings
  PROVE  /\ PendingOf(b) # NoId => PendingOf(b) \in Ids /\ Pending(b, PendingOf(b))
         /\ PendingOf(b) = NoId => \A j \in Ids : ~Pending(b, j)
<1>1. CASE PendingIds(b) = {}
  BY <1>1 DEF PendingOf, PendingIds, Pending
<1>2. CASE PendingIds(b) # {}
  <2>1. PendingOf(b) \in PendingIds(b)
    BY <1>2 DEF PendingOf
  <2>2. PendingOf(b) # NoId
    BY <2>1, NatLemma DEF PendingIds
  <2> QED BY <2>1, <2>2 DEF PendingIds, Pending
<1> QED BY <1>1, <1>2

LEMMA LookupMoney ==
  ASSUME IInv, MoneyInv, NEW b \in Bookings,
         EngLookup(b) \/ EngCaptureLookup(b) \/ EngReleaseLookup(b)
  PROVE  MoneyInv'
<1>1. eng \in EngineType
  BY DEF IInv, TypeOK, EngineTypeOK
<1>2. UNCHANGED <<row, status>> /\ EngineOnly
  BY DEF EngLookup, EngCaptureLookup, EngReleaseLookup, EngineOnly, db
<1>3. CASE EngLookup(b)
  <2>1. eng'.pc \in {"adoptGet", "auth", "attemptGet", "create"}
    BY <1>1, <1>3 DEF EngLookup, EngineType
  <2>2. EngineSees'
    BY <2>1, QuietEngine DEF Sighted
  <2> QED BY <1>2, <2>2, EngineReads
<1>4. CASE EngCaptureLookup(b)
  <2>1. /\ eng'.b = b /\ eng'.k = PendingOf(b)
        /\ eng'.pc = IF PendingOf(b) = NoId THEN "cap" ELSE "capMark"
    BY <1>1, <1>4 DEF EngCaptureLookup, EngineType
  <2>2. CASE PendingOf(b) = NoId
    <3>1. EngineSees'
      BY <2>1, <2>2, QuietEngine DEF Sighted
    <3> QED BY <1>2, <3>1, EngineReads
  <2>3. CASE PendingOf(b) # NoId
    <3>1. PICK k \in Ids : k = PendingOf(b) /\ Pending(b, k)
      BY <2>3, FirstPending
    <3>2. Pending(b, k)'
      BY <1>2, <3>1 DEF Pending
    <3>3. eng'.pc = "capMark" /\ eng'.b = b /\ eng'.k = k
      BY <2>1, <2>3, <3>1
    <3>4. EngineSees'
      BY <3>2, <3>3, PendingSees
    <3> QED BY <1>2, <3>4, EngineReads
  <2> QED BY <2>2, <2>3
<1>5. CASE EngReleaseLookup(b)
  <2>1. /\ eng'.b = b /\ eng'.k = PendingOf(b)
        /\ eng'.pc = IF PendingOf(b) = NoId THEN "rel" ELSE "relGet"
    BY <1>1, <1>5 DEF EngReleaseLookup, EngineType
  <2>2. CASE PendingOf(b) = NoId
    <3>1. EngineSees'
      BY <2>1, <2>2, QuietEngine DEF Sighted
    <3> QED BY <1>2, <3>1, EngineReads
  <2>3. CASE PendingOf(b) # NoId
    <3>1. PICK k \in Ids : k = PendingOf(b) /\ Pending(b, k)
      BY <2>3, FirstPending
    <3>2. Pending(b, k)'
      BY <1>2, <3>1 DEF Pending
    <3>3. eng'.pc = "relGet" /\ eng'.b = b /\ eng'.k = k
      BY <2>1, <2>3, <3>1
    <3>4. EngineSees'
      BY <3>2, <3>3, PendingSees
    <3> QED BY <1>2, <3>4, EngineReads
  <2> QED BY <2>2, <2>3
<1> QED BY <1>3, <1>4, <1>5

\* The booking and the intent in hand.
LEMMA InHand ==
  ASSUME IInv, MoneyInv, eng.pc \in HasBooking \ {"create"}
  PROVE  /\ EngineTypeOK /\ DbTypeOK /\ GatewayTypeOK /\ BooksInv
         /\ \E b \in Bookings, k \in Ids : b = eng.b /\ k = eng.k
         /\ \A c \in Bookings : MoneyOf(c)
<1>1. eng.b \in Bookings /\ eng.k \in Ids
  BY BusyLemma
<1> QED BY <1>1, BusyLemma, Bits DEF IInv

\* What a GET reports of an intent, for good.
LEMMA GetMeans ==
  ASSUME GatewayTypeOK, NEW b \in Bookings, NEW k \in Ids, NEW s, s = Get(b, k)
  PROVE  /\ Answered(b, k, s)
         /\ s = "requires_capture" => WasHeld(b, k)
         /\ s \in ClosedIntents => Closed(b, k)
         /\ s \notin {"requires_capture", "requires_action", "succeeded", "processing"}
               => Spent(b, k)
         /\ WasHeld(b, k) => CaptureAnswered(b, k, s)
<1>1. CASE intent[b, k] = "capturing"
  <2>1. s = "processing"
    BY <1>1 DEF Get
  <2>2. s \notin ClosedIntents /\ s # "requires_capture"
    BY <2>1 DEF ClosedIntents
  <2> QED BY <2>1, <2>2 DEF Answered, CaptureAnswered
<1>2. CASE intent[b, k] # "capturing"
  <2>1. s = intent[b, k]
    BY <1>2 DEF Get
  <2>2. intent[b, k] \in IntentStates
    BY DEF GatewayTypeOK
  <2>3. /\ s = "requires_capture" => WasHeld(b, k)
        /\ s \in ClosedIntents => Closed(b, k)
    BY <2>1 DEF WasHeld, Closed
  <2>4. s \notin {"requires_capture", "requires_action", "succeeded", "processing"}
           => Spent(b, k)
    BY <1>2, <2>1 DEF Spent, Committed
  <2>5. WasHeld(b, k) => CaptureAnswered(b, k, s)
    BY <1>2, <2>1 DEF WasHeld, CaptureAnswered, Closed, ClosedIntents
  <2> QED BY <2>3, <2>4, <2>5 DEF Answered
<1> QED BY <1>1, <1>2

LEMMA AdoptGetMoney == ASSUME IInv, MoneyInv, EngAdoptGet PROVE MoneyInv'
<1>1. eng.pc \in HasBooking \ {"create"} /\ EngineOnly /\ UNCHANGED intent
  BY DEF EngAdoptGet, HasBooking, EnginePcs, EngineOnly, gateway
<1>2. PICK b \in Bookings, k \in Ids : b = eng.b /\ k = eng.k
  BY <1>1, InHand
<1>3. EngineTypeOK /\ GatewayTypeOK
  BY <1>1, InHand
<1>4. PICK s : s = Get(b, k)
  OBVIOUS
<1>5. CASE eng' = [eng EXCEPT !.pc = "register", !.reply = s]
  <2>1. Answered(b, k, s)
    BY <1>3, <1>4, GetMeans
  <2>2. Answered(b, k, s)'
    BY <1>1, <2>1 DEF Answered, WasHeld, Closed, Spent
  <2>3. eng'.pc = "register" /\ eng'.reply = s /\ eng'.b = b /\ eng'.k = k
    BY <1>2, <1>3, <1>5, AnswerFields
  <2>4. EngineSees'
    BY <2>2, <2>3, AnswerSees
  <2> QED BY <1>1, <2>4, EngineReads
<1>6. CASE Resume("auth", TRUE)
  BY <1>1, <1>3, <1>6, ResumeSees, EngineReads
<1> QED BY <1>2, <1>4, <1>5, <1>6 DEF EngAdoptGet

LEMMA AttemptGetMoney == ASSUME IInv, MoneyInv, EngAttemptGet PROVE MoneyInv'
<1>1. eng.pc \in HasBooking \ {"create"} /\ EngineOnly /\ UNCHANGED intent
  BY DEF EngAttemptGet, HasBooking, EnginePcs, EngineOnly, gateway
<1>2. PICK b \in Bookings, k \in Ids : b = eng.b /\ k = eng.k
  BY <1>1, InHand
<1>3. EngineTypeOK /\ GatewayTypeOK
  BY <1>1, InHand
<1>4. PICK s : s = Get(b, k)
  OBVIOUS
<1>5. CASE s = "succeeded" /\ eng' = [eng EXCEPT !.pc = "register", !.reply = s]
  <2>1. Answered(b, k, s)
    BY <1>3, <1>4, GetMeans
  <2>2. Answered(b, k, s)'
    BY <1>1, <2>1 DEF Answered, WasHeld, Closed, Spent
  <2>3. eng'.pc = "register" /\ eng'.reply = s /\ eng'.b = b /\ eng'.k = k
    BY <1>2, <1>3, <1>5, AnswerFields
  <2>4. EngineSees'
    BY <2>2, <2>3, AnswerSees
  <2> QED BY <1>1, <2>4, EngineReads
<1>6. CASE s \in ClosedIntents /\ Goto("closePay")
  <2>1. Closed(b, k)'
    BY <1>1, <1>3, <1>4, <1>6, GetMeans DEF Closed
  <2>2. eng'.pc = "closePay" /\ eng'.b = b /\ eng'.k = k
    BY <1>2, <1>3, <1>6, GotoFields
  <2>3. EngineSees'
    BY <2>1, <2>2, ClosedSees
  <2> QED BY <1>1, <2>3, EngineReads
<1>7. CASE Goto("discard")
  BY <1>1, <1>3, <1>7, QuietGoto, EngineReads DEF Sighted
<1>8. CASE Resume("auth", TRUE)
  BY <1>1, <1>3, <1>8, ResumeSees, EngineReads
<1> QED BY <1>2, <1>4, <1>5, <1>6, <1>7, <1>8 DEF EngAttemptGet

LEMMA ClosePayMoney ==
  ASSUME IInv, MoneyInv, EngClosePay \/ EngDiscarded PROVE MoneyInv'
<1>1. /\ eng.pc \in HasBooking \ {"create"} /\ EngineDb /\ UNCHANGED intent
      /\ eng.pc \in {"closePay", "discarded"}
  BY DEF EngClosePay, EngDiscarded, HasBooking, EnginePcs, EngineDb, gateway
<1>2. PICK b \in Bookings, k \in Ids : b = eng.b /\ k = eng.k
  BY <1>1, InHand
<1>3. EngineTypeOK /\ DbTypeOK /\ \A c \in Bookings : MoneyOf(c)
  BY <1>1, InHand
<1>4. Closed(b, k) /\ MoneyOf(b)
  BY <1>1, <1>2, Sight
<1>5. ClosePendingPayment(b, k)
  BY <1>2 DEF EngClosePay, EngDiscarded
<1>6. MoneyFine /\ Claims
  BY <1>1, <1>3, <1>4, <1>5, ClosePendingKeeps, KeepsLemma
<1>7. Goto("create") \/ Resume("auth", TRUE)
  BY DEF EngClosePay, EngDiscarded
<1>8. EngineSees'
  BY <1>3, <1>7, QuietGoto, ResumeSees DEF Sighted
<1> QED BY <1>1, <1>6, <1>8, EngineWrites

LEMMA CancellingMoney ==
  ASSUME IInv, MoneyInv, EngDiscard \/ EngDrop \/ EngReleaseCancel
  PROVE  MoneyInv'
<1>1. eng.pc \in HasBooking \ {"create"} /\ EngineRemote
  BY DEF EngDiscard, EngDrop, EngReleaseCancel, HasBooking, EnginePcs
<1>2. PICK b \in Bookings, k \in Ids : b = eng.b /\ k = eng.k
  BY <1>1, InHand
<1>3. EngineTypeOK /\ GatewayTypeOK
  BY <1>1, InHand
<1>4. PICK ok \in BOOLEAN :
         /\ CancelIntent(b, k, ok)
         /\ \/ EngDrop /\ Resume("auth", TRUE)
            \/ EngDiscard /\ ok /\ Goto("discarded")
            \/ EngReleaseCancel /\ ok /\ Goto("relDb")
            \/ \E pc \in {"auth", "rel"}, done \in BOOLEAN : Resume(pc, done)
  BY <1>2 DEF EngDiscard, EngDrop, EngReleaseCancel
<1>5. IntentsSettle /\ (ok => Closed(b, k)')
  BY <1>3, <1>4, CancelSettles
<1>6. EngineSees'
  <2>1. CASE \E pc \in {"auth", "rel"}, done \in BOOLEAN : Resume(pc, done)
    BY <1>3, <2>1, ResumeSees
  <2>2. CASE ok /\ Goto("discarded")
    <3>1. eng'.pc = "discarded" /\ eng'.b = b /\ eng'.k = k
      BY <1>2, <1>3, <2>2, GotoFields
    <3> QED BY <1>5, <2>2, <3>1, ClosedSees
  <2>3. CASE EngReleaseCancel /\ ok /\ Goto("relDb")
    <3>1. eng'.pc = "relDb" /\ eng'.b = b /\ eng'.k = k
      BY <1>2, <1>3, <2>3, GotoFields
    <3>2. Charging(b) => Pending(b, k)
      BY <1>2, <2>3, Sight DEF EngReleaseCancel
    <3>3. Charging(b)' => Pending(b, k)'
      BY <1>1, <3>2 DEF EngineRemote, db, Charging, Pending
    <3> QED BY <1>5, <2>3, <3>1, <3>3, ClosedSees
  <2> QED BY <1>3, <1>4, <2>1, <2>2, <2>3, ResumeSees
<1> QED BY <1>1, <1>5, <1>6, EngineCalls

LEMMA CreateMoney == ASSUME IInv, MoneyInv, EngCreate PROVE MoneyInv'
<1>1. /\ EngineTypeOK /\ GatewayTypeOK /\ eng.b \in Bookings /\ EngineRemote
  BY BusyLemma DEF EngCreate, HasBooking, EnginePcs
<1>2. CASE Resume("auth", TRUE) /\ UNCHANGED gateway
  <2>1. IntentsSettle
    BY <1>2 DEF gateway, IntentsSettle, Settles
  <2> QED BY <1>1, <1>2, <2>1, ResumeSees, EngineCalls
<1>3. CASE \E k \in FreshIds(eng.b) :
              /\ SetIntent(eng.b, k, "requires_payment_method")
              /\ eng' = [eng EXCEPT !.pc = "start", !.k = k]
  <2>1. PICK b \in Bookings : b = eng.b
    BY <1>1
  <2>2. PICK k \in Ids :
            /\ intent[b, k] = "none"
            /\ SetIntent(b, k, "requires_payment_method")
            /\ eng' = [eng EXCEPT !.pc = "start", !.k = k]
    BY <1>3, <2>1 DEF FreshIds
  <2>3. Settles(intent[b, k], "requires_payment_method")
    BY <2>2 DEF Settles
  <2>4. IntentsSettle
    BY <1>1, <2>2, <2>3, OneSettles
  <2>5. row[b, k] = "none"
    <3>1. RowFacts(b, k)
      BY Bits DEF MoneyOf, RowsOf
    <3> QED BY <2>2, <3>1 DEF RowFacts
  <2>6. eng'.pc = "start" /\ eng'.b = b /\ eng'.k = k
    BY <1>1, <2>1, <2>2 DEF EngineTypeOK, EngineType
  <2>7. row'[b, k] = "none"
    BY <1>1, <2>5 DEF EngineRemote, db
  <2>8. EngineSees'
    BY <2>6, <2>7 DEF EngineSees
  <2> QED BY <1>1, <2>4, <2>8, EngineCalls
<1> QED BY <1>2, <1>3 DEF EngCreate

LEMMA StartChargeMoney == ASSUME IInv, MoneyInv, EngStartCharge PROVE MoneyInv'
<1>1. /\ eng.pc \in HasBooking \ {"create"} /\ EngineDb /\ UNCHANGED intent
      /\ UNCHANGED wd
  BY DEF EngStartCharge, HasBooking, EnginePcs, EngineDb, gateway
<1>2. PICK b \in Bookings, k \in Ids : b = eng.b /\ k = eng.k
  BY <1>1, InHand
<1>3. EngineTypeOK /\ DbTypeOK /\ \A c \in Bookings : MoneyOf(c)
  BY <1>1, InHand
<1>4. row[b, k] = "none" /\ MoneyOf(b)
  BY <1>2, Sight DEF EngStartCharge
<1>5. intent[b, k] \in Dormant
  BY <1>2 DEF IInv, EngineKnows, EngStartCharge
<1>6. CASE UNCHANGED db /\ Goto("drop")
  <2>1. MoneyFine /\ Claims
    BY <1>1, <1>3, <1>6, NothingMoves DEF db
  <2>2. EngineSees'
    BY <1>3, <1>6, QuietGoto DEF Sighted
  <2> QED BY <1>1, <2>1, <2>2, EngineWrites
<1>7. CASE CanStart(b, k) /\ ChargeBookingStart(b, k) /\ Goto("confirm")
  <2>1. DbKeeps(b) /\ ClaimsStay(b)
    BY <1>1, <1>3, <1>4, <1>5, <1>7, StartKeeps
  <2>2. MoneyFine /\ Claims
    BY <1>1, <1>3, <2>1, KeepsLemma
  <2>3. eng'.pc = "confirm" /\ eng'.b = b /\ eng'.k = k
    BY <1>2, <1>3, <1>7, GotoFields
  <2>4. row'[b, k] = "pending" /\ status'[b] = "pending_payment"
    <3>1. /\ row' = [row EXCEPT ![<<b, k>>] = "pending"]
          /\ status' = [status EXCEPT ![b] = "pending_payment"]
      BY <1>7 DEF ChargeBookingStart
    <3>2. row'[b, k] = "pending"
      BY <1>3, <3>1, RowSet
    <3>3. status'[b] = "pending_payment"
      BY <1>3, <3>1, StatusUpdate
    <3> QED BY <3>2, <3>3
  <2>5. ~mark'[b].auth /\ status[b] = "pending_minimum"
    <3>1. status[b] = "pending_minimum" /\ mark' = mark
      BY <1>7 DEF CanStart, ChargeBookingStart
    <3>2. mark'[b] = NoMarks
      BY <1>4, <3>1 DEF MoneyOf, RowsOf
    <3> QED BY <3>1, <3>2, NoMarksLemma
  <2>6. \A j \in Ids : Spent(b, j)'
    <3>1. \A j \in Ids : intent[b, j] \notin Committed
      <4>1. \A j \in Ids : RowFacts(b, j)
        BY <1>4 DEF MoneyOf, RowsOf
      <4> QED BY <1>4, <2>5, <4>1 DEF MoneyOf, TrackedOf, Charging, RowFacts
    <3> QED BY <1>1, <3>1 DEF Spent
  <2>7. ConfirmReady(b, k)'
    BY <2>4, <2>5, <2>6 DEF ConfirmReady, Pending, Charging
  <2>8. wd.pc # "idle" /\ wd.b = b => wd.k # k
    <3>1. SUFFICES ASSUME wd.pc # "idle", wd.b = b, wd.k = k PROVE FALSE
      OBVIOUS
    <3>2. k # NoId
      BY NatLemma
    <3>3. row[wd.b, wd.k] # "none"
      BY <3>1, <3>2 DEF MoneyInv, WatchSees
    <3> QED BY <1>4, <3>1, <3>3
  <2>9. EngineSees'
    BY <1>1, <2>3, <2>7, <2>8
       DEF EngineSees, ConfirmReady, Pending, Charging, Spent, Closed
  <2> QED BY <1>1, <2>2, <2>9, EngineWrites
<1> QED BY <1>2, <1>6, <1>7 DEF EngStartCharge

LEMMA ConfirmMoney == ASSUME IInv, MoneyInv, EngConfirm PROVE MoneyInv'
<1>1. /\ eng.pc \in HasBooking \ {"create"} /\ EngineRemote
      /\ UNCHANGED <<status, mark, row, dep, wd, sw, web>>
  BY DEF EngConfirm, HasBooking, EnginePcs, EngineRemote, db
<1>2. PICK b \in Bookings, k \in Ids : b = eng.b /\ k = eng.k
  BY <1>1, InHand
<1>3. EngineTypeOK /\ GatewayTypeOK /\ \A c \in Bookings : MoneyOf(c)
  BY <1>1, InHand
<1>4. /\ ConfirmReady(b, k) /\ MoneyOf(b)
      /\ wd.pc # "idle" /\ wd.b = b => wd.k # k
  BY <1>2, Sight DEF EngConfirm
<1>5. CASE /\ eng' = [eng EXCEPT !.pc = "confirmed", !.reply = Get(b, k)]
           /\ UNCHANGED gateway
  <2>1. PICK s : s = Get(b, k)
    OBVIOUS
  <2>2. Answered(b, k, s)
    BY <1>3, <2>1, GetMeans
  <2>3. Answered(b, k, s)'
    BY <1>5, <2>2 DEF gateway, Answered, WasHeld, Closed, Spent
  <2>4. eng'.pc = "confirmed" /\ eng'.reply = s /\ eng'.b = b /\ eng'.k = k
    BY <1>2, <1>3, <1>5, <2>1, AnswerFields
  <2>5. EngineSees'
    BY <2>3, <2>4, AnswerSees
  <2>6. IntentsSettle
    BY <1>5 DEF gateway, IntentsSettle, Settles
  <2> QED BY <1>1, <2>5, <2>6, EngineCalls
<1>6. CASE /\ intent[b, k] = "requires_payment_method"
           /\ \E s \in Answers :
               /\ SetIntent(b, k, s)
               /\ \/ eng' = [eng EXCEPT !.pc = "confirmed", !.reply = s]
                  \/ Stop
  <2>1. PICK s \in Answers :
               /\ SetIntent(b, k, s)
               /\ \/ eng' = [eng EXCEPT !.pc = "confirmed", !.reply = s]
                  \/ Stop
    BY <1>6
  <2>2. intent'[b, k] = s
    BY <1>3, <2>1 DEF SetIntent, GatewayTypeOK
  <2>3. \A c \in Bookings, j \in Ids : c # b \/ j # k => intent'[c, j] = intent[c, j]
    BY <1>3, <2>1 DEF SetIntent, GatewayTypeOK
  <2>4. s # "none" /\ s # "capturing"
    BY AnswersAssumption
  <2>5. ~Closed(b, k) /\ ~WasHeld(b, k) /\ Spent(b, k)
    BY <1>6 DEF Closed, WasHeld, Spent, ClosedIntents, Committed
  <2>6. \/ Pending(b, k) /\ Charging(b) /\ ~mark[b].auth
        \/ status[b] = "cancelled" /\ row[b, k] \in {"pending", "failed"}
    BY <1>4, <2>5 DEF ConfirmReady
  <2>7. /\ \A c \in Bookings, j \in Ids : Closed(c, j) => Closed(c, j)'
        /\ \A c \in Bookings, j \in Ids : WasHeld(c, j) => WasHeld(c, j)'
        /\ \A c \in Bookings, j \in Ids : c # b \/ j # k =>
              (Spent(c, j) => Spent(c, j)')
    <3>1. ASSUME NEW c \in Bookings, NEW j \in Ids, Closed(c, j)
          PROVE  Closed(c, j)'
      <4>1. c # b \/ j # k
        BY <2>5, <3>1
      <4> QED BY <2>3, <3>1, <4>1 DEF Closed
    <3>2. ASSUME NEW c \in Bookings, NEW j \in Ids, WasHeld(c, j)
          PROVE  WasHeld(c, j)'
      <4>1. c # b \/ j # k
        BY <2>5, <3>2
      <4> QED BY <2>3, <3>2, <4>1 DEF WasHeld
    <3>3. ASSUME NEW c \in Bookings, NEW j \in Ids, c # b \/ j # k, Spent(c, j)
          PROVE  Spent(c, j)'
      BY <2>3, <3>3 DEF Spent
    <3> QED BY <3>1, <3>2, <3>3
  <2>8. ASSUME NEW c \in Bookings, c # b
        PROVE  MoneyOf(c)'
    <3>1. \A j \in Ids : intent'[c, j] = intent[c, j]
      BY <2>3, <2>8
    <3>2. RowsOf(c)'
      <4>1. ASSUME NEW j \in Ids PROVE RowFacts(c, j)'
        <5>1. RowFacts(c, j)
          BY <1>3 DEF MoneyOf, RowsOf
        <5> QED BY <1>1, <3>1, <5>1 DEF RowFacts, Charging, Pending, Closed, WasHeld
      <4> QED BY <1>1, <1>3, <4>1 DEF MoneyOf, RowsOf, Pending, Charging, Live
    <3>3. TrackedOf(c)' /\ OnceOf(c)'
      BY <1>1, <1>3, <3>1 DEF MoneyOf, TrackedOf, OnceOf, Pending, Charging, Spent
    <3> QED BY <3>2, <3>3 DEF MoneyOf
  <2>9. MoneyOf(b)'
    <3>1. ASSUME NEW j \in Ids PROVE RowFacts(b, j)'
      <4>1. RowFacts(b, j)
        BY <1>4 DEF MoneyOf, RowsOf
      <4>2. CASE j # k
        <5>1. intent'[b, j] = intent[b, j]
          BY <2>3, <4>2
        <5> QED BY <1>1, <4>1, <5>1 DEF RowFacts, Charging, Pending, Closed, WasHeld
      <4>3. CASE j = k
        <5>1. row'[b, k] \in {"pending", "failed"}
          BY <1>1, <2>6 DEF Pending
        <5>2. ~(Charging(b)' /\ mark'[b].auth)
          BY <1>1, <2>6 DEF Charging
        <5>3. intent'[b, k] # "none"
          BY <2>2, <2>4
        <5> QED BY <4>3, <5>1, <5>2, <5>3 DEF RowFacts
      <4> QED BY <4>2, <4>3
    <3>2. RowsOf(b)'
      BY <1>1, <1>4, <3>1 DEF MoneyOf, RowsOf, Pending, Charging, Live
    <3>3. TrackedOf(b)'
      <4>1. ASSUME NEW j \in Ids, intent'[b, j] \in Committed PROVE j = k
        <5>1. Spent(b, j)
          BY <1>4 DEF ConfirmReady
        <5> QED BY <2>3, <4>1, <5>1 DEF Spent
      <4>2. \/ Pending(b, k)' /\ Charging(b)'
            \/ row'[b, k] \in {"pending", "failed"} /\ status'[b] = "cancelled"
        BY <1>1, <2>6 DEF Pending, Charging
      <4> QED BY <4>1, <4>2 DEF TrackedOf
    <3>4. OnceOf(b)'
      <4>1. ASSUME NEW j \in Ids, ~Spent(b, j)' PROVE j = k
        <5>1. Spent(b, j)
          BY <1>4 DEF ConfirmReady
        <5> QED BY <2>3, <4>1, <5>1 DEF Spent
      <4> QED BY <4>1 DEF OnceOf
    <3> QED BY <3>2, <3>3, <3>4 DEF MoneyOf
  <2>10. WatchSees'
    <3>1. CASE wd.pc = "idle"
      BY <1>1, <3>1 DEF WatchSees
    <3>2. CASE wd.pc # "idle"
      <4>1. /\ wd.b \in Bookings /\ wd.k \in Ids \cup {NoId}
            /\ wd.pc = "do" /\ wd.act \in {"record_retryable", "record_terminal"} =>
                  wd.k \in Ids
            /\ WatchSees
        BY <3>2 DEF IInv, TypeOK, WatchTypeOK, MoneyInv
      <4>2. wd.b # b \/ wd.k # k
        BY <1>4, <3>2
      <4>3. wd.k \in Ids =>
               /\ Closed(wd.b, wd.k) => intent'[wd.b, wd.k] \in ClosedIntents
               /\ Spent(wd.b, wd.k) => intent'[wd.b, wd.k] \notin Committed
        BY <2>3, <4>1, <4>2 DEF Closed, Spent
      <4> QED BY <1>1, <4>1, <4>3 DEF WatchSees, Closed, Spent
    <3> QED BY <3>1, <3>2
  <2>11. SweepSees'
    <3>1. CASE sw.pc = "idle"
      BY <1>1, <3>1 DEF SweepSees
    <3>2. CASE sw.pc # "idle"
      <4>1. sw.b \in Bookings /\ sw.k \in Ids /\ SweepSees
        BY <3>2 DEF IInv, TypeOK, SweepTypeOK, MoneyInv
      <4>2. Closed(sw.b, sw.k) => intent'[sw.b, sw.k] \in ClosedIntents
        BY <2>7, <4>1 DEF Closed
      <4> QED BY <1>1, <4>1, <4>2 DEF SweepSees, Closed
    <3> QED BY <3>1, <3>2
  <2>12. WebSees'
    <3>1. SUFFICES ASSUME NEW c \in Callers PROVE CallerSees(c)'
      BY DEF WebSees, CallerSees
    <3>2. CASE web[c].pc \notin {"release", "check", "close"}
      BY <1>1, <3>2 DEF CallerSees
    <3>3. CASE web[c].pc \in {"release", "check", "close"}
      <4>1. web[c].b \in Bookings /\ CallerSees(c)
        BY <3>3 DEF IInv, TypeOK, WebTypeOK, MoneyInv, WebSees, CallerSees
      <4>2. \A j \in Ids : Closed(web[c].b, j) => intent'[web[c].b, j] \in ClosedIntents
        BY <2>7, <4>1 DEF Closed
      <4> QED BY <1>1, <4>1, <4>2 DEF CallerSees, Charging, Pending, Closed
    <3> QED BY <3>2, <3>3
  <2>13. EngineSees'
    <3>1. CASE Stop
      BY <3>1, StopSees
    <3>2. CASE eng' = [eng EXCEPT !.pc = "confirmed", !.reply = s]
      <4>1. eng'.pc = "confirmed" /\ eng'.reply = s /\ eng'.b = b /\ eng'.k = k
        BY <1>2, <1>3, <3>2, AnswerFields
      <4>2. Answered(b, k, s)'
        <5>1. s = "requires_capture" => WasHeld(b, k)'
          BY <2>2 DEF WasHeld
        <5>2. s \in ClosedIntents => Closed(b, k)'
          BY <2>2 DEF Closed
        <5>3. s \notin {"requires_capture", "requires_action", "succeeded", "processing"}
                 => Spent(b, k)'
          BY <2>2, <2>4 DEF Spent, Committed
        <5> QED BY <5>1, <5>2, <5>3 DEF Answered
      <4> QED BY <4>1, <4>2, AnswerSees
    <3> QED BY <2>1, <3>1, <3>2
  <2> QED BY <2>8, <2>9, <2>10, <2>11, <2>12, <2>13 DEF MoneyInv
<1> QED BY <1>2, <1>5, <1>6 DEF EngConfirm

\* SQL functions that leave the money of a booking alone.
LEMMA RequiresActionKeeps ==
  ASSUME UNCHANGED intent, \A c \in Bookings : MoneyOf(c), NEW b, NEW k,
         ChargeRequiresAction(b, k) \/ UNCHANGED db \/ Tick
  PROVE  MoneyFine /\ Claims /\ Outside
<1>1. UNCHANGED <<status, mark, row, dep>>
  BY DEF ChargeRequiresAction, db, Tick
<1> QED BY <1>1, NothingMoves

LEMMA RegisterMoney == ASSUME IInv, MoneyInv, EngRegister PROVE MoneyInv'
<1>1. /\ eng.pc \in HasBooking \ {"create"} /\ EngineDb /\ UNCHANGED intent
      /\ eng.pc \in {"register", "confirmed"}
  BY DEF EngRegister, HasBooking, EnginePcs, EngineDb, gateway
<1>2. PICK b \in Bookings, k \in Ids : b = eng.b /\ k = eng.k
  BY <1>1, InHand
<1>3. EngineTypeOK /\ DbTypeOK /\ BooksInv /\ \A c \in Bookings : MoneyOf(c)
  BY <1>1, InHand
<1>4. PICK s : s = eng.reply
  OBVIOUS
<1>5. Answered(b, k, s) /\ MoneyOf(b)
  BY <1>1, <1>2, <1>4, Sight
<1>6. s = "succeeded" => intent[b, k] = "succeeded"
  BY <1>1, <1>2, <1>4 DEF IInv, EngineKnows
<1>7. Register(b, k, s) /\ Resume("auth", TRUE)
  BY <1>2, <1>4 DEF EngRegister
<1>8. MoneyFine /\ Claims
  <2>1. CASE s = "requires_capture"
    <3>1. RecordAuthorization(b, k) /\ WasHeld(b, k)
      BY <1>5, <1>7, <2>1 DEF Register, Answered, ClosedIntents
    <3>2. DbKeeps(b) /\ ClaimsStay(b)
      BY <1>1, <1>3, <1>5, <3>1, AuthorizeKeeps
    <3> QED BY <1>1, <1>3, <3>2, KeepsLemma
  <2>2. CASE s \in {"requires_action", "processing"}
    <3>1. ChargeRequiresAction(b, k) \/ UNCHANGED db
      BY <1>7, <2>2 DEF Register, ClosedIntents
    <3> QED BY <1>1, <1>3, <3>1, RequiresActionKeeps
  <2>3. CASE s = "succeeded"
    <3>1. ConfirmBooking(b, k)
      BY <1>7, <2>3 DEF Register, ClosedIntents
    <3>2. DbKeeps(b) /\ ClaimsStay(b)
      BY <1>1, <1>3, <1>5, <1>6, <2>3, <3>1, ConfirmKeeps
    <3> QED BY <1>1, <1>3, <3>2, KeepsLemma
  <2>4. CASE s \notin {"requires_capture", "requires_action", "processing", "succeeded"}
    <3>1. Spent(b, k)
      BY <1>5, <2>4 DEF Answered
    <3>2. PICK terminal \in BOOLEAN :
             /\ ChargeAttemptFailed(b, k, terminal)
             /\ terminal => Closed(b, k)
      <4>1. CASE s \in ClosedIntents
        <5>1. ChargeAttemptFailed(b, k, TRUE) /\ Closed(b, k)
          BY <1>5, <1>7, <2>4, <4>1 DEF Register, Answered
        <5> QED BY <5>1
      <4>2. CASE s \notin ClosedIntents
        <5>1. ChargeAttemptFailed(b, k, FALSE)
          BY <1>7, <2>4, <4>2 DEF Register
        <5> QED BY <5>1
      <4> QED BY <4>1, <4>2
    <3>3. DbKeeps(b) /\ ClaimsStay(b)
      BY <1>1, <1>3, <1>5, <3>1, <3>2, AttemptFailedKeeps
    <3> QED BY <1>1, <1>3, <3>3, KeepsLemma
  <2> QED BY <2>1, <2>2, <2>3, <2>4
<1>9. EngineSees'
  BY <1>3, <1>7, ResumeSees
<1> QED BY <1>1, <1>8, <1>9, EngineWrites

LEMMA MarkMoney == ASSUME IInv, MoneyInv, EngMark PROVE MoneyInv'
<1>1. /\ eng.pc \in HasBooking \ {"create"} /\ EngineDb /\ UNCHANGED intent
  BY DEF EngMark, HasBooking, EnginePcs, EngineDb, gateway
<1>2. PICK b \in Bookings, k \in Ids : b = eng.b /\ k = eng.k
  BY <1>1, InHand
<1>3. EngineTypeOK /\ DbTypeOK /\ \A c \in Bookings : MoneyOf(c)
  BY <1>1, InHand
<1>4. CASE Resume("cap", FALSE) /\ UNCHANGED db
  <2>1. MoneyFine /\ Claims
    BY <1>1, <1>3, <1>4, NothingMoves DEF db
  <2>2. EngineSees'
    BY <1>3, <1>4, ResumeSees
  <2> QED BY <1>1, <2>1, <2>2, EngineWrites
<1>5. CASE CanMarkCapture(b) /\ MarkCaptureStarted(b) /\ Goto("capture")
  <2>1. DbKeeps(b) /\ (ClaimAuthorizationCancel(b) \/ ClaimsStay(b))
    BY <1>1, <1>3, <1>5, MarksKeep
  <2>2. mark[b].claim = "none" /\ mark[b].auth /\ Charging(b)
    BY <1>5 DEF CanMarkCapture, Charging
  <2>3. ~ClaimAuthorizationCancel(b)
    <3>1. SUFFICES ASSUME ClaimAuthorizationCancel(b) PROVE FALSE
      OBVIOUS
    <3>2. mark'[b].claim = "fresh"
      BY <1>3, <3>1, FieldUpdates DEF ClaimAuthorizationCancel
    <3>3. mark'[b].claim = mark[b].claim
      BY <1>3, <1>5, FieldUpdates DEF MarkCaptureStarted
    <3> QED BY <2>2, <3>2, <3>3
  <2>4. MoneyFine /\ Claims
    BY <1>1, <1>3, <2>1, <2>3, KeepsLemma
  <2>5. Pending(b, k) /\ MoneyOf(b)
    BY <1>2, <2>2, Sight DEF EngMark
  <2>6. WasHeld(b, k)
    <3>1. RowFacts(b, k)
      BY <2>5 DEF MoneyOf, RowsOf
    <3> QED BY <2>2, <2>5, <3>1 DEF RowFacts
  <2>7. eng'.pc = "capture" /\ eng'.b = b /\ eng'.k = k
    BY <1>2, <1>3, <1>5, GotoFields
  <2>8. WasHeld(b, k)'
    BY <1>1, <2>6 DEF WasHeld
  <2>9. EngineSees'
    BY <2>7, <2>8, HeldSees
  <2> QED BY <1>1, <2>4, <2>9, EngineWrites
<1> QED BY <1>2, <1>4, <1>5 DEF EngMark

LEMMA CaptureMoney == ASSUME IInv, MoneyInv, EngCapture PROVE MoneyInv'
<1>1. /\ eng.pc \in HasBooking \ {"create"} /\ EngineRemote
  BY DEF EngCapture, HasBooking, EnginePcs
<1>2. PICK b \in Bookings, k \in Ids : b = eng.b /\ k = eng.k
  BY <1>1, InHand
<1>3. EngineTypeOK /\ GatewayTypeOK
  BY <1>1, InHand
<1>4. WasHeld(b, k)
  BY <1>2, Sight DEF EngCapture
<1>5. CASE Goto("reget") /\ UNCHANGED intent
  <2>1. IntentsSettle
    BY <1>5 DEF IntentsSettle, Settles
  <2>2. eng'.pc = "reget" /\ eng'.b = b /\ eng'.k = k
    BY <1>2, <1>3, <1>5, GotoFields
  <2>3. WasHeld(b, k)'
    BY <1>4, <1>5 DEF WasHeld
  <2>4. EngineSees'
    BY <2>2, <2>3, HeldSees
  <2> QED BY <1>1, <2>1, <2>4, EngineCalls
<1>6. CASE \E s \in {"succeeded", "capturing"}, r \in {"succeeded", "processing"} :
              /\ intent[b, k] = "requires_capture"
              /\ SetIntent(b, k, s)
              /\ \/ eng' = [eng EXCEPT !.pc = "captured", !.reply = r]
                 \/ Goto("reget")
  <2>1. PICK s \in {"succeeded", "capturing"}, r \in {"succeeded", "processing"} :
              /\ intent[b, k] = "requires_capture"
              /\ SetIntent(b, k, s)
              /\ \/ eng' = [eng EXCEPT !.pc = "captured", !.reply = r]
                 \/ Goto("reget")
    BY <1>6
  <2>2. Settles(intent[b, k], s)
    BY <2>1 DEF Settles
  <2>3. IntentsSettle /\ intent'[b, k] = s
    BY <1>3, <2>1, <2>2, OneSettles
  <2>4. WasHeld(b, k)'
    BY <2>3 DEF WasHeld
  <2>5. CASE eng' = [eng EXCEPT !.pc = "captured", !.reply = r]
    <3>1. eng'.pc = "captured" /\ eng'.reply = r /\ eng'.b = b /\ eng'.k = k
      BY <1>2, <1>3, <2>5, AnswerFields
    <3>2. CaptureAnswered(b, k, r)'
      BY DEF CaptureAnswered
    <3>3. EngineSees'
      BY <2>4, <3>1, <3>2, CapturedSees
    <3> QED BY <1>1, <2>3, <3>3, EngineCalls
  <2>6. CASE Goto("reget")
    <3>1. eng'.pc = "reget" /\ eng'.b = b /\ eng'.k = k
      BY <1>2, <1>3, <2>6, GotoFields
    <3>2. EngineSees'
      BY <2>4, <3>1, HeldSees
    <3> QED BY <1>1, <2>3, <3>2, EngineCalls
  <2> QED BY <2>1, <2>5, <2>6
<1>7. \/ Goto("reget") /\ UNCHANGED intent
      \/ \E s \in {"succeeded", "capturing"} :
              /\ intent[b, k] = "requires_capture"
              /\ SetIntent(b, k, s)
              /\ \/ eng' = [eng EXCEPT !.pc = "captured",
                              !.reply = IF s = "succeeded" THEN s ELSE "processing"]
                 \/ Goto("reget")
  BY <1>2 DEF EngCapture, gateway
<1>8. CASE \E s \in {"succeeded", "capturing"} :
              /\ intent[b, k] = "requires_capture"
              /\ SetIntent(b, k, s)
              /\ \/ eng' = [eng EXCEPT !.pc = "captured",
                              !.reply = IF s = "succeeded" THEN s ELSE "processing"]
                 \/ Goto("reget")
  <2>1. PICK s \in {"succeeded", "capturing"} :
              /\ intent[b, k] = "requires_capture"
              /\ SetIntent(b, k, s)
              /\ \/ eng' = [eng EXCEPT !.pc = "captured",
                              !.reply = IF s = "succeeded" THEN s ELSE "processing"]
                 \/ Goto("reget")
    BY <1>8
  <2>2. PICK r \in {"succeeded", "processing"} :
            r = IF s = "succeeded" THEN s ELSE "processing"
    OBVIOUS
  <2>3. \/ eng' = [eng EXCEPT !.pc = "captured", !.reply = r]
        \/ Goto("reget")
    BY <2>1, <2>2
  <2> QED BY <1>6, <2>1, <2>3
<1> QED BY <1>5, <1>7, <1>8

LEMMA RegetMoney == ASSUME IInv, MoneyInv, EngReget PROVE MoneyInv'
<1>1. /\ eng.pc \in HasBooking \ {"create"} /\ EngineRemote /\ UNCHANGED intent
  BY DEF EngReget, HasBooking, EnginePcs, gateway
<1>2. PICK b \in Bookings, k \in Ids : b = eng.b /\ k = eng.k
  BY <1>1, InHand
<1>3. EngineTypeOK /\ GatewayTypeOK
  BY <1>1, InHand
<1>4. IntentsSettle
  BY <1>1 DEF IntentsSettle, Settles
<1>5. PICK s : s = Get(b, k)
  OBVIOUS
<1>6. WasHeld(b, k) /\ CaptureAnswered(b, k, s)
  <2>1. WasHeld(b, k)
    BY <1>2, Sight DEF EngReget
  <2> QED BY <1>3, <1>5, <2>1, GetMeans
<1>7. CASE eng' = [eng EXCEPT !.pc = "captured", !.reply = s]
  <2>1. eng'.pc = "captured" /\ eng'.reply = s /\ eng'.b = b /\ eng'.k = k
    BY <1>2, <1>3, <1>7, AnswerFields
  <2>2. WasHeld(b, k)' /\ CaptureAnswered(b, k, s)'
    BY <1>1, <1>6 DEF WasHeld, CaptureAnswered, Closed
  <2>3. EngineSees'
    BY <2>1, <2>2, CapturedSees
  <2> QED BY <1>1, <1>4, <2>3, EngineCalls
<1>8. CASE Resume("cap", FALSE)
  BY <1>1, <1>3, <1>4, <1>8, ResumeSees, EngineCalls
<1> QED BY <1>2, <1>5, <1>7, <1>8 DEF EngReget

LEMMA CapturedMoney == ASSUME IInv, MoneyInv, EngCaptured PROVE MoneyInv'
<1>1. /\ eng.pc \in HasBooking \ {"create"} /\ EngineDb /\ UNCHANGED intent
      /\ eng.pc = "captured"
  BY DEF EngCaptured, HasBooking, EnginePcs, EngineDb, gateway
<1>2. PICK b \in Bookings, k \in Ids : b = eng.b /\ k = eng.k
  BY <1>1, InHand
<1>3. EngineTypeOK /\ DbTypeOK /\ BooksInv /\ \A c \in Bookings : MoneyOf(c)
  BY <1>1, InHand
<1>4. PICK s : s = eng.reply
  OBVIOUS
<1>5. CaptureAnswered(b, k, s) /\ MoneyOf(b)
  BY <1>1, <1>2, <1>4, Sight
<1>6. s = "succeeded" => intent[b, k] = "succeeded"
  BY <1>1, <1>2, <1>4 DEF IInv, EngineKnows
<1>7. MoneyFine /\ Claims
  <2>1. CASE s = "succeeded"
    <3>1. ConfirmBooking(b, k)
      BY <1>2, <1>4, <2>1 DEF EngCaptured
    <3>2. DbKeeps(b) /\ ClaimsStay(b)
      BY <1>1, <1>3, <1>5, <1>6, <2>1, <3>1, ConfirmKeeps
    <3> QED BY <1>1, <1>3, <3>2, KeepsLemma
  <2>2. CASE s \in {"requires_capture", "processing"}
    <3>1. UNCHANGED db
      BY <1>4, <2>2 DEF EngCaptured
    <3> QED BY <1>1, <1>3, <3>1, NothingMoves DEF db
  <2>3. CASE s \notin {"succeeded", "requires_capture", "processing"}
    <3>1. ChargeAttemptFailed(b, k, TRUE)
      BY <1>2, <1>4, <2>3 DEF EngCaptured
    <3>2. Closed(b, k)
      BY <1>5, <2>3 DEF CaptureAnswered
    <3>3. Spent(b, k)
      BY <3>2 DEF Closed, Spent, ClosedIntents, Committed
    <3>4. DbKeeps(b) /\ ClaimsStay(b)
      BY <1>1, <1>3, <1>5, <3>1, <3>2, <3>3, AttemptFailedKeeps
    <3> QED BY <1>1, <1>3, <3>4, KeepsLemma
  <2> QED BY <2>1, <2>2, <2>3
<1>8. EngineSees'
  <2>1. PICK ok : Resume("cap", ok)
    BY DEF EngCaptured
  <2> QED BY <1>3, <2>1, ResumeSees
<1> QED BY <1>1, <1>7, <1>8, EngineWrites

\* The decisions of a run, and a call that throws.
LEMMA DecideMoney ==
  ASSUME IInv, MoneyInv, EngAuthDone \/ EngDecide \/ EngBefore \/ EngCaptureDone
                           \/ EngRecount \/ EngReleaseDone
  PROVE  MoneyInv'
<1>1. EngineTypeOK /\ EngineOnly
  BY BusyLemma DEF EngAuthDone, EngDecide, EngBefore, EngCaptureDone, EngRecount,
                   EngReleaseDone
<1>2. \/ Stop
      \/ \E pc \in {"before", "cap0", "decide", "rel0", "resolve0", "resolve", "close",
                    "autoCancel"} : Goto(pc)
  BY DEF EngAuthDone, EngDecide, EngBefore, EngCaptureDone, EngRecount,
         EngReleaseDone
<1>3. EngineSees'
  BY <1>1, <1>2, StopSees, QuietGoto DEF Sighted
<1> QED BY <1>1, <1>3, EngineReads

LEMMA AbortMoney == ASSUME IInv, MoneyInv, EngAbort PROVE MoneyInv'
<1>1. /\ UNCHANGED <<intent, status, mark, row, dep, wd, sw, web>>
  BY DEF EngAbort, db
<1>2. MoneyFine /\ Claims
  BY <1>1, Bits, NothingMoves
<1>3. EngineSees'
  BY StopSees DEF EngAbort
<1> QED BY <1>1, <1>2, <1>3, QuietGateway, EngineTurn

LEMMA ReleaseGetMoney == ASSUME IInv, MoneyInv, EngReleaseGet PROVE MoneyInv'
<1>1. /\ eng.pc \in HasBooking \ {"create"} /\ EngineOnly
      /\ UNCHANGED <<intent, status, row>>
  BY DEF EngReleaseGet, HasBooking, EnginePcs, EngineOnly, gateway, db
<1>2. PICK b \in Bookings, k \in Ids : b = eng.b /\ k = eng.k
  BY <1>1, InHand
<1>3. EngineTypeOK /\ GatewayTypeOK
  BY <1>1, InHand
<1>4. PICK s : s = Get(b, k)
  OBVIOUS
<1>5. Charging(b)' => Pending(b, k)'
  <2>1. Charging(b) => Pending(b, k)
    BY <1>2, Sight DEF EngReleaseGet
  <2> QED BY <1>1, <2>1 DEF Charging, Pending
<1>6. CASE Goto("relCancel")
  <2>1. eng'.pc = "relCancel" /\ eng'.b = b /\ eng'.k = k
    BY <1>2, <1>3, <1>6, GotoFields
  <2>2. EngineSees'
    BY <1>5, <2>1, PendingSees
  <2> QED BY <1>1, <2>2, EngineReads
<1>7. CASE s \in ClosedIntents /\ Goto("relDb")
  <2>1. Closed(b, k)
    BY <1>3, <1>4, <1>7, GetMeans
  <2>2. Closed(b, k)'
    BY <1>1, <2>1 DEF Closed
  <2>3. eng'.pc = "relDb" /\ eng'.b = b /\ eng'.k = k
    BY <1>2, <1>3, <1>7, GotoFields
  <2>4. EngineSees'
    BY <1>5, <2>2, <2>3, ClosedSees
  <2> QED BY <1>1, <2>4, EngineReads
<1>8. CASE Resume("rel", FALSE)
  BY <1>1, <1>3, <1>8, ResumeSees, EngineReads
<1> QED BY <1>2, <1>4, <1>6, <1>7, <1>8 DEF EngReleaseGet

LEMMA ReleaseDbMoney == ASSUME IInv, MoneyInv, EngReleaseDb PROVE MoneyInv'
<1>1. /\ eng.pc \in HasBooking \ {"create"} /\ EngineDb /\ UNCHANGED intent
      /\ eng.pc = "relDb"
  BY DEF EngReleaseDb, HasBooking, EnginePcs, EngineDb, gateway
<1>2. PICK b \in Bookings, k \in Ids : b = eng.b /\ k = eng.k
  BY <1>1, InHand
<1>3. EngineTypeOK /\ DbTypeOK /\ \A c \in Bookings : MoneyOf(c)
  BY <1>1, InHand
<1>4. /\ Closed(b, k) /\ MoneyOf(b)
      /\ Charging(b) => Pending(b, k)
  BY <1>1, <1>2, Sight
<1>5. ReleaseAuthorization(b, k)
  BY <1>2 DEF EngReleaseDb
<1>6. DbKeeps(b) /\ ClaimsStay(b)
  BY <1>1, <1>3, <1>4, <1>5, ReleaseKeeps
<1>7. MoneyFine /\ Claims
  BY <1>1, <1>3, <1>6, KeepsLemma
<1>8. EngineSees'
  BY <1>3, ResumeSees DEF EngReleaseDb
<1> QED BY <1>1, <1>7, <1>8, EngineWrites

LEMMA ResolveMoney ==
  ASSUME IInv, MoneyInv, EngResolve \/ EngClose \/ EngAutoCancel
  PROVE  MoneyInv'
<1>1. /\ DbTypeOK /\ EngineDb /\ UNCHANGED intent
      /\ \A c \in Bookings : MoneyOf(c)
  BY BusyLemma, Bits DEF EngResolve, EngClose, EngAutoCancel, EngineDb, gateway
<1>2. MoneyFine /\ Claims
  <2>1. CASE \E r : ResolveDepartureMinimum(r)
    BY <1>1, <2>1, ResolveKeeps
  <2>2. CASE UNCHANGED db
    BY <1>1, <2>2, NothingMoves DEF db
  <2>3. CASE CloseDepartureCharge
    <3>1. dep'.cancelled = dep.cancelled
      BY <1>1, <2>3 DEF CloseDepartureCharge, DbTypeOK, Departure
    <3>2. UNCHANGED <<status, mark, row>>
      BY <2>3 DEF CloseDepartureCharge
    <3> QED BY <1>1, <3>1, <3>2, NothingMoves
  <2> QED BY <2>1, <2>2, <2>3 DEF EngResolve, EngClose, EngAutoCancel
<1>3. EngineSees'
  BY StopSees DEF EngResolve, EngClose, EngAutoCancel
<1> QED BY <1>1, <1>2, <1>3, EngineWrites

LEMMA EngineMoney ==
  ASSUME IInv, MoneyInv, EngineStep \/ EngAbort PROVE MoneyInv'
  BY BeginMoney, OpenMoney, FetchMoney, ClearMoney, LookupMoney, AdoptGetMoney,
     AttemptGetMoney, ClosePayMoney, CancellingMoney, CreateMoney, StartChargeMoney,
     ConfirmMoney, RegisterMoney, MarkMoney, CaptureMoney, RegetMoney, CapturedMoney,
     DecideMoney, ReleaseGetMoney, ReleaseDbMoney, ResolveMoney, AbortMoney
  DEF EngineStep

-----------------------------------------------------------------------------
(* watch-charges and close-payment-intents. *)

LEMMA OtherTurn ==
  ASSUME IInv, MoneyInv, UNCHANGED eng, MoneyFine, Outside, Calm,
         WatchSees', SweepSees', WebSees',
         eng.pc = "confirm" /\ wd'.pc # "idle" /\ wd'.b = eng.b => wd'.k # eng.k
  PROVE  MoneyInv'
  BY EngineKeeps DEF MoneyInv, MoneyFine

\* The watchdog keeps away from the intent that the engine is confirming.
KeepsAway == eng.pc = "confirm" /\ wd'.pc # "idle" /\ wd'.b = eng.b => wd'.k # eng.k

LEMMA WatchTurn ==
  ASSUME IInv, MoneyInv, UNCHANGED <<eng, sw, web>>, MoneyFine, Claims, Outside, Calm,
         WatchSees', KeepsAway
  PROVE  MoneyInv'
  BY OtherTurn, SweepKeeps, WebKeeps DEF KeepsAway

LEMMA WatchEnds ==
  ASSUME wd' = WatchIdle PROVE WatchSees' /\ KeepsAway
<1>1. wd'.pc = "idle"
  BY DEF WatchIdle
<1> QED BY <1>1 DEF WatchSees, KeepsAway

\* It goes on with the booking and the intent that it has.
LEMMA WatchGoesOn ==
  ASSUME MoneyInv, wd.pc # "idle", wd'.b = wd.b, wd'.k = wd.k PROVE KeepsAway
  BY DEF MoneyInv, EngineSees, KeepsAway

LEMMA WatchReads ==
  ASSUME IInv, MoneyInv, WatchOnly, WatchSees', KeepsAway
  PROVE  MoneyInv'
<1>1. UNCHANGED <<status, mark, row, dep, intent, eng, sw, web>>
  BY DEF WatchOnly, db, gateway
<1>2. MoneyFine /\ Claims /\ Outside
  BY <1>1, Bits, NothingMoves
<1> QED BY <1>1, <1>2, QuietGateway, WatchTurn

LEMMA WatchFetchMoney ==
  ASSUME IInv, MoneyInv, NEW b \in Bookings, WdInFlight(b) \/ WdUnpaid(b)
  PROVE  MoneyInv'
<1>1. PICK k : k = PendingOf(b)
  OBVIOUS
<1>2. k # NoId => k \in Ids /\ Pending(b, k)
  BY <1>1, FirstPending
<1>3. WatchOnly /\ UNCHANGED row
  BY DEF WdInFlight, WdUnpaid, WatchOnly, db
<1>4. /\ wd'.b = b /\ wd'.k = k
      /\ wd'.pc = "do" => wd'.act = "cancel"
  <2>1. CASE WdInFlight(b)
    <3>1. wd' = [WatchIdle EXCEPT !.pc = "get", !.b = b, !.k = k,
                                  !.challenge = Challenge(b), !.dead = Dead(b)]
      BY <1>1, <2>1 DEF WdInFlight
    <3> QED BY <3>1 DEF WatchIdle
  <2>2. CASE WdUnpaid(b)
    <3>1. PICK kind, dead, pc :
             wd' = [WatchIdle EXCEPT !.b = b, !.k = k, !.act = "cancel",
                                     !.kind = kind, !.dead = dead, !.pc = pc]
      BY <1>1, <2>2 DEF WdUnpaid
    <3> QED BY <3>1 DEF WatchIdle
  <2> QED BY <2>1, <2>2
<1>5. WatchSees'
  <2>1. k # NoId => row'[b, k] # "none"
    BY <1>2, <1>3 DEF Pending
  <2> QED BY <1>4, <2>1 DEF WatchSees
<1>6. KeepsAway
  <2>1. SUFFICES ASSUME eng.pc = "confirm", b = eng.b PROVE FALSE
    BY <1>4 DEF KeepsAway
  <2>2. CASE WdInFlight(b)
    BY <2>1, <2>2 DEF WdInFlight, InGrace
  <2>3. CASE WdUnpaid(b)
    <3>1. \/ status[b] = "pending_minimum"
          \/ status[b] = "pending_payment" /\ mark[b].auth
      BY <2>3 DEF WdUnpaid, HasAuthorization
    <3>2. PICK i \in Ids : i = eng.k
      BY <2>1, BusyLemma DEF HasBooking, EnginePcs
    <3>3. ConfirmReady(b, i)
      BY <2>1, <3>2, Sight
    <3> QED BY <3>1, <3>3 DEF ConfirmReady, Charging
  <2> QED BY <2>2, <2>3
<1> QED BY <1>3, <1>5, <1>6, WatchReads

LEMMA WatchGetMoney == ASSUME IInv, MoneyInv, WdGet PROVE MoneyInv'
<1>1. /\ wd \in WatchType /\ GatewayTypeOK /\ wd.pc # "idle"
      /\ wd.b \in Bookings /\ wd.k \in Ids
      /\ WatchOnly /\ UNCHANGED <<row, intent>>
  BY DEF IInv, TypeOK, WatchTypeOK, WdGet, WatchOnly, db, gateway
<1>2. PICK b \in Bookings, k \in Ids : b = wd.b /\ k = wd.k
  BY <1>1
<1>3. CASE wd' = WatchIdle
  BY <1>1, <1>3, WatchEnds, WatchReads
<1>4. PICK s : s = Get(b, k)
  OBVIOUS
<1>5. CASE \E a, d, l :
              /\ a = IF wd.kind = "inflight" THEN InFlightAct(s) ELSE UnpaidAct(s)
              /\ wd' = [wd EXCEPT !.pc = "do", !.act = a, !.challenge = "wait",
                                  !.dead = d, !.live = l]
  <2>1. PICK a, d, l :
              /\ a = IF wd.kind = "inflight" THEN InFlightAct(s) ELSE UnpaidAct(s)
              /\ wd' = [wd EXCEPT !.pc = "do", !.act = a, !.challenge = "wait",
                                  !.dead = d, !.live = l]
    BY <1>5
  <2>2. wd'.b = b /\ wd'.k = k /\ wd'.act = a
    BY <1>1, <1>2, <2>1 DEF WatchType
  <2>3. wd.challenge \notin {"record_retryable", "record_terminal"}
    BY <1>1 DEF WatchType, Reasons
  <2>4. a = "record_terminal" => s \in ClosedIntents
    BY <2>1, <2>3 DEF InFlightAct, UnpaidAct
  <2>5. a = "record_retryable" =>
           s \notin {"requires_capture", "requires_action", "succeeded", "processing"}
    BY <2>1, <2>3 DEF InFlightAct, UnpaidAct
  <2>6. /\ a = "record_terminal" => Closed(b, k)
        /\ a = "record_retryable" => Spent(b, k)
    BY <1>1, <1>4, <2>4, <2>5, GetMeans
  <2>7. row[b, k] # "none"
    BY <1>1, <1>2, NatLemma DEF MoneyInv, WatchSees
  <2>8. WatchSees'
    BY <1>1, <2>2, <2>6, <2>7 DEF WatchSees, Closed, Spent
  <2>9. KeepsAway
    BY <1>1, <1>2, <2>2, WatchGoesOn
  <2> QED BY <1>1, <2>8, <2>9, WatchReads
<1>6. \/ wd' = WatchIdle
      \/ \E a, d, l :
              /\ a = IF wd.kind = "inflight" THEN InFlightAct(s) ELSE UnpaidAct(s)
              /\ wd' = [wd EXCEPT !.pc = "do", !.act = a, !.challenge = "wait",
                                  !.dead = d, !.live = l]
  BY <1>2, <1>4 DEF WdGet
<1> QED BY <1>3, <1>5, <1>6

LEMMA WatchDoMoney == ASSUME IInv, MoneyInv, WdDo PROVE MoneyInv'
<1>1. /\ wd \in WatchType /\ DbTypeOK /\ BooksInv /\ wd.b \in Bookings
      /\ wd.k \in Ids \cup {NoId}
      /\ wd.act # "cancel" \/ wd.live => wd.k \in Ids
      /\ wd.pc # "idle"
      /\ UNCHANGED <<intent, eng, sw, web>>
      /\ \A c \in Bookings : MoneyOf(c)
  BY Bits DEF IInv, TypeOK, WatchTypeOK, WdDo, WatchType, gateway
<1>2. PICK b \in Bookings : b = wd.b
  BY <1>1
<1>3. MoneyOf(b)
  BY <1>1
<1>4. MoneyFine /\ Claims /\ Outside
  <2>1. CASE wd.act = "settle"
    <3>1. PICK k \in Ids : k = wd.k
      BY <1>1, <2>1
    <3>2. intent[b, k] = "succeeded"
      BY <1>2, <2>1, <3>1 DEF IInv, WatchKnows, WdDo
    <3>3. ConfirmBooking(b, k)
      BY <1>2, <2>1, <3>1 DEF WdDo
    <3>4. DbKeeps(b) /\ ClaimsStay(b) /\ OutsideOf(b)
      BY <1>1, <1>3, <3>2, <3>3, ConfirmKeeps
    <3> QED BY <1>1, <3>4, KeepsLemma
  <2>2. CASE wd.act = "register_action"
    <3>1. ChargeRequiresAction(wd.b, wd.k)
      BY <2>2 DEF WdDo
    <3> QED BY <1>1, <3>1, RequiresActionKeeps
  <2>3. CASE wd.act \in {"record_retryable", "record_terminal"}
    <3>1. PICK k \in Ids : k = wd.k
      BY <1>1, <2>3
    <3>2. PICK terminal \in BOOLEAN : terminal = (wd.act = "record_terminal")
      OBVIOUS
    <3>3. ChargeAttemptFailed(b, k, terminal)
      <4>1. CASE wd.act = "record_retryable"
        <5>1. ChargeAttemptFailed(b, k, FALSE)
          BY <1>2, <3>1, <4>1 DEF WdDo
        <5> QED BY <3>2, <4>1, <5>1
      <4>2. CASE wd.act = "record_terminal"
        <5>1. ChargeAttemptFailed(b, k, TRUE)
          BY <1>2, <3>1, <4>2 DEF WdDo
        <5> QED BY <3>2, <4>2, <5>1
      <4> QED BY <2>3, <4>1, <4>2
    <3>4. /\ wd.act = "record_retryable" => Spent(b, k)
          /\ wd.act = "record_terminal" => Closed(b, k)
      BY <1>2, <3>1 DEF MoneyInv, WatchSees, WdDo
    <3>5. Spent(b, k) /\ (terminal => Closed(b, k))
      BY <2>3, <3>2, <3>4 DEF Closed, Spent, ClosedIntents, Committed
    <3>6. DbKeeps(b) /\ ClaimsStay(b) /\ OutsideOf(b)
      BY <1>1, <1>2, <1>3, <3>1, <3>3, <3>5, AttemptFailedKeeps
    <3> QED BY <1>1, <3>6, KeepsLemma
  <2>4. CASE wd.act \notin {"settle", "register_action", "record_retryable",
                            "record_terminal"}
    <3>1. \/ UNCHANGED db
          \/ CanCancelUnpaid(b) /\ CancelUnpaidBooking(b)
          \/ Charging(b) /\ CancelChargeInFlight(b)
      BY <1>2, <2>4 DEF WdDo, CanWatchCancel, CanCancelInFlight, Charging
    <3>2. CASE UNCHANGED db
      BY <1>1, <3>2, NothingMoves DEF db
    <3>3. CASE CanCancelUnpaid(b) /\ CancelUnpaidBooking(b)
      <4>1. DbKeeps(b) /\ ClaimsStay(b) /\ OutsideOf(b)
        BY <1>1, <1>3, <3>3, CancelUnpaidKeeps
      <4> QED BY <1>1, <4>1, KeepsLemma
    <3>4. CASE Charging(b) /\ CancelChargeInFlight(b)
      <4>1. DbKeeps(b) /\ ClaimsStay(b) /\ OutsideOf(b)
        BY <1>1, <1>3, <3>4, CancelInFlightKeeps
      <4> QED BY <1>1, <4>1, KeepsLemma
    <3> QED BY <3>1, <3>2, <3>3, <3>4
  <2> QED BY <2>1, <2>2, <2>3, <2>4
<1>5. WatchSees' /\ KeepsAway
  <2>1. CASE wd' = WatchIdle
    BY <2>1, WatchEnds
  <2>2. CASE wd.live /\ wd' = [WatchIdle EXCEPT !.pc = "cancelIntent",
                                                !.b = wd.b, !.k = wd.k]
    <3>1. wd'.pc = "cancelIntent" /\ wd'.b = wd.b /\ wd'.k = wd.k
      BY <2>2 DEF WatchIdle
    <3>2. PICK k \in Ids : k = wd.k
      BY <1>1, <2>2
    <3>3. row[b, k] # "none"
      BY <1>1, <1>2, <3>2, NatLemma DEF MoneyInv, WatchSees
    <3>4. row'[b, k] # "none"
      BY <1>4, <3>3 DEF MoneyFine, RowsGrow
    <3>5. WatchSees'
      BY <1>2, <3>1, <3>2, <3>4 DEF WatchSees
    <3>6. KeepsAway
      BY <1>1, <3>1, WatchGoesOn
    <3> QED BY <3>5, <3>6
  <2> QED BY <2>1, <2>2 DEF WdDo
<1> QED BY <1>1, <1>4, <1>5, QuietGateway, WatchTurn

LEMMA WatchCallsMoney ==
  ASSUME IInv, MoneyInv, WdCancelIntent \/ WdAbort PROVE MoneyInv'
<1>1. /\ UNCHANGED <<status, mark, row, dep, eng, sw, web>> /\ wd' = WatchIdle
      /\ GatewayTypeOK /\ \A c \in Bookings : MoneyOf(c)
  BY Bits DEF WdCancelIntent, WdAbort, db, IInv, TypeOK
<1>2. IntentsSettle
  <2>1. CASE WdCancelIntent
    <3>1. PICK b \in Bookings, k \in Ids : b = wd.b /\ k = wd.k
      BY <2>1 DEF IInv, TypeOK, WatchTypeOK, WdCancelIntent
    <3>2. PICK ok \in BOOLEAN : CancelIntent(b, k, ok)
      BY <2>1, <3>1 DEF WdCancelIntent
    <3> QED BY <1>1, <3>2, CancelSettles
  <2>2. CASE WdAbort
    BY <2>2 DEF WdAbort, IntentsSettle, Settles
  <2> QED BY <2>1, <2>2
<1>3. MoneyFine /\ Claims /\ Outside /\ Calm
  BY <1>1, <1>2, GatewayKeeps
<1>4. WatchSees' /\ KeepsAway
  BY <1>1, WatchEnds
<1> QED BY <1>1, <1>3, <1>4, WatchTurn

LEMMA WatchMoney ==
  ASSUME IInv, MoneyInv, WatchStep \/ WdAbort PROVE MoneyInv'
  BY WatchFetchMoney, WatchGetMoney, WatchDoMoney, WatchCallsMoney DEF WatchStep

\* Nobody but the sweep moves when it does.
LEMMA SweepTurn ==
  ASSUME IInv, MoneyInv, UNCHANGED <<eng, wd, web>>, MoneyFine, Claims, Outside, Calm,
         SweepSees'
  PROVE  MoneyInv'
<1>1. eng.pc = "confirm" /\ wd'.pc # "idle" /\ wd'.b = eng.b => wd'.k # eng.k
  BY DEF MoneyInv, EngineSees
<1> QED BY <1>1, OtherTurn, WatchKeeps, WebKeeps

LEMMA SweepGetMoney ==
  ASSUME IInv, MoneyInv, NEW b \in Bookings, NEW k \in Ids, SwGet(b, k)
  PROVE  MoneyInv'
<1>1. /\ UNCHANGED <<status, mark, row, dep, intent, eng, wd, web>>
      /\ GatewayTypeOK /\ MoneyOf(b) /\ row[b, k] # "none"
      /\ \A c \in Bookings : MoneyOf(c)
  BY Bits DEF SwGet, db, gateway, IInv, TypeOK
<1>2. PICK s : s = Get(b, k)
  OBVIOUS
<1>3. /\ sw'.b = b /\ sw'.k = k /\ sw'.act = SweepAct(s)
      /\ SweepAct(s) # "wait"
  BY <1>2 DEF SwGet
<1>4. s \in Replies
  <2>1. RowFacts(b, k)
    BY <1>1 DEF MoneyOf, RowsOf
  <2>2. intent[b, k] # "none"
    BY <1>1, <2>1 DEF RowFacts
  <2> QED BY <1>1, <1>2, <2>2 DEF Get, GatewayTypeOK, Replies, IntentStates
<1>5. SweepAct(s) \notin {"settle", "cancel"} => s \in ClosedIntents
  BY <1>3, <1>4 DEF SweepAct, Confirmable, Replies, IntentStates, ClosedIntents
<1>6. SweepAct(s) \notin {"settle", "cancel"} => Closed(b, k)
  BY <1>1, <1>2, <1>5, GetMeans
<1>7. SweepSees'
  BY <1>1, <1>3, <1>6 DEF SweepSees, Closed
<1>8. MoneyFine /\ Claims /\ Outside
  BY <1>1, NothingMoves
<1> QED BY <1>1, <1>7, <1>8, QuietGateway, SweepTurn

LEMMA SweepDoMoney == ASSUME IInv, MoneyInv, SwDo \/ SwAbort PROVE MoneyInv'
<1>1. /\ DbTypeOK /\ GatewayTypeOK /\ BooksInv /\ UNCHANGED <<eng, wd, web>>
      /\ sw' = SweepIdle /\ \A c \in Bookings : MoneyOf(c)
  BY Bits DEF IInv, TypeOK, SwDo, SwAbort
<1>2. SweepSees'
  BY <1>1 DEF SweepSees, SweepIdle
<1>3. MoneyFine /\ Claims /\ Outside /\ Calm
  <2>1. CASE SwDo
    <3>1. PICK b \in Bookings, k \in Ids : b = sw.b /\ k = sw.k
      BY <2>1 DEF IInv, TypeOK, SweepTypeOK, SwDo
    <3>2. CASE sw.act = "settle"
      <4>1. ConfirmBooking(b, k) /\ UNCHANGED intent
        BY <2>1, <3>1, <3>2 DEF SwDo, gateway
      <4>2. intent[b, k] = "succeeded"
        BY <2>1, <3>1, <3>2 DEF IInv, SweepKnows, SwDo
      <4>3. DbKeeps(b) /\ ClaimsStay(b) /\ OutsideOf(b)
        BY <1>1, <4>1, <4>2, ConfirmKeeps
      <4> QED BY <1>1, <4>1, <4>3, KeepsLemma, QuietGateway
    <3>3. CASE sw.act = "cancel"
      <4>1. PICK ok \in BOOLEAN : CancelIntent(b, k, ok)
        BY <2>1, <3>1, <3>3 DEF SwDo
      <4>2. UNCHANGED <<status, mark, row, dep>>
        BY <2>1, <3>3 DEF SwDo, db
      <4>3. IntentsSettle
        BY <1>1, <4>1, CancelSettles
      <4> QED BY <1>1, <4>2, <4>3, GatewayKeeps
    <3>4. CASE sw.act \notin {"settle", "cancel"}
      <4>1. RecordIntentClosed(b, k) /\ UNCHANGED intent
        BY <2>1, <3>1, <3>4 DEF SwDo, gateway
      <4>2. Closed(b, k)
        BY <2>1, <3>1, <3>4 DEF MoneyInv, SweepSees, SwDo
      <4>3. DbKeeps(b) /\ ClaimsStay(b) /\ OutsideOf(b)
        BY <1>1, <4>1, <4>2, IntentClosedKeeps
      <4> QED BY <1>1, <4>1, <4>3, KeepsLemma, QuietGateway
    <3> QED BY <3>2, <3>3, <3>4
  <2>2. CASE SwAbort
    <3>1. UNCHANGED <<intent, status, mark, row, dep>>
      BY <2>2 DEF SwAbort, db
    <3> QED BY <1>1, <3>1, NothingMoves, QuietGateway
  <2> QED BY <2>1, <2>2
<1> QED BY <1>1, <1>2, <1>3, SweepTurn

-----------------------------------------------------------------------------
(* The web, one request at a time, whose queries answer. *)

LEMMA WebTurn ==
  ASSUME IInv, MoneyInv, UNCHANGED <<eng, wd, sw>>, MoneyFine, Outside, Calm, WebSees'
  PROVE  MoneyInv'
<1>1. eng.pc = "confirm" /\ wd'.pc # "idle" /\ wd'.b = eng.b => wd'.k # eng.k
  BY DEF MoneyInv, EngineSees
<1> QED BY <1>1, OtherTurn, WatchKeeps, SweepKeeps

LEMMA WebAlone ==
  ASSUME OneRequest, NEW c \in Callers, CallerSees(c)' PROVE WebSees'
<1>1. \A d \in Callers : CallerSees(d)'
  BY DEF OneRequest
<1> QED BY <1>1 DEF WebSees, CallerSees

\* It ends, or has not read its intent yet.
LEMMA WebQuiet ==
  ASSUME OneRequest, IInv, NEW c \in Callers, NEW r, WebOnly(c, r),
         r.pc \notin {"release", "check", "close"}
  PROVE  WebSees'
<1>1. web'[c] = r
  BY DEF WebOnly, IInv, TypeOK, WebTypeOK
<1>2. CallerSees(c)'
  BY <1>1 DEF CallerSees
<1> QED BY <1>2, WebAlone

LEMMA WebGoesOn ==
  ASSUME OneRequest, IInv, NEW c \in Callers, NEW b, NEW k,
         NEW pc \in {"release", "check", "close"}, web'[c].pc = pc,
         web'[c].b = b, web'[c].k = k,
         \A j \in Ids : Charging(b)' /\ mark'[b].claim # "none" /\ Pending(b, j)' =>
            IF pc = "close" THEN Closed(b, j)' ELSE j = k
  PROVE  WebSees'
<1>1. CallerSees(c)'
  BY DEF CallerSees, Charging, Pending, Closed
<1> QED BY <1>1, WebAlone

LEMMA WebEnded == WebIdle.pc = "idle" /\ "idle" \notin {"release", "check", "close"}
  BY DEF WebIdle

LEMMA WebClaimMoney ==
  ASSUME OneRequest, IInv, MoneyInv, NEW c \in Callers, NEW b \in Bookings,
         WebClaim(c, b)
  PROVE  MoneyInv'
<1>1. /\ DbTypeOK /\ UNCHANGED <<intent, eng, wd, sw>> /\ MoneyOf(b)
      /\ \A d \in Bookings : MoneyOf(d)
  BY Bits DEF IInv, TypeOK, WebClaim, WebDb, gateway
<1>2. MoneyFine /\ Outside
  <2>1. CASE CanClaim(b) /\ ClaimAuthorizationCancel(b)
    <3>1. DbKeeps(b) /\ OutsideOf(b)
      BY <1>1, <2>1, MarksKeep
    <3> QED BY <1>1, <3>1, KeepsLemma
  <2>2. CASE UNCHANGED db
    BY <1>1, <2>2, NothingMoves DEF db
  <2> QED BY <2>1, <2>2 DEF WebClaim
<1>3. WebSees'
  <2>1. PICK pc \in {"read", "unpaid"} :
            WebOnly(c, [WebIdle EXCEPT !.pc = pc, !.b = b])
    BY DEF WebClaim
  <2>2. [WebIdle EXCEPT !.pc = pc, !.b = b].pc = pc
    BY DEF WebIdle
  <2>3. pc \notin {"release", "check", "close"}
    OBVIOUS
  <2> QED BY <2>1, <2>2, <2>3, WebQuiet
<1> QED BY <1>1, <1>2, <1>3, QuietGateway, WebTurn

LEMMA WebEndMoney ==
  ASSUME OneRequest, IInv, MoneyInv, NEW c \in Callers,
         WebUnpaid(c) \/ WebUnclaim(c) \/ WebClose(c)
  PROVE  MoneyInv'
<1>1. /\ DbTypeOK /\ UNCHANGED <<intent, eng, wd, sw>>
      /\ WebOnly(c, WebIdle) /\ web[c].b \in Bookings
      /\ \A d \in Bookings : MoneyOf(d)
  BY Bits DEF IInv, TypeOK, WebTypeOK, WebUnpaid, WebUnclaim, WebClose, WebDb, gateway
<1>2. WebSees'
  BY <1>1, WebEnded, WebQuiet
<1>3. PICK b \in Bookings : b = web[c].b
  BY <1>1
<1>4. MoneyOf(b)
  BY <1>1
<1>5. MoneyFine /\ Outside
  <2>1. CASE UNCHANGED db
    BY <1>1, <2>1, NothingMoves DEF db
  <2>2. CASE CanCancelUnpaid(b) /\ CancelUnpaidBooking(b)
    <3>1. DbKeeps(b) /\ OutsideOf(b)
      BY <1>1, <1>4, <2>2, CancelUnpaidKeeps
    <3> QED BY <1>1, <3>1, KeepsLemma
  <2>3. CASE Unclaim(b)
    <3>1. DbKeeps(b) /\ OutsideOf(b)
      BY <1>1, <1>4, <2>3, MarksKeep
    <3> QED BY <1>1, <3>1, KeepsLemma
  <2>4. CASE WebClose(c) /\ CanCancelAuthorized(b) /\ CancelAuthorizedBooking(b)
    <3>1. Charging(b) /\ mark[b].claim # "none"
      BY <2>4 DEF CanCancelAuthorized, Charging
    <3>2. \A j \in Ids : Pending(b, j) => Closed(b, j)
      BY <1>3, <2>4, <3>1 DEF MoneyInv, WebSees, WebClose
    <3>3. DbKeeps(b) /\ OutsideOf(b)
      BY <1>1, <1>4, <2>4, <3>2, CancelAuthorizedKeeps
    <3> QED BY <1>1, <3>3, KeepsLemma
  <2> QED BY <1>3, <2>1, <2>2, <2>3, <2>4 DEF WebUnpaid, WebUnclaim, WebClose
<1> QED BY <1>1, <1>2, <1>5, QuietGateway, WebTurn

LEMMA WebFields ==
  ASSUME WebTypeOK, NEW c \in Callers, NEW pc, NEW k
  PROVE  /\ WebOnly(c, [web[c] EXCEPT !.pc = pc]) =>
               /\ web'[c].pc = pc /\ web'[c].b = web[c].b /\ web'[c].k = web[c].k
         /\ WebOnly(c, [web[c] EXCEPT !.k = k, !.pc = pc]) =>
               /\ web'[c].pc = pc /\ web'[c].b = web[c].b /\ web'[c].k = k
<1>1. web[c] \in WebType
  BY DEF WebTypeOK
<1>2. \A r : WebOnly(c, r) => web'[c] = r
  BY DEF WebTypeOK, WebOnly
<1>3. /\ [web[c] EXCEPT !.pc = pc].pc = pc
      /\ [web[c] EXCEPT !.pc = pc].b = web[c].b
      /\ [web[c] EXCEPT !.pc = pc].k = web[c].k
  BY <1>1 DEF WebType
<1>4. /\ [web[c] EXCEPT !.k = k, !.pc = pc].pc = pc
      /\ [web[c] EXCEPT !.k = k, !.pc = pc].b = web[c].b
      /\ [web[c] EXCEPT !.k = k, !.pc = pc].k = k
  BY <1>1 DEF WebType
<1> QED BY <1>2, <1>3, <1>4

LEMMA WebReadMoney ==
  ASSUME OneRequest, ReadFaults = FALSE, IInv, MoneyInv, NEW c \in Callers, WebRead(c)
  PROVE  MoneyInv'
<1>1. /\ UNCHANGED <<status, mark, row, dep, intent, eng, wd, sw>>
      /\ WebTypeOK /\ web[c].b \in Bookings
      /\ \A d \in Bookings : MoneyOf(d)
  BY Bits DEF IInv, TypeOK, WebTypeOK, WebRead, WebDb, db, gateway
<1>2. PICK b \in Bookings : b = web[c].b
  BY <1>1
<1>3. PICK k : k = PendingOf(b)
  OBVIOUS
<1>4. WebOnly(c, [web[c] EXCEPT !.k = k, !.pc = IF k = NoId THEN "close" ELSE "release"])
  BY <1>2, <1>3 DEF WebRead
<1>5. WebSees'
  <2>1. CASE k = NoId
    <3>1. WebOnly(c, [web[c] EXCEPT !.k = k, !.pc = "close"])
      BY <1>4, <2>1
    <3>2. web'[c].pc = "close" /\ web'[c].b = b /\ web'[c].k = k
      <4>1. web \in [Callers -> WebType]
        BY <1>1 DEF WebTypeOK
      <4>2. web'[c] = [web[c] EXCEPT !.k = k, !.pc = "close"]
        BY <3>1, <4>1 DEF WebOnly
      <4> QED BY <1>2, <4>1, <4>2 DEF WebType
    <3>3. \A j \in Ids : ~Pending(b, j)'
      <4>1. \A j \in Ids : ~Pending(b, j)
        BY <1>3, <2>1, FirstPending
      <4> QED BY <1>1, <4>1 DEF Pending
    <3> QED BY <3>2, <3>3, WebGoesOn
  <2>2. CASE k # NoId
    <3>1. WebOnly(c, [web[c] EXCEPT !.k = k, !.pc = "release"])
      BY <1>4, <2>2
    <3>2. web'[c].pc = "release" /\ web'[c].b = b /\ web'[c].k = k
      <4>1. web \in [Callers -> WebType]
        BY <1>1 DEF WebTypeOK
      <4>2. web'[c] = [web[c] EXCEPT !.k = k, !.pc = "release"]
        BY <3>1, <4>1 DEF WebOnly
      <4> QED BY <1>2, <4>1, <4>2 DEF WebType
    <3>3. \A j \in Ids : Pending(b, j)' => j = k
      <4>1. k \in Ids /\ Pending(b, k)
        BY <1>3, <2>2, FirstPending
      <4>2. \A j \in Ids : Pending(b, j) => j = k
        BY <1>1, <4>1 DEF MoneyOf, RowsOf
      <4> QED BY <1>1, <4>2 DEF Pending
    <3> QED BY <3>2, <3>3, WebGoesOn
  <2> QED BY <2>1, <2>2
<1>6. MoneyFine /\ Outside
  BY <1>1, NothingMoves
<1> QED BY <1>1, <1>5, <1>6, QuietGateway, WebTurn

LEMMA WebCallMoney ==
  ASSUME OneRequest, IInv, MoneyInv, NEW c \in Callers, WebRelease(c) \/ WebCheck(c)
  PROVE  MoneyInv'
<1>1. /\ UNCHANGED <<status, mark, row, dep, eng, wd, sw>>
      /\ GatewayTypeOK /\ WebTypeOK /\ web[c].b \in Bookings /\ web[c].k \in Ids
      /\ web[c].pc \in {"release", "check"}
      /\ \A d \in Bookings : MoneyOf(d)
  BY Bits DEF IInv, TypeOK, WebTypeOK, WebRelease, WebCheck, db
<1>2. PICK b \in Bookings, k \in Ids : b = web[c].b /\ k = web[c].k
  BY <1>1
<1>3. \A j \in Ids : Charging(b)' /\ mark'[b].claim # "none" /\ Pending(b, j)' => j = k
  <2>1. \A j \in Ids : Charging(b) /\ mark[b].claim # "none" /\ Pending(b, j) => j = k
    BY <1>1, <1>2 DEF MoneyInv, WebSees
  <2> QED BY <1>1, <2>1 DEF Charging, Pending
<1>4. PICK pc \in {"close", "check", "unclaim"} :
         /\ WebOnly(c, [web[c] EXCEPT !.pc = pc])
         /\ \/ \E ok \in BOOLEAN : CancelIntent(b, k, ok) /\ (pc = "close" => ok)
            \/ /\ UNCHANGED intent
               /\ pc = "close" => Get(b, k) \in ClosedIntents
  <2>1. CASE WebRelease(c)
    BY <1>2, <2>1 DEF WebRelease
  <2>2. CASE WebCheck(c)
    BY <1>2, <2>2 DEF WebCheck
  <2> QED BY <2>1, <2>2
<1>5. IntentsSettle /\ (pc = "close" => Closed(b, k)')
  <2>1. CASE \E ok \in BOOLEAN : CancelIntent(b, k, ok) /\ (pc = "close" => ok)
    BY <1>1, <2>1, CancelSettles
  <2>2. CASE UNCHANGED intent /\ (pc = "close" => Get(b, k) \in ClosedIntents)
    <3>1. IntentsSettle
      BY <2>2 DEF IntentsSettle, Settles
    <3>2. PICK s : s = Get(b, k)
      OBVIOUS
    <3>3. pc = "close" => Closed(b, k)
      BY <1>1, <2>2, <3>2, GetMeans
    <3> QED BY <2>2, <3>1, <3>3 DEF Closed
  <2> QED BY <1>4, <2>1, <2>2
<1>6. WebSees'
  <2>1. web'[c].pc = pc /\ web'[c].b = b /\ web'[c].k = k
    BY <1>1, <1>2, <1>4, WebFields
  <2>2. CASE pc = "unclaim"
    <3>1. CallerSees(c)'
      BY <2>1, <2>2 DEF CallerSees
    <3> QED BY <3>1, WebAlone
  <2>3. CASE pc \in {"close", "check"}
    <3>1. \A j \in Ids : Charging(b)' /\ mark'[b].claim # "none" /\ Pending(b, j)' =>
             IF pc = "close" THEN Closed(b, j)' ELSE j = k
      BY <1>3, <1>5
    <3> QED BY <2>1, <2>3, <3>1, WebGoesOn
  <2> QED BY <2>2, <2>3
<1>7. MoneyFine /\ Outside /\ Calm
  BY <1>1, <1>5, GatewayKeeps
<1> QED BY <1>1, <1>6, <1>7, WebTurn

LEMMA WebMoney ==
  ASSUME OneRequest, ReadFaults = FALSE, IInv, MoneyInv, NEW c \in Callers,
         WebStep(c) \/ WebCrash(c)
  PROVE  MoneyInv'
<1>1. CASE WebStep(c)
  BY <1>1, WebClaimMoney, WebEndMoney, WebReadMoney, WebCallMoney DEF WebStep
<1>2. CASE WebCrash(c)
  <2>1. /\ UNCHANGED <<status, mark, row, dep, intent, eng, wd, sw>>
        /\ WebOnly(c, WebIdle)
    BY <1>2 DEF WebCrash, db
  <2>2. WebSees'
    BY <2>1, WebEnded, WebQuiet
  <2>3. MoneyFine /\ Outside
    BY <2>1, Bits, NothingMoves
  <2> QED BY <2>1, <2>2, <2>3, QuietGateway, WebTurn
<1> QED BY <1>1, <1>2

-----------------------------------------------------------------------------
(* The rest of the world. *)

LEMMA ElsewhereTurn ==
  ASSUME IInv, MoneyInv, Elsewhere, MoneyFine, Claims, Outside, Calm PROVE MoneyInv'
  BY WebTurn, WebKeeps DEF Elsewhere

LEMMA EnvironmentMoney == ASSUME IInv, MoneyInv, Environment PROVE MoneyInv'
<1>1. DbTypeOK /\ GatewayTypeOK /\ BooksInv /\ \A c \in Bookings : MoneyOf(c)
  BY Bits DEF IInv, TypeOK
<1>2. ASSUME NEW b \in Bookings, Book(b) \/ CancelPaid(b) \/ MarkGrowsOld(b)
      PROVE  MoneyInv'
  <2>1. UNCHANGED intent /\ Elsewhere /\ MoneyOf(b)
    BY <1>1, <1>2 DEF Book, CancelPaid, MarkGrowsOld, gateway
  <2>2. DbKeeps(b) /\ ClaimsStay(b) /\ OutsideOf(b)
    BY <1>1, <1>2, <2>1, BookKeeps, CancelPaidKeeps, MarkAgesKeeps
    DEF Book, CancelPaid
  <2>3. MoneyFine /\ Claims /\ Outside
    BY <1>1, <2>1, <2>2, KeepsLemma
  <2> QED BY <2>1, <2>3, QuietGateway, ElsewhereTurn
<1>3. ASSUME NEW r \in {"staff_confirmed", "staff_cancelled"}, StaffDecides(r)
      PROVE  MoneyInv'
  <2>1. UNCHANGED intent /\ Elsewhere /\ ResolveDepartureMinimum(r)
    BY <1>3 DEF StaffDecides, gateway
  <2>2. MoneyFine /\ Claims /\ Outside
    BY <1>1, <2>1, ResolveKeeps
  <2> QED BY <2>1, <2>2, QuietGateway, ElsewhereTurn
<1>4. ASSUME NEW b \in Bookings, NEW k \in Ids, Webhook(b, k)
      PROVE  MoneyInv'
  <2>1. /\ UNCHANGED intent /\ Elsewhere /\ ConfirmBooking(b, k)
        /\ intent[b, k] = "succeeded" /\ MoneyOf(b)
    BY <1>1, <1>4 DEF Webhook, gateway
  <2>2. DbKeeps(b) /\ ClaimsStay(b) /\ OutsideOf(b)
    BY <1>1, <2>1, ConfirmKeeps
  <2>3. MoneyFine /\ Claims /\ Outside
    BY <1>1, <2>1, <2>2, KeepsLemma
  <2> QED BY <2>1, <2>3, QuietGateway, ElsewhereTurn
<1>5. ASSUME NEW b \in Bookings, NEW k \in Ids, GatewayMoves(b, k)
      PROVE  MoneyInv'
  <2>1. UNCHANGED <<status, mark, row, dep>> /\ Elsewhere
    BY <1>5 DEF GatewayMoves, db
  <2>2. IntentsSettle
    BY <1>1, <1>5, MovesSettle
  <2>3. MoneyFine /\ Claims /\ Outside /\ Calm
    BY <1>1, <2>1, <2>2, GatewayKeeps
  <2> QED BY <2>1, <2>3, ElsewhereTurn
<1>6. CASE TimePasses
  <2>1. UNCHANGED <<intent, status, mark, row, dep>> /\ Elsewhere
    BY <1>6 DEF TimePasses, Tick, gateway
  <2>2. MoneyFine /\ Claims /\ Outside
    BY <1>1, <2>1, NothingMoves
  <2> QED BY <2>1, <2>2, QuietGateway, ElsewhereTurn
<1> QED BY <1>2, <1>3, <1>4, <1>5, <1>6 DEF Environment

-----------------------------------------------------------------------------
(* The theorems.                                                           *)

LEMMA InitMoney == Init => MoneyInv
<1> SUFFICES ASSUME Init PROVE MoneyInv
  OBVIOUS
<1>1. ASSUME NEW b \in Bookings PROVE MoneyOf(b)
  <2>1. /\ status[b] = "absent" /\ mark[b] = NoMarks /\ ~dep.cancelled
        /\ \A k \in Ids : row[b, k] = "none" /\ intent[b, k] = "none"
    BY DEF Init, DbInit
  <2> QED BY <2>1 DEF MoneyOf, RowsOf, RowFacts, TrackedOf, OnceOf, Pending, Charging,
                      Closed, WasHeld, Spent, Committed, Live
<1>2. EngineSees
  BY DEF Init, EngineIdle, EngineSees
<1>3. WatchSees /\ SweepSees
  BY DEF Init, WatchIdle, WatchSees, SweepIdle, SweepSees
<1>4. WebSees
  BY DEF Init, WebIdle, WebSees
<1> QED BY <1>1, <1>2, <1>3, <1>4 DEF MoneyInv

LEMMA NextMoney ==
  ASSUME OneRequest, ReadFaults = FALSE, IInv, MoneyInv, [Next]_vars PROVE MoneyInv'
<1>1. CASE EngineStep \/ EngAbort
  BY <1>1, EngineMoney
<1>2. CASE WatchStep \/ WdAbort
  BY <1>2, WatchMoney
<1>3. CASE SweepStep \/ SwAbort
  BY <1>3, SweepGetMoney, SweepDoMoney DEF SweepStep
<1>4. ASSUME NEW c \in Callers, WebStep(c) \/ WebCrash(c)
      PROVE  MoneyInv'
  BY <1>4, WebMoney
<1>5. CASE Environment
  BY <1>5, EnvironmentMoney
<1>6. CASE UNCHANGED vars
  <2>1. UNCHANGED <<intent, status, mark, row, dep>> /\ Elsewhere
    BY <1>6 DEF vars, Elsewhere, gateway, db
  <2>2. MoneyFine /\ Claims /\ Outside
    BY <2>1, Bits, NothingMoves
  <2> QED BY <2>1, <2>2, QuietGateway, ElsewhereTurn
<1> QED BY <1>1, <1>2, <1>3, <1>4, <1>5, <1>6 DEF Next, Crash

\* The inductive invariant of the money of a charge: rows, marks and intents of
\* every booking agree, and what a process learnt of an intent still holds when
\* it acts on it.
THEOREM MoneyInductive ==
  ASSUME OneRequest, ReadFaults = FALSE PROVE Spec => []MoneyInv
<1>1. Init => MoneyInv
  BY InitMoney
<1>2. IInv /\ MoneyInv /\ [Next]_vars => MoneyInv'
  BY NextMoney
<1> QED BY <1>1, <1>2, Inductive, PTL DEF Spec

\* Money that the gateway holds or took is always on the list of a job: no
\* interleaving of the jobs, a cancelling request, the webhook and the staff
\* leaves a hold whose row nobody reads again.
THEOREM MoneyTracked ==
  ASSUME OneRequest, ReadFaults = FALSE PROVE Spec => []MoneyIsTracked
<1>1. MoneyInv => MoneyIsTracked
  BY DEF MoneyInv, MoneyOf, TrackedOf, MoneyIsTracked, Pending, Charging
<1> QED BY <1>1, MoneyInductive, PTL

\* A booking has one intent at most that holds or takes money: the engine never
\* confirms another while an older attempt may still succeed.
THEOREM HeldByOne ==
  ASSUME OneRequest, ReadFaults = FALSE PROVE Spec => []HeldOnce
<1>1. MoneyInv => HeldOnce
  BY DEF MoneyInv, MoneyOf, OnceOf, HeldOnce, Spent
<1> QED BY <1>1, MoneyInductive, PTL

\* A row is only marked closed when its intent is dead at the gateway: nobody
\* looks at such a row again, so a wrong mark would lose the hold.
THEOREM ClosedIsDead ==
  ASSUME OneRequest, ReadFaults = FALSE PROVE Spec => []ClosedRowIsDead
<1>1. MoneyInv => ClosedRowIsDead
  BY DEF MoneyInv, MoneyOf, RowsOf, RowFacts, Closed, ClosedRowIsDead
<1> QED BY <1>1, MoneyInductive, PTL

-----------------------------------------------------------------------------
(* The life of the bookings: what the processes do to the rows is what     *)
(* BookingLife allows.                                                     *)

LifeStep == [Life \/ CancelledElsewhere]_db

\* Nothing charges a booking again whose time is over: unless it is paid or
\* cancelled it stays as it is, and the watchdog finds it.
Over(b) == Started \/ status[b] \in {"confirmed", "cancelled"} \/ RecoveryExpired(b)

\* The deadline of a departure is set while its cycle is open, and only closing
\* the cycle takes it away.
DeadlineSet == dep.triggered => dep.deadline # Null
DeadlineStays ==
    /\ now' \in {now, now + 1}
    /\ dep.triggered => dep'.triggered /\ dep'.deadline = dep.deadline
DepStays == DeadlineStays /\ (DeadlineSet => DeadlineSet')

Releasing == {"rel0", "rel", "relGet", "relCancel", "relDb", "close", "autoCancel"}

\* The engine lets holds go only in a run that found the deadline over.
EngineLate ==
    /\ eng.pc # "idle" /\ eng.mode = "late" => PastDeadline
    /\ eng.pc \in Releasing => eng.mode = "late"
    /\ eng.pc = "decide" => eng.mode # "resolved"

WatchLate == wd.pc # "idle" /\ wd.kind = "unpaid" => Over(wd.b)

LateInv == DeadlineSet /\ EngineLate /\ WatchLate

-----------------------------------------------------------------------------
(* A booking whose time is over stays over.                                *)

\* What a function may do to a booking that waits for its charge
Rests(c) ==
    status[c] = "pending_minimum" =>
        \/ status'[c] \in {"confirmed", "cancelled"}
        \/ /\ status'[c] = "pending_minimum"
           /\ sched'[c].attempts = sched[c].attempts
           /\ sched'[c].recovery = sched[c].recovery
        \/ ~RecoveryExpired(c)
Ends(c) == status[c] \in {"confirmed", "cancelled"} =>
               status'[c] \in {"confirmed", "cancelled"}

LEMMA OverLemma ==
  ASSUME DbTypeOK, NEW c \in Bookings, Rests(c), Ends(c), now' \in {now, now + 1},
         Over(c)
  PROVE  Over(c)'
<1>1. now \in Nat /\ now' \in Nat /\ now <= now' /\ Start \in Nat
  BY TimesAssumption DEF DbTypeOK, Times
<1>2. CASE Started
  BY <1>1, <1>2 DEF Started, Over
<1>3. CASE status[c] \in {"confirmed", "cancelled"}
  BY <1>3 DEF Ends, Over
<1>4. CASE RecoveryExpired(c)
  <2>1. sched[c].recovery \in Times /\ sched[c].recovery <= now
    BY <1>4 DEF RecoveryExpired, DbTypeOK, Agenda
  <2>2. sched[c].recovery <= now'
    BY <1>1, <2>1 DEF Times
  <2> QED BY <1>4, <2>2 DEF Rests, RecoveryExpired, Over
<1> QED BY <1>2, <1>3, <1>4 DEF Over

\* A function that changes the status or the agenda of one booking at most
LEMMA OnlyOne ==
  ASSUME DbTypeOK, NEW b \in Bookings, UNCHANGED now,
         \A c \in Bookings : c # b => status'[c] = status[c] /\ sched'[c] = sched[c],
         Rests(b), Ends(b)
  PROVE  \A c \in Bookings : Over(c) => Over(c)'
<1>1. \A c \in Bookings : c # b => Rests(c) /\ Ends(c)
  BY DEF Rests, Ends, RecoveryExpired
<1> QED BY <1>1, OverLemma

LEMMA NothingOver ==
  ASSUME UNCHANGED <<now, status, sched>>
  PROVE  \A c \in Bookings : Over(c) => Over(c)'
  BY DEF Over, Started, RecoveryExpired

LEMMA ChargeOver ==
  ASSUME DbTypeOK, NEW b \in Bookings, Charge(b)
  PROVE  (\A c \in Bookings : Over(c) => Over(c)') /\ UNCHANGED dep
<1>1. PICK k \in Ids :
        \/ CanStart(b, k) /\ row[b, k] \in {"none", "pending"}
           /\ ChargeBookingStart(b, k)
        \/ CanAuthorize(b, k) /\ RecordAuthorization(b, k)
        \/ row[b, k] = "pending" /\ ChargeRequiresAction(b, k)
        \/ /\ CanFailAttempt(b, k)
           /\ \E terminal \in BOOLEAN : ChargeAttemptFailed(b, k, terminal)
        \/ CanClosePending(b, k) /\ ClosePendingPayment(b, k)
  BY DEF Charge
<1>2. CASE CanStart(b, k) /\ ChargeBookingStart(b, k)
  <2>1. status[b] = "pending_minimum" /\ ~RecoveryExpired(b)
    <3>1. sched[b].recovery # Null => sched[b].recovery > now
      BY <1>2 DEF CanStart
    <3>2. sched[b].recovery \in Times \cup {Null} /\ now \in Times
      BY DEF DbTypeOK, Agenda
    <3> QED BY <1>2, <3>1, <3>2 DEF CanStart, RecoveryExpired, Times
  <2>2. Rests(b) /\ Ends(b)
    BY <2>1 DEF Rests, Ends
  <2>3. \A c \in Bookings : c # b => status'[c] = status[c] /\ sched'[c] = sched[c]
    BY <1>2 DEF ChargeBookingStart, DbTypeOK
  <2> QED BY <1>2, <2>2, <2>3, OnlyOne DEF ChargeBookingStart
<1>3. CASE RecordAuthorization(b, k)
  BY <1>3, NothingOver DEF RecordAuthorization
<1>4. CASE ChargeRequiresAction(b, k)
  <2>1. \A c \in Bookings : c # b => status'[c] = status[c] /\ sched'[c] = sched[c]
    BY <1>4 DEF ChargeRequiresAction, DbTypeOK
  <2>2. Rests(b) /\ Ends(b)
    BY <1>4 DEF ChargeRequiresAction, DbTypeOK, Rests, Ends
  <2> QED BY <1>4, <2>1, <2>2, OnlyOne DEF ChargeRequiresAction
<1>5. CASE CanFailAttempt(b, k) /\ \E t \in BOOLEAN : ChargeAttemptFailed(b, k, t)
  <2>1. \A c \in Bookings : c # b => status'[c] = status[c] /\ sched'[c] = sched[c]
    BY <1>5 DEF ChargeAttemptFailed, DbTypeOK, db
  <2>2. Rests(b) /\ Ends(b)
    BY <1>5 DEF CanFailAttempt, Rests, Ends
  <2> QED BY <1>5, <2>1, <2>2, OnlyOne DEF ChargeAttemptFailed, db
<1>6. CASE ClosePendingPayment(b, k)
  BY <1>6, NothingOver DEF ClosePendingPayment
<1> QED BY <1>1, <1>2, <1>3, <1>4, <1>5, <1>6

LEMMA CancelsOver ==
  ASSUME DbTypeOK, NEW b \in Bookings,
         status' = [status EXCEPT ![b] = "cancelled"], UNCHANGED <<now, dep>>,
         \A c \in Bookings : c # b => sched'[c] = sched[c]
  PROVE  (\A c \in Bookings : Over(c) => Over(c)') /\ UNCHANGED dep
<1>1. \A c \in Bookings : c # b => status'[c] = status[c] /\ sched'[c] = sched[c]
  BY DEF DbTypeOK
<1>2. Rests(b) /\ Ends(b)
  BY DEF Rests, Ends, DbTypeOK
<1> QED BY <1>1, <1>2, OnlyOne

LEMMA SettleOver ==
  ASSUME DbTypeOK, NEW b \in Bookings, NEW k \in Ids, ConfirmBooking(b, k)
  PROVE  (\A c \in Bookings : Over(c) => Over(c)') /\ UNCHANGED dep
<1>1. \A c \in Bookings : c # b => status'[c] = status[c] /\ sched'[c] = sched[c]
  BY DEF ConfirmBooking, DbTypeOK
<1>2. ConfirmOutcome(b, k) = "confirmed" => Live(b)
  BY DEF ConfirmOutcome
<1>3. \/ status'[b] = status[b] /\ sched'[b] = sched[b]
      \/ Live(b) /\ status'[b] \in {"confirmed", "cancelled"}
  <2>1. CASE ConfirmOutcome(b, k) = "confirmed"
    BY <1>2, <2>1 DEF ConfirmBooking, DbTypeOK
  <2>2. CASE ConfirmOutcome(b, k) # "confirmed"
    BY <2>2 DEF ConfirmBooking, DbTypeOK
  <2> QED BY <2>1, <2>2
<1>4. Rests(b) /\ Ends(b)
  BY <1>3 DEF Rests, Ends, Live
<1> QED BY <1>1, <1>4, OnlyOne DEF ConfirmBooking

LEMMA TickOver ==
  ASSUME DbTypeOK, Tick
  PROVE  (\A c \in Bookings : Over(c) => Over(c)') /\ UNCHANGED dep
<1>1. \A c \in Bookings : /\ sched'[c].attempts = sched[c].attempts
                          /\ sched'[c].recovery = sched[c].recovery
  <2>1. PICK due \in SUBSET {b \in Bookings : sched[b].next = "later"} :
           sched' = [b \in Bookings |->
             [sched[b] EXCEPT !.started = IF @ = "recent" THEN "old" ELSE @,
                              !.next    = IF b \in due THEN "due" ELSE @]]
    BY DEF Tick
  <2>2. \A c \in Bookings : DOMAIN sched[c] =
           {"started", "attempts", "next", "recovery", "awaiting"}
    BY DEF DbTypeOK, Agenda
  <2> QED BY <2>1, <2>2
<1>2. \A c \in Bookings : Rests(c) /\ Ends(c)
  BY <1>1 DEF Tick, Rests, Ends
<1> QED BY <1>2, OverLemma DEF Tick

LEMMA ResolveOver ==
  ASSUME DbTypeOK, NEW r, ResolveDepartureMinimum(r)
  PROVE  (\A c \in Bookings : Over(c) => Over(c)') /\ DepStays
<1>1. DepStays
  <2>1. /\ dep'.triggered = dep.triggered /\ dep'.deadline = dep.deadline
        /\ now' = now
    BY DEF ResolveDepartureMinimum, DbTypeOK, Departure
  <2> QED BY <2>1 DEF DepStays, DeadlineStays, DeadlineSet
<1>2. CASE Cancelling(r)
  <2>1. /\ status' = [b \in Bookings |->
                IF status[b] = "absent" THEN "absent" ELSE "cancelled"]
        /\ now' = now
    BY <1>2 DEF ResolveDepartureMinimum
  <2>2. \A c \in Bookings : Rests(c) /\ Ends(c)
    BY <2>1 DEF Rests, Ends
  <2> QED BY <1>1, <2>1, <2>2, OverLemma
<1>3. CASE ~Cancelling(r)
  BY <1>1, <1>3, NothingOver DEF ResolveDepartureMinimum
<1> QED BY <1>2, <1>3

LEMMA CycleOver ==
  ASSUME DbTypeOK, Cycle \/ StaffResolves
  PROVE  /\ \A c \in Bookings : Over(c) => Over(c)'
         /\ DeadlineSet => DeadlineSet'
<1>1. CASE OpenDepartureCharge
  <2>1. CycleDeadline \in Times
    BY TimesLemma DEF DbTypeOK
  <2>2. dep'.deadline # Null
    BY <1>1, <2>1 DEF OpenDepartureCharge, DbTypeOK, Departure, Times, Null
  <2> QED BY <1>1, <2>2, NothingOver DEF OpenDepartureCharge, DeadlineSet
<1>2. CASE CloseDepartureCharge
  <2>1. DeadlineSet => DeadlineSet'
    BY <1>2 DEF CloseDepartureCharge, DbTypeOK, Departure, DeadlineSet
  <2> QED BY <1>2, <2>1, NothingOver DEF CloseDepartureCharge
<1>3. ASSUME NEW r, ResolveDepartureMinimum(r)
      PROVE  /\ \A c \in Bookings : Over(c) => Over(c)'
             /\ DeadlineSet => DeadlineSet'
  BY <1>3, ResolveOver DEF DepStays
<1>4. ASSUME NEW b \in Bookings, NEW k \in Ids, row[b, k] = "pending",
             ReleaseAuthorization(b, k)
      PROVE  /\ \A c \in Bookings : Over(c) => Over(c)'
             /\ DeadlineSet => DeadlineSet'
  <2>1. CASE status[b] # "pending_payment"
    BY <1>4, <2>1, NothingOver DEF ReleaseAuthorization, db, DeadlineSet
  <2>2. CASE status[b] = "pending_payment"
    <3>1. \A c \in Bookings : c # b => status'[c] = status[c] /\ sched'[c] = sched[c]
      BY <1>4, <2>2 DEF ReleaseAuthorization, DbTypeOK
    <3>2. Rests(b) /\ Ends(b)
      BY <2>2 DEF Rests, Ends
    <3> QED BY <1>4, <2>2, <3>1, <3>2, OnlyOne DEF ReleaseAuthorization, DeadlineSet
  <2> QED BY <2>1, <2>2
<1> QED BY <1>1, <1>2, <1>3, <1>4 DEF Cycle, StaffResolves, PendingIds

LEMMA LifeOver ==
  ASSUME DbTypeOK, LifeStep
  PROVE  /\ \A c \in Bookings : Over(c) => Over(c)'
         /\ DeadlineSet => DeadlineSet'
<1>1. ASSUME NEW b \in Bookings,
             CreateDeferredBooking(b) \/ Charge(b) \/ Settle(b) \/ Sweep(b)
               \/ MarkOf(b) \/ Expire(b) \/ CancelledByHand(b)
      PROVE  (\A c \in Bookings : Over(c) => Over(c)') /\ UNCHANGED dep
  <2>1. CASE CreateDeferredBooking(b)
    <3>1. \A c \in Bookings : c # b => status'[c] = status[c] /\ sched'[c] = sched[c]
      BY <2>1 DEF CreateDeferredBooking, DbTypeOK
    <3>2. Rests(b) /\ Ends(b)
      BY <2>1 DEF CreateDeferredBooking, Rests, Ends
    <3> QED BY <2>1, <3>1, <3>2, OnlyOne DEF CreateDeferredBooking
  <2>2. CASE Charge(b)
    BY <2>2, ChargeOver
  <2>3. CASE Settle(b)
    BY <2>3, SettleOver DEF Settle
  <2>4. CASE Sweep(b)
    BY <2>4, NothingOver DEF Sweep, RecordIntentClosed
  <2>5. CASE MarkOf(b)
    BY <2>5, NothingOver DEF MarkOf, MarkCaptureStarted, ClearStaleMarks,
                             ClaimAuthorizationCancel, Unclaim
  <2>6. CASE Expire(b) \/ CancelledByHand(b)
    <3>1. /\ status' = [status EXCEPT ![b] = "cancelled"] /\ UNCHANGED <<now, dep>>
          /\ \A c \in Bookings : c # b => sched'[c] = sched[c]
      BY <2>6 DEF Expire, CancelledByHand, CancelUnpaidBooking, CancelChargeInFlight,
                  CancelAuthorizedBooking, CancelBooking, DbTypeOK
    <3> QED BY <3>1, CancelsOver
  <2> QED BY <1>1, <2>1, <2>2, <2>3, <2>4, <2>5, <2>6
<1>2. CASE Cycle \/ StaffResolves
  BY <1>2, CycleOver
<1>3. CASE Tick
  BY <1>3, TickOver DEF DeadlineSet
<1>4. CASE UNCHANGED db
  BY <1>4, NothingOver DEF db, DeadlineSet
<1> QED BY <1>1, <1>2, <1>3, <1>4 DEF LifeStep, Life, CancelledElsewhere, DeadlineSet

-----------------------------------------------------------------------------
(* Every step of a process is one that BookingLife allows.                 *)

\* A charge that the gateway made is of a booking that no other paid.
LEMMA SettleAllowed ==
  ASSUME IInv, MoneyInv, NEW b \in Bookings, NEW k \in Ids,
         intent[b, k] = "succeeded", ConfirmBooking(b, k)
  PROVE  Life
<1>1. MoneyOf(b)
  BY DEF MoneyInv
<1>2. row[b, k] # "none"
  BY <1>1 DEF MoneyOf, RowsOf, RowFacts
<1>3. Unsettled(b, k) => PaidId(b) = NoId
  <2> SUFFICES ASSUME Unsettled(b, k), NEW j \in Ids, row[b, j] = "succeeded"
               PROVE  FALSE
    BY DEF PaidId
  <2>1. intent[b, j] = "succeeded"
    BY DEF IInv, BooksInv
  <2>2. j = k
    BY <1>1, <2>1 DEF MoneyOf, OnceOf, Spent, Committed
  <2> QED BY <2>2 DEF Unsettled
<1> QED BY <1>2, <1>3 DEF Life, Settle

LEMMA FailAllowed ==
  ASSUME NEW b \in Bookings, NEW k \in Ids, NEW terminal \in BOOLEAN,
         ChargeAttemptFailed(b, k, terminal)
  PROVE  LifeStep
<1>1. CASE CanFailAttempt(b, k)
  BY <1>1 DEF LifeStep, Life, Charge
<1>2. CASE ~CanFailAttempt(b, k)
  BY <1>2 DEF LifeStep, ChargeAttemptFailed
<1> QED BY <1>1, <1>2

LEMMA ActionAllowed ==
  ASSUME NEW b \in Bookings, NEW k \in Ids, ChargeRequiresAction(b, k)
  PROVE  LifeStep
<1>1. CASE row[b, k] = "pending"
  BY <1>1 DEF LifeStep, Life, Charge
<1>2. CASE row[b, k] # "pending"
  BY <1>2 DEF LifeStep, ChargeRequiresAction, db
<1> QED BY <1>1, <1>2

LEMMA ClosePayAllowed ==
  ASSUME NEW b \in Bookings, NEW k \in Ids, ClosePendingPayment(b, k)
  PROVE  LifeStep
<1>1. CASE CanClosePending(b, k)
  BY <1>1 DEF LifeStep, Life, Charge
<1>2. CASE ~CanClosePending(b, k)
  BY <1>2 DEF LifeStep, ClosePendingPayment, db
<1> QED BY <1>1, <1>2

LEMMA RegisterAllowed ==
  ASSUME IInv, MoneyInv, NEW b \in Bookings, NEW k \in Ids, NEW s,
         s = "succeeded" => intent[b, k] = "succeeded", Register(b, k, s)
  PROVE  LifeStep
<1>1. CASE s = "requires_capture"
  <2>1. RecordAuthorization(b, k)
    BY <1>1 DEF Register, ClosedIntents
  <2> QED BY <2>1 DEF RecordAuthorization, LifeStep, Life, Charge, db
<1>2. CASE s = "requires_action"
  BY <1>2, ActionAllowed DEF Register, ClosedIntents
<1>3. CASE s = "succeeded"
  BY <1>3, SettleAllowed DEF Register, ClosedIntents, LifeStep
<1>4. CASE s = "processing"
  BY <1>4 DEF Register, ClosedIntents, LifeStep
<1>5. CASE s \notin {"requires_capture", "requires_action", "succeeded", "processing"}
  BY <1>5, FailAllowed DEF Register, ClosedIntents
<1> QED BY <1>1, <1>2, <1>3, <1>4, <1>5

\* A step of the engine, with what it then knows of the deadline.
EngineAllowed == LifeStep /\ EngineLate' /\ UNCHANGED wd

LEMMA IdleLate == ASSUME Stop PROVE EngineLate'
  BY DEF Stop, EngineIdle, EngineLate, Releasing

LEMMA SameDeadline ==
  ASSUME DbTypeOK, PastDeadline, dep'.triggered = dep.triggered,
         dep'.deadline = dep.deadline, now' \in {now, now + 1}
  PROVE  PastDeadline'
<1>1. now \in Nat /\ now' \in Nat /\ now <= now'
  BY TimesAssumption DEF DbTypeOK, Times
<1>2. dep.deadline \in Nat
  BY DEF DbTypeOK, Departure, PastDeadline, Times
<1> QED BY <1>1, <1>2 DEF PastDeadline

\* The engine goes on in the same mode, and not to let go what it did not
\* before.
LEMMA GoesOnLate ==
  ASSUME DbTypeOK, EngineLate, UNCHANGED <<now, dep>>, eng.pc # "idle",
         eng'.mode = eng.mode,
         eng'.pc \in Releasing => eng.mode = "late",
         eng'.pc = "decide" => eng.mode # "resolved"
  PROVE  EngineLate'
<1>1. eng.mode = "late" => PastDeadline
  BY DEF EngineLate
<1>2. PastDeadline => PastDeadline'
  BY DEF PastDeadline
<1> QED BY <1>1, <1>2 DEF EngineLate

LEMMA EngineFields ==
  ASSUME EngineTypeOK, NEW pc
  PROVE  /\ Goto(pc) => eng'.pc = pc /\ eng'.mode = eng.mode
         /\ \A ok : Resume(pc, ok) => eng'.pc = pc /\ eng'.mode = eng.mode
  BY DEF EngineTypeOK, EngineType, Goto, Resume

LEMMA EngineOpens ==
  ASSUME IInv, LateInv, EngStart \/ EngOpen
  PROVE  EngineAllowed
<1>1. DbTypeOK /\ DeadlineSet
  BY DEF IInv, TypeOK, LateInv
<1>2. CASE EngStart
  <2>1. LifeStep /\ UNCHANGED <<now, dep, wd>>
    BY <1>2 DEF EngStart, EngineOnly, LifeStep, db
  <2>2. \/ eng'.mode \in {"resolved", "open"} /\ eng'.pc \in {"auth0", "due"}
        \/ /\ eng'.mode = "late" /\ eng'.pc = "decide"
           /\ dep.triggered /\ ~(dep.deadline > now)
    BY <1>2 DEF EngStart, EngineIdle
  <2>3. dep.triggered /\ ~(dep.deadline > now) => PastDeadline
    BY <1>1, TimesAssumption DEF DeadlineSet, PastDeadline, DbTypeOK, Departure, Times
  <2>4. PastDeadline => PastDeadline'
    BY <2>1 DEF PastDeadline
  <2> QED BY <2>1, <2>2, <2>3, <2>4 DEF EngineAllowed, EngineLate, Releasing
<1>3. CASE EngOpen
  <2>1. LifeStep /\ UNCHANGED wd
    BY <1>3 DEF EngOpen, EngineDb, LifeStep, Life, Cycle
  <2>2. CASE Stop
    BY <2>1, <2>2, IdleLate DEF EngineAllowed
  <2>3. CASE CanOpenCharge
    <3>1. CycleDeadline \in Times /\ now \in Times
      BY <1>1, TimesLemma DEF DbTypeOK
    <3>2. /\ now' = now /\ dep'.triggered /\ dep'.deadline = CycleDeadline
      BY <1>1, <1>3, <2>3 DEF EngOpen, OpenDepartureCharge, DbTypeOK, Departure
    <3>3. /\ eng.pc = "due" /\ eng \in EngineType
          /\ eng' = IF CycleDeadline > now
                      THEN [eng EXCEPT !.pc = "auth0"]
                      ELSE [eng EXCEPT !.pc = "decide", !.mode = "late"]
      BY <1>3, <2>3 DEF EngOpen, IInv, TypeOK, EngineTypeOK
    <3>4. CASE CycleDeadline > now
      <4>1. eng'.pc = "auth0" /\ eng'.mode = eng.mode
        BY <3>3, <3>4 DEF EngineType
      <4>2. eng.mode # "late"
        <5>1. ~dep.triggered
          BY <2>3 DEF CanOpenCharge
        <5> QED BY <3>3, <5>1 DEF LateInv, EngineLate, PastDeadline
      <4> QED BY <2>1, <4>1, <4>2 DEF EngineAllowed, EngineLate, Releasing
    <3>5. CASE ~(CycleDeadline > now)
      <4>1. eng'.pc = "decide" /\ eng'.mode = "late"
        BY <3>3, <3>5 DEF EngineType
      <4>2. PastDeadline'
        BY <3>1, <3>2, <3>5, TimesAssumption DEF PastDeadline, Times, Null
      <4> QED BY <2>1, <4>1, <4>2 DEF EngineAllowed, EngineLate, Releasing
    <3> QED BY <3>4, <3>5
  <2> QED BY <1>3, <2>2, <2>3 DEF EngOpen
<1> QED BY <1>2, <1>3

\* The steps of the engine that neither write nor release.
LEMMA EngineReadsOn ==
  ASSUME IInv, LateInv, UNCHANGED db, UNCHANGED wd, eng.pc # "idle",
         eng'.mode = eng.mode,
         eng'.pc \in Releasing => eng.pc \in Releasing \/ eng.mode = "late",
         eng'.pc = "decide" => eng.mode # "resolved"
  PROVE  EngineAllowed
<1>1. EngineLate /\ DbTypeOK
  BY DEF LateInv, IInv, TypeOK
<1>2. eng'.pc \in Releasing => eng.mode = "late"
  BY <1>1 DEF EngineLate
<1>3. EngineLate'
  BY <1>1, <1>2, GoesOnLate DEF db
<1> QED BY <1>3 DEF EngineAllowed, LifeStep

LEMMA EngineStopsHere ==
  ASSUME LifeStep, Stop, UNCHANGED wd PROVE EngineAllowed
  BY IdleLate DEF EngineAllowed

LEMMA EngineLists ==
  ASSUME IInv, LateInv,
         \/ EngFetchAuth \/ EngFetchCapture \/ EngFetchRelease
         \/ \E b \in Bookings : EngLookup(b) \/ EngCaptureLookup(b)
                                  \/ EngReleaseLookup(b)
  PROVE  EngineAllowed
<1>1. EngineTypeOK
  BY DEF IInv, TypeOK
<1>2. UNCHANGED <<db, wd>> /\ eng.pc \in {"auth0", "cap0", "rel0", "auth", "cap", "rel"}
  BY DEF EngFetchAuth, EngFetchCapture, EngFetchRelease, EngLookup, EngCaptureLookup,
         EngReleaseLookup, EngineOnly
<1>3. /\ eng'.mode = eng.mode /\ eng'.pc # "decide"
      /\ eng'.pc \in Releasing => eng.pc \in Releasing
  <2>1. CASE EngFetchAuth \/ EngFetchCapture \/ EngFetchRelease
    BY <1>1, <2>1 DEF EngFetchAuth, EngFetchCapture, EngFetchRelease, EngineTypeOK,
                      EngineType, Releasing
  <2>2. ASSUME NEW b \in Bookings,
               EngLookup(b) \/ EngCaptureLookup(b) \/ EngReleaseLookup(b)
        PROVE  /\ eng'.mode = eng.mode /\ eng'.pc # "decide"
               /\ eng'.pc \in Releasing => eng.pc \in Releasing
    <3>1. CASE EngLookup(b)
      BY <1>1, <3>1 DEF EngLookup, EngineTypeOK, EngineType, Releasing
    <3>2. CASE EngCaptureLookup(b)
      BY <1>1, <3>2 DEF EngCaptureLookup, EngineTypeOK, EngineType, Releasing
    <3>3. CASE EngReleaseLookup(b)
      BY <1>1, <3>3 DEF EngReleaseLookup, EngineTypeOK, EngineType, Releasing
    <3> QED BY <2>2, <3>1, <3>2, <3>3
  <2> QED BY <2>1, <2>2
<1> QED BY <1>2, <1>3, EngineReadsOn

\* A call to the gateway, or a decision, sends the engine to another step of
\* the same run, or ends the run.
Went(pcs) == \/ \E pc \in pcs : Goto(pc)
             \/ \E pc \in pcs : eng' = [eng EXCEPT !.pc = pc]
             \/ eng'.mode = eng.mode /\ eng'.pc \in pcs
             \/ \E pc \in pcs, ok \in BOOLEAN : Resume(pc, ok)
             \/ Stop

LEMMA WentOn ==
  ASSUME IInv, LateInv, UNCHANGED db, UNCHANGED wd, eng.pc # "idle", NEW pcs, Went(pcs),
         \A pc \in pcs : /\ pc \in Releasing => eng.pc \in Releasing \/ eng.mode = "late"
                         /\ pc = "decide" => eng.mode # "resolved"
  PROVE  EngineAllowed
<1>1. CASE Stop
  BY <1>1, EngineStopsHere DEF LifeStep
<1>2. CASE ~Stop
  <2>1. eng'.mode = eng.mode /\ eng'.pc \in pcs
    <3>1. EngineTypeOK
      BY DEF IInv, TypeOK
    <3> QED BY <1>2, <3>1, EngineFields DEF Went, Goto
  <2> QED BY <2>1, EngineReadsOn
<1> QED BY <1>1, <1>2

LEMMA EngineCallsAllowed ==
  ASSUME IInv, LateInv,
         \/ EngAdoptGet \/ EngAttemptGet \/ EngDiscard \/ EngCreate \/ EngDrop
         \/ EngConfirm \/ EngCapture \/ EngReget \/ EngReleaseGet \/ EngReleaseCancel
  PROVE  EngineAllowed
<1>1. CASE EngAdoptGet
  <2>1. Went({"register", "auth"}) /\ UNCHANGED <<db, wd>> /\ eng.pc = "adoptGet"
    BY <1>1 DEF EngAdoptGet, EngineOnly, Went, IInv, TypeOK, EngineTypeOK, EngineType
  <2> QED BY <2>1, WentOn DEF Releasing
<1>2. CASE EngAttemptGet
  <2>1. /\ eng.pc = "attemptGet" /\ UNCHANGED <<db, wd>>
        /\ \/ eng'.pc = "register" /\ eng'.mode = eng.mode
           \/ Goto("closePay") \/ Goto("discard") \/ Resume("auth", TRUE)
    <3>1. eng' = [eng EXCEPT !.pc = "register", !.reply = Get(eng.b, eng.k)] =>
             eng'.pc = "register" /\ eng'.mode = eng.mode
      BY DEF IInv, TypeOK, EngineTypeOK, EngineType
    <3> HIDE DEF Get
    <3>2. CASE Get(eng.b, eng.k) = "succeeded"
      BY <1>2, <3>1, <3>2 DEF EngAttemptGet, EngineOnly, ClosedIntents
    <3>3. CASE Get(eng.b, eng.k) \in ClosedIntents
      BY <1>2, <3>3 DEF EngAttemptGet, EngineOnly, ClosedIntents
    <3>4. CASE Get(eng.b, eng.k) \in {"requires_payment_method", "requires_capture"}
      BY <1>2, <3>4 DEF EngAttemptGet, EngineOnly, ClosedIntents
    <3>5. CASE Get(eng.b, eng.k) \notin {"requires_payment_method", "requires_capture",
                                         "succeeded"} \cup ClosedIntents
      BY <1>2, <3>5 DEF EngAttemptGet, EngineOnly, ClosedIntents
    <3> QED BY <3>2, <3>3, <3>4, <3>5
  <2>2. Went({"register", "closePay", "discard", "auth"})
    BY <2>1 DEF Went
  <2> QED BY <2>1, <2>2, WentOn DEF Releasing
<1>3. CASE EngDiscard
  <2>1. Went({"discarded", "auth"}) /\ UNCHANGED <<db, wd>> /\ eng.pc = "discard"
    BY <1>3 DEF EngDiscard, EngineRemote, Went
  <2> QED BY <2>1, WentOn DEF Releasing
<1>4. CASE EngCreate
  <2>1. UNCHANGED <<db, wd>> /\ eng.pc = "create"
    BY <1>4 DEF EngCreate, EngineRemote
  <2>2. Went({"start", "auth"})
    <3>1. CASE Resume("auth", TRUE)
      BY <3>1 DEF Went
    <3>2. CASE \E x \in Ids : eng' = [eng EXCEPT !.pc = "start", !.k = x]
      BY <3>2 DEF Went, IInv, TypeOK, EngineTypeOK, EngineType
    <3> QED BY <1>4, <3>1, <3>2 DEF EngCreate, FreshIds
  <2> QED BY <2>1, <2>2, WentOn DEF Releasing
<1>5. CASE EngDrop
  <2>1. Went({"auth"}) /\ UNCHANGED <<db, wd>> /\ eng.pc = "drop"
    BY <1>5 DEF EngDrop, EngineRemote, Went
  <2> QED BY <2>1, WentOn DEF Releasing
<1>6. CASE EngConfirm
  <2>1. UNCHANGED <<db, wd>> /\ eng.pc = "confirm"
    BY <1>6 DEF EngConfirm, EngineRemote
  <2>2. Went({"confirmed"})
    <3>1. CASE Stop
      BY <3>1 DEF Went
    <3>2. CASE \E s : eng' = [eng EXCEPT !.pc = "confirmed", !.reply = s]
      BY <3>2 DEF Went, IInv, TypeOK, EngineTypeOK, EngineType
    <3> QED BY <1>6, <3>1, <3>2 DEF EngConfirm
  <2> QED BY <2>1, <2>2, WentOn DEF Releasing
<1>7. CASE EngCapture \/ EngReget
  <2>1. UNCHANGED <<db, wd>> /\ eng.pc \in {"capture", "reget"}
    BY <1>7 DEF EngCapture, EngReget, EngineRemote
  <2>2. Went({"reget", "captured", "cap"})
    <3>1. CASE Goto("reget") \/ Resume("cap", FALSE)
      BY <3>1 DEF Went
    <3>2. CASE \E s : eng' = [eng EXCEPT !.pc = "captured", !.reply = s]
      BY <3>2 DEF Went, IInv, TypeOK, EngineTypeOK, EngineType
    <3> QED BY <1>7, <3>1, <3>2 DEF EngCapture, EngReget
  <2> QED BY <2>1, <2>2, WentOn DEF Releasing
<1>8. CASE EngReleaseGet
  <2>1. Went({"relCancel", "relDb", "rel"}) /\ UNCHANGED <<db, wd>> /\ eng.pc = "relGet"
    <3> HIDE DEF Get
    <3>1. CASE Get(eng.b, eng.k) \in Confirmable
      BY <1>8, <3>1 DEF EngReleaseGet, EngineOnly, ClosedIntents, Confirmable, Went
    <3>2. CASE Get(eng.b, eng.k) \in ClosedIntents
      BY <1>8, <3>2 DEF EngReleaseGet, EngineOnly, ClosedIntents, Confirmable, Went
    <3>3. CASE Get(eng.b, eng.k) \notin Confirmable \cup ClosedIntents
      BY <1>8, <3>3 DEF EngReleaseGet, EngineOnly, ClosedIntents, Confirmable, Went
    <3> QED BY <3>1, <3>2, <3>3
  <2> QED BY <2>1, WentOn DEF Releasing
<1>9. CASE EngReleaseCancel
  <2>1. Went({"relDb", "rel"}) /\ UNCHANGED <<db, wd>> /\ eng.pc = "relCancel"
    BY <1>9 DEF EngReleaseCancel, EngineRemote, Went
  <2> QED BY <2>1, WentOn DEF Releasing
<1> QED BY <1>1, <1>2, <1>3, <1>4, <1>5, <1>6, <1>7, <1>8, <1>9

LEMMA SeatsLemma == ASSUME NEW B \in SUBSET Bookings PROVE SeatsOf(B) \in Nat
<1>1. IsFiniteSet(Bookings)
  BY BoundsAssumption, FS_Interval DEF Bookings
<1>2. Seats \in [Bookings -> Nat]
  BY BoundsAssumption
<1>3. Sum(Seats, B) \in Nat
  BY <1>1, <1>2, SumType
<1> QED BY <1>3 DEF Sum, SeatsOf

LEMMA EngineDecides ==
  ASSUME IInv, LateInv,
         \/ EngAuthDone \/ EngDecide \/ EngBefore \/ EngCaptureDone \/ EngRecount
         \/ EngReleaseDone
  PROVE  EngineAllowed
<1>1. CASE EngAuthDone
  <2>1. UNCHANGED <<db, wd>> /\ eng.pc = "auth"
    BY <1>1 DEF EngAuthDone, EngineOnly
  <2>2. CASE eng.mode = "resolved"
    <3>1. Went({"cap0"})
      BY <1>1, <2>2 DEF EngAuthDone, Went
    <3> QED BY <2>1, <3>1, WentOn DEF Releasing
  <2>3. CASE eng.mode # "resolved"
    <3>1. Went({"decide"})
      BY <1>1, <2>3 DEF EngAuthDone, Went
    <3> QED BY <2>1, <2>3, <3>1, WentOn DEF Releasing
  <2> QED BY <2>2, <2>3
<1>2. CASE EngDecide
  <2>1. UNCHANGED <<db, wd>> /\ eng.pc = "decide"
    BY <1>2 DEF EngDecide, EngineOnly
  <2>2. eng.mode \in {"open", "late"}
    BY <2>1 DEF LateInv, EngineLate, IInv, TypeOK, EngineTypeOK, EngineType, Modes
  <2>3. CASE Authorized >= Minimum
    <3>1. Went({"before"})
      BY <1>2, <2>3 DEF EngDecide, Went
    <3> QED BY <2>1, <3>1, WentOn DEF Releasing
  <2>4. CASE Authorized < Minimum /\ eng.mode = "open"
    <3>1. Went({"before"})
      BY <1>2, <2>4 DEF EngDecide, Went
    <3> QED BY <2>1, <3>1, WentOn DEF Releasing
  <2>5. CASE eng.mode = "late"
    <3>1. Went({"before", "rel0"})
      BY <1>2, <2>5 DEF EngDecide, Went
    <3> QED BY <2>1, <2>5, <3>1, WentOn DEF Releasing
  <2>6. Authorized \in Int /\ Minimum \in Int
    BY SeatsLemma, BoundsAssumption DEF Authorized, Captured
  <2> QED BY <2>2, <2>3, <2>4, <2>5, <2>6
<1>3. CASE EngBefore \/ EngCaptureDone \/ EngRecount
  <2>1. /\ UNCHANGED <<db, wd>> /\ eng.pc \in {"before", "cap", "resolve0"}
        /\ Went({"cap0", "resolve0", "resolve"})
    BY <1>3 DEF EngBefore, EngCaptureDone, EngRecount, EngineOnly, Went
  <2> QED BY <2>1, WentOn DEF Releasing
<1>4. CASE EngReleaseDone
  <2>1. UNCHANGED <<db, wd>> /\ eng.pc = "rel"
    BY <1>4 DEF EngReleaseDone, EngineOnly
  <2>2. Went({"close", "autoCancel"})
    BY <1>4, TimesAssumption DEF EngReleaseDone, Went
  <2> QED BY <2>1, <2>2, WentOn DEF Releasing
<1> QED BY <1>1, <1>2, <1>3, <1>4

\* The engine writes, and goes on with its list.
LEMMA EngineWritesOn ==
  ASSUME IInv, LateInv, LifeStep, UNCHANGED <<now, dep, wd>>, eng.pc # "idle",
         NEW pcs, Went(pcs), pcs \cap (Releasing \cup {"decide"}) = {}
  PROVE  EngineAllowed
<1>1. CASE Stop
  BY <1>1, EngineStopsHere
<1>2. CASE ~Stop
  <2>1. eng'.mode = eng.mode /\ eng'.pc \in pcs
    <3>1. EngineTypeOK
      BY DEF IInv, TypeOK
    <3> QED BY <1>2, <3>1, EngineFields DEF Went, Goto
  <2>2. DbTypeOK /\ EngineLate
    BY DEF IInv, TypeOK, LateInv
  <2> QED BY <2>1, <2>2, GoesOnLate DEF EngineAllowed
<1> QED BY <1>1, <1>2

LEMMA EngineClears ==
  ASSUME IInv, LateInv, NEW b \in Bookings, EngClear(b) PROVE EngineAllowed
<1>1. LifeStep /\ UNCHANGED <<now, dep, wd>> /\ eng.pc = "auth"
  BY DEF EngClear, LifeStep, Life, MarkOf, ClearStaleMarks, EngineDb
<1>2. Went({"auth"})
  BY <1>1 DEF EngClear, Went, IInv, TypeOK, EngineTypeOK, EngineType
<1> QED BY <1>1, <1>2, EngineWritesOn DEF Releasing

LEMMA EngineCharges ==
  ASSUME IInv, MoneyInv, LateInv,
         EngClosePay \/ EngDiscarded \/ EngStartCharge \/ EngRegister
  PROVE  EngineAllowed
<1>1. /\ eng.pc \in {"closePay", "discarded", "start", "register", "confirmed"}
      /\ eng.b \in Bookings /\ eng.k \in Ids
  BY BusyLemma DEF EngClosePay, EngDiscarded, EngStartCharge, EngRegister, HasBooking,
                   EnginePcs, IInv, TypeOK, EngineTypeOK
<1>2. LifeStep /\ UNCHANGED <<now, dep, wd>> /\ Went({"create", "confirm", "drop", "auth"})
  <2>1. CASE EngClosePay \/ EngDiscarded
    <3>1. ClosePendingPayment(eng.b, eng.k)
      BY <2>1 DEF EngClosePay, EngDiscarded
    <3>2. LifeStep /\ UNCHANGED <<now, dep>>
      BY <1>1, <3>1, ClosePayAllowed DEF ClosePendingPayment
    <3> QED BY <2>1, <3>2 DEF EngClosePay, EngDiscarded, EngineDb, Went
  <2>2. CASE EngStartCharge
    <3>1. CASE CanStart(eng.b, eng.k)
      <4>1. row[eng.b, eng.k] = "none"
        BY <2>2 DEF EngStartCharge, MoneyInv, EngineSees
      <4>2. ChargeBookingStart(eng.b, eng.k)
        BY <2>2, <3>1 DEF EngStartCharge
      <4>3. Life
        BY <1>1, <3>1, <4>1, <4>2 DEF Life, Charge
      <4> QED BY <2>2, <3>1, <4>2, <4>3
              DEF EngStartCharge, EngineDb, Went, LifeStep, ChargeBookingStart
    <3>2. CASE ~CanStart(eng.b, eng.k)
      BY <2>2, <3>2 DEF EngStartCharge, EngineDb, Went, LifeStep, db
    <3> QED BY <3>1, <3>2
  <2>3. CASE EngRegister
    <3>1. Register(eng.b, eng.k, eng.reply) /\ UNCHANGED wd /\ Went({"auth"})
      BY <2>3 DEF EngRegister, EngineDb, Went
    <3>2. eng.reply = "succeeded" => intent[eng.b, eng.k] = "succeeded"
      BY <2>3 DEF EngRegister, IInv, EngineKnows
    <3>3. LifeStep
      BY <1>1, <3>1, <3>2, RegisterAllowed
    <3>4. UNCHANGED <<now, dep>>
      BY <3>1 DEF Register, RecordAuthorization, ChargeRequiresAction, ConfirmBooking,
                  ChargeAttemptFailed, db
    <3> QED BY <3>1, <3>3, <3>4 DEF Went
  <2> QED BY <2>1, <2>2, <2>3
<1> QED BY <1>1, <1>2, EngineWritesOn DEF Releasing

LEMMA EngineCaptures ==
  ASSUME IInv, MoneyInv, LateInv, EngMark \/ EngCaptured
  PROVE  EngineAllowed
<1>1. /\ eng.pc \in {"capMark", "captured"}
      /\ eng.b \in Bookings /\ eng.k \in Ids
  BY BusyLemma DEF EngMark, EngCaptured, HasBooking, EnginePcs, IInv, TypeOK,
                   EngineTypeOK
<1>2. CASE EngMark
  <2>1. LifeStep /\ UNCHANGED <<now, dep, wd>> /\ Went({"capture", "cap"})
    <3>1. CASE CanMarkCapture(eng.b)
      <4>1. MarkCaptureStarted(eng.b) /\ Went({"capture", "cap"}) /\ UNCHANGED wd
        BY <1>2, <3>1 DEF EngMark, EngineDb, Went
      <4> QED BY <1>1, <3>1, <4>1 DEF LifeStep, Life, MarkOf, MarkCaptureStarted
    <3>2. CASE ~CanMarkCapture(eng.b)
      BY <1>2, <3>2 DEF EngMark, EngineDb, Went, LifeStep, db
    <3> QED BY <3>1, <3>2
  <2> QED BY <1>1, <2>1, EngineWritesOn DEF Releasing
<1>3. CASE EngCaptured
  <2>1. UNCHANGED wd /\ Went({"cap"})
    <3>1. (eng.reply = "succeeded" /\ ConfirmOutcome(eng.b, eng.k) = "confirmed")
             \in BOOLEAN
      OBVIOUS
    <3> HIDE DEF ConfirmOutcome
    <3> QED BY <1>3, <3>1 DEF EngCaptured, EngineDb, Went
  <2>2. LifeStep /\ UNCHANGED <<now, dep>>
    <3>1. CASE eng.reply = "succeeded"
      <4>1. ConfirmBooking(eng.b, eng.k) /\ intent[eng.b, eng.k] = "succeeded"
        BY <1>3, <3>1 DEF EngCaptured, IInv, EngineKnows
      <4> QED BY <1>1, <4>1, SettleAllowed DEF LifeStep, ConfirmBooking
    <3>2. CASE eng.reply \in {"requires_capture", "processing"}
      BY <1>3, <3>2 DEF EngCaptured, LifeStep, db
    <3>3. CASE eng.reply \notin {"succeeded", "requires_capture", "processing"}
      <4>1. ChargeAttemptFailed(eng.b, eng.k, TRUE)
        BY <1>3, <3>3 DEF EngCaptured
      <4> QED BY <1>1, <4>1, FailAllowed DEF ChargeAttemptFailed, db
    <3> QED BY <3>1, <3>2, <3>3
  <2> QED BY <1>1, <2>1, <2>2, EngineWritesOn DEF Releasing
<1> QED BY <1>2, <1>3

LEMMA EngineEnds ==
  ASSUME IInv, LateInv, EngResolve \/ EngClose \/ EngAutoCancel \/ EngAbort
  PROVE  EngineAllowed
<1>1. Stop /\ UNCHANGED wd
  BY DEF EngResolve, EngClose, EngAutoCancel, EngAbort, EngineDb
<1>2. eng.pc \in {"close", "autoCancel"} => PastDeadline
  BY DEF LateInv, EngineLate, Releasing
<1>3. LifeStep => EngineAllowed
  BY <1>1, EngineStopsHere
<1>4. (EngResolve => LifeStep) /\ (EngClose => LifeStep) /\ (EngAutoCancel => LifeStep)
        /\ (EngAbort => LifeStep)
  BY <1>2 DEF EngResolve, EngClose, EngAutoCancel, EngAbort, LifeStep, Life, Cycle
<1> QED BY <1>3, <1>4

LEMMA EngineReleases ==
  ASSUME IInv, MoneyInv, LateInv, EngReleaseDb
  PROVE  EngineAllowed
<1>1. eng.pc = "relDb" /\ eng.b \in Bookings /\ eng.k \in Ids
  BY BusyLemma DEF EngReleaseDb, HasBooking, EnginePcs, IInv, TypeOK, EngineTypeOK
<1>2. /\ ReleaseAuthorization(eng.b, eng.k) /\ UNCHANGED wd
      /\ eng'.pc = "rel" /\ eng'.mode = eng.mode
  BY EngineFields DEF EngReleaseDb, EngineDb, IInv, TypeOK
<1>3. PastDeadline /\ eng.mode = "late"
  BY <1>1 DEF LateInv, EngineLate, Releasing
<1>4. CASE status[eng.b] = "pending_payment"
  <2>1. eng.k \in PendingIds(eng.b)
    BY <1>1, <1>4 DEF MoneyInv, EngineSees, Charging, Pending, PendingIds
  <2>2. LifeStep /\ UNCHANGED <<now, dep>>
    BY <1>1, <1>2, <1>3, <1>4, <2>1 DEF LifeStep, Life, Cycle, ReleaseAuthorization
  <2>3. EngineLate'
    BY <1>1, <1>2, <1>3, <2>2 DEF EngineLate, PastDeadline
  <2> QED BY <1>2, <2>2, <2>3 DEF EngineAllowed
<1>5. CASE status[eng.b] # "pending_payment"
  <2>1. UNCHANGED db
    BY <1>2, <1>5 DEF ReleaseAuthorization
  <2>2. EngineLate'
    BY <1>1, <1>2, <1>3, <2>1 DEF EngineLate, PastDeadline, db
  <2> QED BY <1>2, <2>1, <2>2 DEF EngineAllowed, LifeStep
<1> QED BY <1>4, <1>5

LEMMA EngineStepAllowed ==
  ASSUME IInv, MoneyInv, LateInv, EngineStep \/ EngAbort
  PROVE  EngineAllowed
BY EngineOpens, EngineLists, EngineCallsAllowed, EngineDecides, EngineClears,
   EngineCharges, EngineCaptures, EngineEnds, EngineReleases DEF EngineStep

-----------------------------------------------------------------------------
(* The other processes.                                                    *)

WatchAllowed == LifeStep /\ WatchLate' /\ DeadlineStays /\ UNCHANGED eng

\* Who takes nothing up, or something that is over, goes on knowing it.
LEMMA WatchLater ==
  ASSUME IInv, LateInv, LifeStep,
         wd'.pc # "idle" /\ wd'.kind = "unpaid" =>
             wd'.b \in Bookings /\ Over(wd'.b)
  PROVE  WatchLate'
<1>1. \A c \in Bookings : Over(c) => Over(c)'
  BY LifeOver DEF IInv, TypeOK
<1> QED BY <1>1 DEF WatchLate, Over, Started, RecoveryExpired

LEMMA WatchKeepsOn ==
  ASSUME IInv, LateInv, LifeStep, UNCHANGED wd PROVE WatchLate'
<1>1. wd.pc # "idle" => wd.b \in Bookings
  BY DEF IInv, TypeOK, WatchTypeOK
<1> QED BY <1>1, WatchLater DEF LateInv, WatchLate

LEMMA WatchLooks ==
  ASSUME IInv, MoneyInv, LateInv,
         \/ \E b \in Bookings : WdInFlight(b) \/ WdUnpaid(b)
         \/ WdGet \/ WdCancelIntent \/ WdAbort
  PROVE  WatchAllowed
<1>1. LifeStep /\ DeadlineStays /\ UNCHANGED eng
  BY DEF WdInFlight, WdUnpaid, WdGet, WdCancelIntent, WdAbort, WatchOnly, LifeStep, db,
         DeadlineStays
<1>2. ASSUME NEW b \in Bookings, WdInFlight(b) PROVE WatchAllowed
  <2>1. wd'.kind = "inflight"
    BY <1>2 DEF WdInFlight, WatchIdle
  <2> QED BY <1>1, <2>1, WatchLater DEF WatchAllowed
<1>3. ASSUME NEW b \in Bookings, WdUnpaid(b) PROVE WatchAllowed
  <2>1. wd'.b = b /\ wd'.kind = (IF mark[b].auth THEN "authorized" ELSE "unpaid")
    BY <1>3 DEF WdUnpaid, WatchIdle
  <2>2. wd'.kind = "unpaid" => Over(b)
    BY <1>3, <2>1 DEF WdUnpaid, Over, RecoveryExpired, HasAuthorization
  <2> QED BY <1>1, <2>1, <2>2, WatchLater DEF WatchAllowed
<1>4. CASE WdGet
  <2>1. wd \in WatchType /\ wd.pc = "get" /\ wd.b \in Bookings
    BY <1>4 DEF WdGet, IInv, TypeOK, WatchTypeOK
  <2>2. wd'.pc = "idle" \/ (wd'.b = wd.b /\ wd'.kind = wd.kind)
    <3>1. CASE wd' = WatchIdle
      BY <3>1 DEF WatchIdle
    <3>2. ASSUME NEW a, NEW d, NEW l,
                 wd' = [wd EXCEPT !.pc = "do", !.act = a, !.challenge = "wait",
                                  !.dead = d, !.live = l]
          PROVE  wd'.b = wd.b /\ wd'.kind = wd.kind
      BY <2>1, <3>2 DEF WatchType
    <3> HIDE DEF Get, InFlightAct, UnpaidAct
    <3> QED BY <1>4, <3>1, <3>2 DEF WdGet
  <2> QED BY <1>1, <2>1, <2>2, WatchLater DEF WatchAllowed, LateInv, WatchLate
<1>5. CASE WdCancelIntent \/ WdAbort
  <2>1. wd'.pc = "idle"
    BY <1>5 DEF WdCancelIntent, WdAbort, WatchIdle
  <2> QED BY <1>1, <2>1, WatchLater DEF WatchAllowed
<1> QED BY <1>2, <1>3, <1>4, <1>5

LEMMA WatchCancels ==
  ASSUME IInv, MoneyInv, LateInv, wd.pc = "do", CanWatchCancel,
         IF wd.kind = "unpaid" THEN CancelUnpaidBooking(wd.b)
         ELSE CancelChargeInFlight(wd.b)
  PROVE  Life
<1>1. wd.b \in Bookings
  BY DEF IInv, TypeOK, WatchTypeOK
<1>2. CASE wd.kind = "unpaid"
  <2>1. CanCancelUnpaid(wd.b) /\ Over(wd.b)
    BY <1>2 DEF CanWatchCancel, LateInv, WatchLate
  <2>2. RecoveryExpired(wd.b) \/ Started
    BY <2>1 DEF CanCancelUnpaid, Over
  <2> QED BY <1>1, <1>2, <2>1, <2>2 DEF Life, Expire
<1>3. CASE wd.kind # "unpaid"
  <2>1. CanCancelInFlight(wd.b, wd.dead)
    BY <1>3 DEF CanWatchCancel
  <2>2. \E reason \in Reasons : CanCancelInFlight(wd.b, reason)
    <3>1. CASE wd.dead \in Reasons
      BY <2>1, <3>1
    <3>2. CASE wd.dead \notin Reasons
      BY <2>1, <3>2 DEF Reasons, CanCancelInFlight, ReasonIsDue
    <3> QED BY <3>1, <3>2
  <2> QED BY <1>1, <1>3, <2>2 DEF Life, Expire, Reasons
<1> QED BY <1>2, <1>3

LEMMA WatchWrites ==
  ASSUME IInv, MoneyInv, LateInv, WdDo PROVE WatchAllowed
<1>1. /\ wd.pc = "do" /\ wd.b \in Bookings /\ UNCHANGED eng
      /\ wd.act \in WatchActs /\ (wd.act # "cancel" => wd.k \in Ids)
  BY DEF WdDo, IInv, TypeOK, WatchTypeOK, WatchType
<1>2. LifeStep
  <2>1. CASE wd.act = "settle"
    <3>1. ConfirmBooking(wd.b, wd.k) /\ intent[wd.b, wd.k] = "succeeded"
      BY <1>1, <2>1 DEF WdDo, IInv, WatchKnows
    <3> QED BY <1>1, <2>1, <3>1, SettleAllowed DEF LifeStep
  <2>2. CASE wd.act = "register_action"
    BY <1>1, <2>2, ActionAllowed DEF WdDo
  <2>3. CASE wd.act \in {"record_retryable", "record_terminal"}
    BY <1>1, <2>3, FailAllowed DEF WdDo
  <2>4. CASE wd.act \in {"wait", "cancel"}
    <3>1. CASE ~CanWatchCancel
      BY <2>4, <3>1 DEF WdDo, LifeStep, db
    <3>2. CASE CanWatchCancel
      <4>1. IF wd.kind = "unpaid" THEN CancelUnpaidBooking(wd.b)
            ELSE CancelChargeInFlight(wd.b)
        BY <2>4, <3>2 DEF WdDo
      <4> QED BY <1>1, <3>2, <4>1, WatchCancels DEF LifeStep
    <3> QED BY <3>1, <3>2
  <2> QED BY <1>1, <2>1, <2>2, <2>3, <2>4 DEF WatchActs
<1>3. wd'.pc = "idle" \/ wd'.kind = "inflight"
  BY DEF WdDo, WatchIdle
<1>4. DeadlineStays
  BY DEF WdDo, DeadlineStays, ConfirmBooking, ChargeRequiresAction, ChargeAttemptFailed,
         CancelUnpaidBooking, CancelChargeInFlight, db
<1> QED BY <1>1, <1>2, <1>3, <1>4, WatchLater DEF WatchAllowed

\* Sweep, web and the rest: neither the engine nor the watchdog moves.
OthersAllowed == LifeStep /\ DeadlineStays /\ UNCHANGED <<eng, wd>>

LEMMA SweepAllowed ==
  ASSUME IInv, MoneyInv, SweepStep \/ SwAbort PROVE OthersAllowed
<1>1. CASE SwAbort \/ \E b \in Bookings, k \in Ids : SwGet(b, k)
  BY <1>1 DEF SwAbort, SwGet, OthersAllowed, LifeStep, db, DeadlineStays
<1>2. CASE SwDo
  <2>1. sw.b \in Bookings /\ sw.k \in Ids /\ sw.pc = "do" /\ UNCHANGED <<eng, wd>>
    BY <1>2 DEF SwDo, IInv, TypeOK, SweepTypeOK
  <2>2. CASE sw.act = "settle"
    <3>1. ConfirmBooking(sw.b, sw.k) /\ intent[sw.b, sw.k] = "succeeded"
      BY <1>2, <2>1, <2>2 DEF SwDo, IInv, SweepKnows
    <3> QED BY <2>1, <3>1, SettleAllowed
            DEF OthersAllowed, LifeStep, DeadlineStays, ConfirmBooking
  <2>3. CASE sw.act = "cancel"
    BY <1>2, <2>1, <2>3 DEF SwDo, OthersAllowed, LifeStep, db, DeadlineStays
  <2>4. CASE sw.act \notin {"settle", "cancel"}
    <3>1. RecordIntentClosed(sw.b, sw.k)
      BY <1>2, <2>4 DEF SwDo
    <3> QED BY <2>1, <3>1
            DEF OthersAllowed, LifeStep, Life, Sweep, DeadlineStays, RecordIntentClosed
  <2> QED BY <2>2, <2>3, <2>4
<1> QED BY <1>1, <1>2 DEF SweepStep

LEMMA WebAllowed ==
  ASSUME IInv, NEW c \in Callers, WebStep(c) \/ WebCrash(c) PROVE OthersAllowed
<1>1. web[c].pc # "idle" => web[c].b \in Bookings
  BY DEF IInv, TypeOK, WebTypeOK
<1>2. ASSUME NEW b \in Bookings, WebClaim(c, b) PROVE OthersAllowed
  <2>1. CASE CanClaim(b)
    BY <1>2, <2>1 DEF WebClaim, WebDb, OthersAllowed, LifeStep, Life, MarkOf,
                      ClaimAuthorizationCancel, DeadlineStays
  <2>2. CASE ~CanClaim(b)
    BY <1>2, <2>2 DEF WebClaim, WebDb, OthersAllowed, LifeStep, db, DeadlineStays
  <2> QED BY <2>1, <2>2
<1>3. CASE WebUnpaid(c)
  <2>1. CASE CanCancelUnpaid(web[c].b)
    BY <1>1, <1>3, <2>1 DEF WebUnpaid, WebDb, OthersAllowed, LifeStep,
         CancelledElsewhere, CancelledByHand, CancelUnpaidBooking, DeadlineStays
  <2>2. CASE ~CanCancelUnpaid(web[c].b)
    BY <1>3, <2>2 DEF WebUnpaid, WebDb, OthersAllowed, LifeStep, db, DeadlineStays
  <2> QED BY <2>1, <2>2
<1>4. CASE WebClose(c)
  <2>1. CASE CanCancelAuthorized(web[c].b)
    BY <1>1, <1>4, <2>1 DEF WebClose, WebDb, OthersAllowed, LifeStep,
         CancelledElsewhere, CancelledByHand, CancelAuthorizedBooking, DeadlineStays
  <2>2. CASE ~CanCancelAuthorized(web[c].b)
    BY <1>4, <2>2 DEF WebClose, WebDb, OthersAllowed, LifeStep, db, DeadlineStays
  <2> QED BY <2>1, <2>2
<1>5. CASE WebUnclaim(c)
  BY <1>1, <1>5 DEF WebUnclaim, WebDb, OthersAllowed, LifeStep, Life, MarkOf, Unclaim,
                    DeadlineStays
<1>6. CASE WebRead(c) \/ WebRelease(c) \/ WebCheck(c) \/ WebCrash(c)
  BY <1>6 DEF WebRead, WebRelease, WebCheck, WebCrash, WebDb, OthersAllowed, LifeStep,
              db, DeadlineStays
<1> QED BY <1>2, <1>3, <1>4, <1>5, <1>6 DEF WebStep

LEMMA EnvironmentAllowed ==
  ASSUME IInv, MoneyInv, Environment PROVE OthersAllowed
<1>1. ASSUME NEW b \in Bookings, Book(b) PROVE OthersAllowed
  BY <1>1 DEF Book, Elsewhere, OthersAllowed, LifeStep, Life, CreateDeferredBooking,
              DeadlineStays
<1>2. ASSUME NEW b \in Bookings, CancelPaid(b) PROVE OthersAllowed
  BY <1>2 DEF CancelPaid, Elsewhere, OthersAllowed, LifeStep, CancelledElsewhere,
              CancelledByHand, CancelBooking, DeadlineStays
<1>3. ASSUME NEW b \in Bookings, MarkGrowsOld(b) PROVE OthersAllowed
  <2>1. mark \in [Bookings -> Marks]
    BY DEF IInv, TypeOK, DbTypeOK
  <2>2. MarkOf(b)
    <3>1. CASE mark[b].claim = "fresh" /\ mark' = [mark EXCEPT ![b].claim = "stale"]
      <4>1. mark'[b].capture = mark[b].capture
        BY <2>1, <3>1 DEF Marks
      <4> QED BY <1>3, <3>1, <4>1 DEF MarkGrowsOld, MarkOf
    <3>2. CASE mark[b].capture = "fresh" /\ mark' = [mark EXCEPT ![b].capture = "stale"]
      <4>1. mark'[b].claim = mark[b].claim
        BY <2>1, <3>2 DEF Marks
      <4> QED BY <1>3, <3>2, <4>1 DEF MarkGrowsOld, MarkOf
    <3> QED BY <1>3, <3>1, <3>2 DEF MarkGrowsOld
  <2> QED BY <1>3, <2>2 DEF MarkGrowsOld, Elsewhere, OthersAllowed, LifeStep, Life,
                            DeadlineStays
<1>4. ASSUME NEW r \in {"staff_confirmed", "staff_cancelled"}, StaffDecides(r)
      PROVE  OthersAllowed
  <2>1. DeadlineStays
    BY <1>4, ResolveOver DEF StaffDecides, DepStays, IInv, TypeOK
  <2> QED BY <1>4, <2>1 DEF StaffDecides, StaffResolves, Elsewhere, OthersAllowed,
                            LifeStep, Life
<1>5. ASSUME NEW b \in Bookings, NEW k \in Ids, Webhook(b, k) PROVE OthersAllowed
  BY <1>5, SettleAllowed DEF Webhook, Elsewhere, OthersAllowed, LifeStep, DeadlineStays,
                             ConfirmBooking
<1>6. ASSUME NEW b \in Bookings, NEW k \in Ids, GatewayMoves(b, k) PROVE OthersAllowed
  BY <1>6 DEF GatewayMoves, Elsewhere, OthersAllowed, LifeStep, db, DeadlineStays
<1>7. CASE TimePasses
  BY <1>7 DEF TimePasses, Elsewhere, OthersAllowed, LifeStep, Life, Tick, DeadlineStays
<1> QED BY <1>1, <1>2, <1>3, <1>4, <1>5, <1>6, <1>7 DEF Environment

-----------------------------------------------------------------------------
(* The theorems of the life.                                               *)

LEMMA EngineRestsLate ==
  ASSUME IInv, LateInv, DeadlineStays, UNCHANGED eng
  PROVE  EngineLate'
<1>1. DbTypeOK /\ EngineLate
  BY DEF IInv, TypeOK, LateInv
<1>2. PastDeadline => PastDeadline'
  BY <1>1, SameDeadline DEF DeadlineStays, PastDeadline, DbTypeOK, Departure
<1> QED BY <1>1, <1>2 DEF EngineLate

LEMMA NextAllowed ==
  ASSUME IInv, MoneyInv, LateInv, [Next]_vars PROVE LifeStep /\ LateInv'
<1>1. CASE EngineStep \/ EngAbort
  <2>1. EngineAllowed
    BY <1>1, EngineStepAllowed
  <2>2. WatchLate'
    BY <2>1, WatchKeepsOn DEF EngineAllowed
  <2> QED BY <2>1, <2>2, LifeOver DEF EngineAllowed, LateInv, IInv, TypeOK
<1>2. CASE WatchStep \/ WdAbort
  <2>1. WatchAllowed
    BY <1>2, WatchLooks, WatchWrites DEF WatchStep
  <2>2. EngineLate'
    BY <2>1, EngineRestsLate DEF WatchAllowed
  <2> QED BY <2>1, <2>2, LifeOver DEF WatchAllowed, LateInv, IInv, TypeOK
<1>3. ASSUME OthersAllowed PROVE LifeStep /\ LateInv'
  <2>1. EngineLate' /\ WatchLate'
    BY <1>3, EngineRestsLate, WatchKeepsOn DEF OthersAllowed
  <2> QED BY <1>3, <2>1, LifeOver DEF OthersAllowed, LateInv, IInv, TypeOK
<1>4. CASE UNCHANGED vars
  <2>1. OthersAllowed
    BY <1>4 DEF vars, db, OthersAllowed, LifeStep, DeadlineStays
  <2> QED BY <1>3, <2>1
<1> QED BY <1>1, <1>2, <1>3, <1>4, SweepAllowed, WebAllowed, EnvironmentAllowed
        DEF Next, Crash

LEMMA InitLate == Init => DbInit /\ LateInv
  BY DEF Init, DbInit, LateInv, DeadlineSet, EngineLate, EngineIdle, WatchLate,
         WatchIdle, Releasing

\* DepartureCharge implements BookingLife: whatever the engine, the watchdog,
\* the sweep, the requests and the gateway do, and in whatever order, the rows
\* live as BookingLife allows.  In particular the engine lets holds go, closes a
\* cycle and cancels a departure only after the deadline it announced, though
\* it compared it some calls before, and the watchdog cancels an unpaid booking
\* only when its own time is over.  The same hypotheses as MoneyInductive.
THEOREM LifeImplemented ==
  ASSUME OneRequest, ReadFaults = FALSE PROVE Spec => LifeSpec
<1>1. Init => DbInit /\ LateInv
  BY InitLate
<1>2. IInv /\ MoneyInv /\ LateInv /\ [Next]_vars =>
         [Life \/ CancelledElsewhere]_db /\ LateInv'
  BY NextAllowed DEF LifeStep
<1> QED BY <1>1, <1>2, Inductive, MoneyInductive, PTL DEF Spec, LifeSpec

-----------------------------------------------------------------------------
(* The captures: the minimum is declared reached when nobody is left.      *)

HasRow(b) == Charging(b) => \E k \in Ids : Pending(b, k)
HasRows   == \A b \in Bookings : HasRow(b)

\* Still on the list of bookings to capture
Listed(b) == HasAuthorization(b) => eng.todo[b] # {}

Holds     == {"capMark", "capture", "reget", "captured"}
Declaring == {"resolve0", "resolve"}
Capturing == {"cap"} \cup Holds \cup Declaring

NobodyLeft ==
    /\ eng.pc = "cap" /\ eng.ok => \A b \in Bookings : Listed(b)
    /\ eng.pc \in Holds /\ eng.ok => \A b \in Bookings : Listed(b) \/ b = eng.b
    /\ eng.pc \in Declaring => \A b \in Bookings : ~HasAuthorization(b)

CaptureInv == HasRows /\ NobodyLeft

\* No hold appears, and a booking that is being charged keeps its rows.
Unraised ==
    \A c \in Bookings : Charging(c)' =>
        /\ Charging(c)
        /\ mark'[c].auth => mark[c].auth
        /\ \A j \in Ids : Pending(c, j) => Pending(c, j)'

\* Nobody declares that the minimum is reached.
Undeclared == dep'.resolution = "reached" => dep.resolution = "reached"

LEMMA RowsUnraised == ASSUME HasRows, Unraised PROVE HasRows'
  BY DEF HasRows, HasRow, Unraised

LEMMA HoldsUnraised ==
  ASSUME Unraised
  PROVE  \A b \in Bookings : HasAuthorization(b)' => HasAuthorization(b)
  BY DEF Unraised, HasAuthorization, Charging

LEMMA SameRaisesNothing == ASSUME UNCHANGED <<status, mark, row>> PROVE Unraised
  BY DEF Unraised, Charging, Pending

\* A function that works on one booking, and does not leave it being charged
LEMMA EndsUnraised ==
  ASSUME NEW b \in Bookings, ~Charging(b)',
         \A c \in Bookings : c # b =>
             /\ status'[c] = status[c] /\ mark'[c] = mark[c]
             /\ \A j \in Ids : row'[c, j] = row[c, j]
  PROVE  Unraised
  BY DEF Unraised, Charging, Pending

\* The row of one intent, the status and the marks of one booking
LEMMA OneRow ==
  ASSUME DbTypeOK, NEW b \in Bookings, NEW k \in Ids, NEW x,
         row' = row \/ row' = [row EXCEPT ![<<b, k>>] = x]
  PROVE  \A c \in Bookings, j \in Ids : c # b => row'[c, j] = row[c, j]
  BY DEF DbTypeOK

LEMMA LeavesUnraised ==
  ASSUME DbTypeOK, NEW b \in Bookings, NEW x, x # "pending_payment",
         status' = [status EXCEPT ![b] = x],
         mark' = mark \/ mark' = [mark EXCEPT ![b] = NoMarks],
         \A c \in Bookings, j \in Ids : c # b => row'[c, j] = row[c, j]
  PROVE  Unraised
<1>1. status'[b] = x /\ \A c \in Bookings : c # b => status'[c] = status[c]
  BY StatusUpdate
<1>2. \A c \in Bookings : c # b => mark'[c] = mark[c]
  BY DEF DbTypeOK
<1> QED BY <1>1, <1>2, EndsUnraised DEF Charging

LEMMA MarksUnraised ==
  ASSUME DbTypeOK, NEW b \in Bookings,
         \/ MarkCaptureStarted(b) \/ ClearStaleMarks(b)
         \/ ClaimAuthorizationCancel(b) \/ Unclaim(b) \/ MarkGrowsOld(b)
  PROVE  Unraised /\ Undeclared
<1>1. UNCHANGED <<status, row, dep>>
  BY DEF MarkCaptureStarted, ClearStaleMarks, ClaimAuthorizationCancel, Unclaim,
         MarkGrowsOld
<1>2. \A c \in Bookings : mark'[c].auth = mark[c].auth
  <2>1. \/ mark' = [mark EXCEPT ![b].capture = "fresh"]
        \/ mark' = [mark EXCEPT ![b].claim = "none", ![b].capture = "none"]
        \/ mark' = [mark EXCEPT ![b].claim = "fresh"]
        \/ mark' = [mark EXCEPT ![b].claim = "none"]
        \/ mark' = mark
        \/ mark' = [mark EXCEPT ![b].claim = "stale"]
        \/ mark' = [mark EXCEPT ![b].capture = "stale"]
    BY DEF MarkCaptureStarted, ClearStaleMarks, ClaimAuthorizationCancel, Unclaim,
           MarkGrowsOld
  <2>2. mark \in [Bookings -> Marks]
    BY DEF DbTypeOK
  <2> QED BY <2>1, <2>2 DEF Marks
<1> QED BY <1>1, <1>2 DEF Unraised, Undeclared, Charging, Pending

LEMMA BookUnraised ==
  ASSUME DbTypeOK, NEW b \in Bookings, CreateDeferredBooking(b)
  PROVE  Unraised /\ Undeclared
  BY EndsUnraised DEF CreateDeferredBooking, DbTypeOK, Charging, Undeclared

LEMMA FailUnraised ==
  ASSUME DbTypeOK, NEW b \in Bookings, NEW k \in Ids, NEW t,
         ChargeAttemptFailed(b, k, t)
  PROVE  Unraised /\ Undeclared
<1>1. CASE ~CanFailAttempt(b, k)
  BY <1>1, SameRaisesNothing DEF ChargeAttemptFailed, db, Undeclared
<1>2. CASE CanFailAttempt(b, k)
  <2>1. /\ status' = [status EXCEPT ![b] = "pending_minimum"]
        /\ mark' = [mark EXCEPT ![b] = NoMarks]
        /\ row' = row \/ row' = [row EXCEPT ![<<b, k>>] = "closed"]
        /\ UNCHANGED dep
    BY <1>2 DEF ChargeAttemptFailed
  <2>2. \A c \in Bookings, j \in Ids : c # b => row'[c, j] = row[c, j]
    BY <2>1, OneRow
  <2> QED BY <2>1, <2>2, LeavesUnraised DEF Undeclared
<1> QED BY <1>1, <1>2

LEMMA ActionUnraised ==
  ASSUME NEW b \in Bookings, NEW k \in Ids, ChargeRequiresAction(b, k)
  PROVE  Unraised /\ Undeclared
  BY SameRaisesNothing DEF ChargeRequiresAction, Undeclared

LEMMA ClosePayUnraised ==
  ASSUME DbTypeOK, NEW b \in Bookings, NEW k \in Ids, ClosePendingPayment(b, k)
  PROVE  Unraised /\ Undeclared
<1>1. CASE CanClosePending(b, k)
  <2>1. row' = [row EXCEPT ![<<b, k>>] = "closed"] /\ UNCHANGED <<status, mark, dep>>
    BY <1>1 DEF ClosePendingPayment
  <2>2. \A c \in Bookings, j \in Ids : c # b => row'[c, j] = row[c, j]
    BY <2>1, OneRow
  <2> QED BY <1>1, <2>1, <2>2, EndsUnraised DEF CanClosePending, Charging, Undeclared
<1>2. CASE ~CanClosePending(b, k)
  BY <1>2, SameRaisesNothing DEF ClosePendingPayment, Undeclared
<1> QED BY <1>1, <1>2

LEMMA ReleaseUnraised ==
  ASSUME DbTypeOK, NEW b \in Bookings, NEW k \in Ids, ReleaseAuthorization(b, k)
  PROVE  Unraised /\ Undeclared
<1>1. CASE status[b] # "pending_payment"
  BY <1>1, SameRaisesNothing DEF ReleaseAuthorization, db, Undeclared
<1>2. CASE status[b] = "pending_payment"
  <2>1. /\ status' = [status EXCEPT ![b] = "pending_minimum"]
        /\ mark' = [mark EXCEPT ![b] = NoMarks]
        /\ row' = row \/ row' = [row EXCEPT ![<<b, k>>] = "closed"]
        /\ UNCHANGED dep
    BY <1>2 DEF ReleaseAuthorization
  <2>2. \A c \in Bookings, j \in Ids : c # b => row'[c, j] = row[c, j]
    BY <2>1, OneRow
  <2> QED BY <2>1, <2>2, LeavesUnraised DEF Undeclared
<1> QED BY <1>1, <1>2

LEMMA CancelsUnraised ==
  ASSUME DbTypeOK, NEW b \in Bookings,
         \/ CancelUnpaidBooking(b) \/ CancelChargeInFlight(b)
         \/ CancelAuthorizedBooking(b) \/ CancelBooking(b)
  PROVE  Unraised /\ Undeclared
<1>1. /\ status' = [status EXCEPT ![b] = "cancelled"] /\ UNCHANGED dep
      /\ \/ mark' = mark
         \/ mark' = [mark EXCEPT ![b] = NoMarks]
      /\ row' = row \/ \E r : row' = RowsWhenCancelled(b, r)
  BY DEF CancelUnpaidBooking, CancelChargeInFlight, CancelAuthorizedBooking,
         CancelBooking
<1>2. \A c \in Bookings, j \in Ids : c # b => row'[c, j] = row[c, j]
  BY <1>1, CancelledRows
<1> QED BY <1>1, <1>2, LeavesUnraised DEF Undeclared

LEMMA ConfirmUnraised ==
  ASSUME DbTypeOK, NEW b \in Bookings, NEW k \in Ids, ConfirmBooking(b, k)
  PROVE  /\ Unraised /\ Undeclared
         /\ ConfirmOutcome(b, k) = "confirmed" => status'[b] = "confirmed"
<1> DEFINE out == ConfirmOutcome(b, k)
<1>1. /\ status' = [status EXCEPT ![b] =
                       CASE out = "confirmed" -> "confirmed"
                         [] Live(b) /\ dep.cancelled
                              /\ out # "already_processed" -> "cancelled"
                         [] OTHER -> @]
      /\ row' = IF out \in {"already_processed", "ignored"} THEN row
                ELSE [row EXCEPT ![<<b, k>>] = "succeeded"]
      /\ UNCHANGED <<mark, dep>>
  BY DEF ConfirmBooking
<1>2. /\ \/ out \in {"already_processed", "ignored", "confirmed"}
         \/ status[b] \in {"confirmed", "cancelled"} \/ (Live(b) /\ dep.cancelled)
      /\ out = "confirmed" => ~(Live(b) /\ dep.cancelled)
  BY DEF ConfirmOutcome
<1> HIDE DEF out
<1>3. \A c \in Bookings, j \in Ids : c # b => row'[c, j] = row[c, j]
  BY <1>1, OneRow
<1>4. \A c \in Bookings : c # b => status'[c] = status[c]
  BY <1>1, StatusUpdate
<1>5. CASE out \in {"already_processed", "ignored"}
  <2>1. status'[b] = status[b] \/ ~Charging(b)'
    BY <1>1, <1>5 DEF DbTypeOK, Charging
  <2> QED BY <1>1, <1>4, <1>5, <2>1 DEF Unraised, Charging, Pending, Undeclared, out
<1>6. CASE out \notin {"already_processed", "ignored"}
  <2>1. ~Charging(b)' /\ (out = "confirmed" => status'[b] = "confirmed")
    <3>1. CASE out = "confirmed"
      <4>1. status' = [status EXCEPT ![b] = "confirmed"]
        BY <1>1, <1>2, <3>1
      <4>2. status'[b] = "confirmed"
        BY <4>1, StatusUpdate
      <4> QED BY <4>2 DEF Charging
    <3>2. CASE out # "confirmed" /\ Live(b) /\ dep.cancelled
      <4>1. status' = [status EXCEPT ![b] = "cancelled"]
        BY <1>1, <1>6, <3>2
      <4>2. status'[b] = "cancelled"
        BY <4>1, StatusUpdate
      <4> QED BY <3>2, <4>2 DEF Charging
    <3>3. CASE out # "confirmed" /\ status[b] \in {"confirmed", "cancelled"}
      <4>1. status' = [status EXCEPT ![b] = status[b]]
        BY <1>1, <3>3 DEF Live
      <4> QED BY <3>3, <4>1, StatusUpdate DEF Charging
    <3> QED BY <1>2, <1>6, <3>1, <3>2, <3>3
  <2> QED BY <1>1, <1>3, <1>4, <2>1, EndsUnraised DEF Undeclared, out
<1> QED BY <1>5, <1>6

LEMMA IntentClosedUnraised ==
  ASSUME DbTypeOK, NEW b \in Bookings, NEW k \in Ids, RecordIntentClosed(b, k)
  PROVE  Unraised /\ Undeclared
<1>1. CASE status[b] = "cancelled"
  <2>1. \A c \in Bookings, j \in Ids : c # b => row'[c, j] = row[c, j]
    <3>1. row' = row \/ row' = [row EXCEPT ![<<b, k>>] = "closed"]
      BY DEF RecordIntentClosed
    <3> QED BY <3>1, OneRow
  <2> QED BY <1>1, <2>1, EndsUnraised DEF RecordIntentClosed, Charging, Undeclared
<1>2. CASE status[b] # "cancelled"
  BY <1>2, SameRaisesNothing DEF RecordIntentClosed, Undeclared
<1> QED BY <1>1, <1>2

LEMMA ResolveUnraised ==
  ASSUME NEW r, ResolveDepartureMinimum(r)
  PROVE  Unraised
<1>1. CASE Cancelling(r)
  BY <1>1 DEF ResolveDepartureMinimum, Unraised, Charging
<1>2. CASE ~Cancelling(r)
  BY <1>2, SameRaisesNothing DEF ResolveDepartureMinimum
<1> QED BY <1>1, <1>2

LEMMA OtherUndeclared ==
  ASSUME DbTypeOK, NEW r, r # "reached",
         \/ ResolveDepartureMinimum(r) \/ OpenDepartureCharge \/ CloseDepartureCharge
  PROVE  Undeclared
  BY DEF ResolveDepartureMinimum, OpenDepartureCharge, CloseDepartureCharge,
         DbTypeOK, Departure, Undeclared

\* Watchdog, sweep, requests and the rest: the engine does not move.
Aside == Unraised /\ Undeclared /\ UNCHANGED eng

LEMMA QuietCaptures == ASSUME CaptureInv, Aside PROVE CaptureInv'
<1>1. HasRows'
  BY RowsUnraised DEF CaptureInv, Aside
<1>2. \A b \in Bookings : HasAuthorization(b)' => HasAuthorization(b)
  BY HoldsUnraised DEF Aside
<1>3. NobodyLeft'
  BY <1>2 DEF CaptureInv, NobodyLeft, Listed, Aside
<1> QED BY <1>1, <1>3 DEF CaptureInv

LEMMA SameIsQuiet == ASSUME UNCHANGED <<db, eng>> PROVE Aside
  BY SameRaisesNothing DEF db, Aside, Undeclared

LEMMA WatchIsQuiet == ASSUME IInv, WatchStep \/ WdAbort PROVE Aside
<1>1. CASE WdAbort \/ WdGet \/ WdCancelIntent
             \/ \E b \in Bookings : WdInFlight(b) \/ WdUnpaid(b)
  BY <1>1, SameIsQuiet DEF WdAbort, WdGet, WdCancelIntent, WdInFlight, WdUnpaid,
                           WatchOnly
<1>2. CASE WdDo
  <2>1. /\ DbTypeOK /\ wd.b \in Bookings /\ UNCHANGED eng
        /\ wd.act \in WatchActs /\ (wd.act # "cancel" => wd.k \in Ids)
    BY <1>2 DEF WdDo, IInv, TypeOK, WatchTypeOK, WatchType
  <2>2. CASE wd.act = "settle"
    BY <1>2, <2>1, <2>2, ConfirmUnraised DEF WdDo, Aside
  <2>3. CASE wd.act = "register_action"
    BY <1>2, <2>1, <2>3, ActionUnraised DEF WdDo, Aside
  <2>4. CASE wd.act \in {"record_retryable", "record_terminal"}
    BY <1>2, <2>1, <2>4, FailUnraised DEF WdDo, Aside
  <2>5. CASE wd.act \in {"wait", "cancel"}
    <3>1. UNCHANGED db \/ CancelUnpaidBooking(wd.b) \/ CancelChargeInFlight(wd.b)
      BY <1>2, <2>5 DEF WdDo
    <3> QED BY <2>1, <3>1, SameIsQuiet, CancelsUnraised DEF Aside
  <2> QED BY <2>1, <2>2, <2>3, <2>4, <2>5 DEF WatchActs
<1> QED BY <1>1, <1>2 DEF WatchStep

LEMMA SweepIsQuiet == ASSUME IInv, SweepStep \/ SwAbort PROVE Aside
<1>1. CASE SwAbort \/ \E b \in Bookings, k \in Ids : SwGet(b, k)
  BY <1>1, SameIsQuiet DEF SwAbort, SwGet
<1>2. CASE SwDo
  <2>1. DbTypeOK /\ sw.b \in Bookings /\ sw.k \in Ids /\ UNCHANGED eng
    BY <1>2 DEF SwDo, IInv, TypeOK, SweepTypeOK
  <2>2. \/ ConfirmBooking(sw.b, sw.k) \/ UNCHANGED db
        \/ RecordIntentClosed(sw.b, sw.k)
    BY <1>2 DEF SwDo
  <2> QED BY <2>1, <2>2, ConfirmUnraised, IntentClosedUnraised, SameIsQuiet DEF Aside
<1> QED BY <1>1, <1>2 DEF SweepStep

LEMMA WebIsQuiet ==
  ASSUME IInv, NEW c \in Callers, WebStep(c) \/ WebCrash(c) PROVE Aside
<1>1. DbTypeOK /\ UNCHANGED eng /\ (web[c].pc # "idle" => web[c].b \in Bookings)
  BY DEF IInv, TypeOK, WebTypeOK, WebStep, WebCrash, WebClaim, WebUnpaid, WebRead,
         WebRelease, WebCheck, WebUnclaim, WebClose, WebDb
<1>2. ASSUME NEW b \in Bookings, WebClaim(c, b) PROVE Aside
  <2>1. UNCHANGED db \/ ClaimAuthorizationCancel(b)
    BY <1>2 DEF WebClaim
  <2> QED BY <1>1, <2>1, MarksUnraised, SameIsQuiet DEF Aside
<1>3. CASE WebUnpaid(c) \/ WebClose(c)
  <2>1. /\ web[c].b \in Bookings
        /\ \/ CancelUnpaidBooking(web[c].b) \/ UNCHANGED db
           \/ CancelAuthorizedBooking(web[c].b)
    BY <1>1, <1>3 DEF WebUnpaid, WebClose
  <2> QED BY <1>1, <2>1, CancelsUnraised, SameIsQuiet DEF Aside
<1>4. CASE WebUnclaim(c)
  BY <1>1, <1>4, MarksUnraised DEF WebUnclaim, Aside
<1>5. CASE WebRead(c) \/ WebRelease(c) \/ WebCheck(c) \/ WebCrash(c)
  BY <1>1, <1>5, SameIsQuiet DEF WebRead, WebRelease, WebCheck, WebCrash
<1> QED BY <1>2, <1>3, <1>4, <1>5 DEF WebStep

LEMMA EnvironmentIsQuiet == ASSUME IInv, Environment PROVE Aside
<1>1. DbTypeOK
  BY DEF IInv, TypeOK
<1>2. ASSUME NEW b \in Bookings, Book(b) \/ CancelPaid(b) \/ MarkGrowsOld(b)
      PROVE  Aside
  <2>1. UNCHANGED eng
    BY <1>2 DEF Book, CancelPaid, MarkGrowsOld, Elsewhere
  <2> QED BY <1>1, <1>2, <2>1, BookUnraised, CancelsUnraised, MarksUnraised
          DEF Book, CancelPaid, Aside
<1>3. ASSUME NEW r \in {"staff_confirmed", "staff_cancelled"}, StaffDecides(r)
      PROVE  Aside
  BY <1>1, <1>3, ResolveUnraised, OtherUndeclared DEF StaffDecides, Elsewhere, Aside
<1>4. ASSUME NEW b \in Bookings, NEW k \in Ids, Webhook(b, k) PROVE Aside
  BY <1>1, <1>4, ConfirmUnraised DEF Webhook, Elsewhere, Aside
<1>5. ASSUME NEW b \in Bookings, NEW k \in Ids, GatewayMoves(b, k) PROVE Aside
  BY <1>5, SameIsQuiet DEF GatewayMoves, Elsewhere
<1>6. CASE TimePasses
  BY <1>6, SameRaisesNothing DEF TimePasses, Tick, Elsewhere, Aside, Undeclared
<1> QED BY <1>2, <1>3, <1>4, <1>5, <1>6 DEF Environment

\* A step of the engine outside the captures
Apart == HasRows' /\ Undeclared /\ eng'.pc \notin Capturing

LEMMA ApartCaptures == ASSUME Apart PROVE CaptureInv'
  BY DEF Apart, CaptureInv, NobodyLeft, Capturing, Holds, Declaring

LEMMA OutsideFields ==
  ASSUME EngineTypeOK
  PROVE  /\ Stop => eng'.pc \notin Capturing
         /\ \A pc \in EnginePcs \ Capturing :
               /\ Goto(pc) => eng'.pc \notin Capturing
               /\ \A ok : Resume(pc, ok) => eng'.pc \notin Capturing
  BY EngineFields DEF Stop, EngineIdle, Capturing, Holds, Declaring

LEMMA ReadsApart ==
  ASSUME IInv, CaptureInv,
         \/ EngStart \/ EngFetchAuth \/ EngAdoptGet \/ EngAttemptGet \/ EngDiscard
         \/ EngCreate \/ EngDrop \/ EngConfirm \/ EngAuthDone \/ EngDecide \/ EngBefore
         \/ EngFetchRelease \/ EngReleaseGet \/ EngReleaseCancel \/ EngReleaseDone
         \/ EngAbort
         \/ \E b \in Bookings : EngLookup(b) \/ EngReleaseLookup(b)
  PROVE  Apart
<1>1. EngineTypeOK /\ eng \in EngineType
  BY DEF IInv, TypeOK, EngineTypeOK
<1>2. UNCHANGED db
  BY DEF EngStart, EngFetchAuth, EngAdoptGet, EngAttemptGet, EngDiscard, EngCreate,
         EngDrop, EngConfirm, EngAuthDone, EngDecide, EngBefore, EngFetchRelease,
         EngReleaseGet, EngReleaseCancel, EngReleaseDone, EngAbort, EngLookup,
         EngReleaseLookup, EngineOnly, EngineRemote
<1>3. HasRows' /\ Undeclared
  BY <1>2, SameRaisesNothing, RowsUnraised DEF db, Undeclared, CaptureInv
<1>4. eng'.pc \notin Capturing
  <2>1. CASE EngAdoptGet \/ EngAttemptGet \/ EngDiscard \/ EngDrop \/ EngAuthDone
               \/ EngDecide \/ EngBefore \/ EngReleaseGet \/ EngReleaseCancel
               \/ EngReleaseDone \/ EngAbort
    <3>1. \/ \E pc \in EnginePcs \ Capturing : Goto(pc) \/ \E ok : Resume(pc, ok)
          \/ Stop
          \/ eng' = [eng EXCEPT !.pc = "register", !.reply = Get(eng.b, eng.k)]
      BY <2>1 DEF EngAdoptGet, EngAttemptGet, EngDiscard, EngDrop, EngAuthDone,
           EngDecide, EngBefore, EngReleaseGet, EngReleaseCancel, EngReleaseDone,
           EngAbort, EnginePcs, Capturing, Holds, Declaring
    <3> QED BY <1>1, <3>1, OutsideFields DEF EngineType, Capturing, Holds, Declaring
  <2>2. CASE EngStart
    BY <2>2 DEF EngStart, EngineIdle, Capturing, Holds, Declaring
  <2>3. CASE EngFetchAuth \/ EngFetchRelease
    BY <1>1, <2>3 DEF EngFetchAuth, EngFetchRelease, EngineType, Capturing, Holds,
                      Declaring
  <2>4. CASE EngCreate
    <3>1. Resume("auth", TRUE) \/ \E k : eng' = [eng EXCEPT !.pc = "start", !.k = k]
      BY <2>4 DEF EngCreate
    <3> QED BY <1>1, <3>1, OutsideFields DEF EngineType, EnginePcs, Capturing, Holds,
                                             Declaring
  <2>5. CASE EngConfirm
    <3>1. Stop \/ \E s : eng' = [eng EXCEPT !.pc = "confirmed", !.reply = s]
      BY <2>5 DEF EngConfirm
    <3>2. CASE Stop
      BY <1>1, <3>2, OutsideFields
    <3>3. CASE ~Stop
      BY <1>1, <3>1, <3>3 DEF EngineType, Capturing, Holds, Declaring
    <3> QED BY <3>2, <3>3
  <2>6. ASSUME NEW b \in Bookings, EngLookup(b) \/ EngReleaseLookup(b)
        PROVE  eng'.pc \notin Capturing
    <3>1. CASE EngLookup(b)
      <4>1. eng'.pc \in {"adoptGet", "auth", "attemptGet", "create"}
        BY <1>1, <3>1 DEF EngLookup, EngineType
      <4> QED BY <4>1 DEF Capturing, Holds, Declaring
    <3>2. CASE EngReleaseLookup(b)
      <4>1. eng'.pc \in {"rel", "relGet"}
        BY <1>1, <3>2 DEF EngReleaseLookup, EngineType
      <4> QED BY <4>1 DEF Capturing, Holds, Declaring
    <3> QED BY <2>6, <3>1, <3>2
  <2> QED BY <2>1, <2>2, <2>3, <2>4, <2>5, <2>6
<1> QED BY <1>3, <1>4 DEF Apart

\* The engine writes outside the captures: only here is a hold recorded.
LEMMA WritesApart ==
  ASSUME IInv, CaptureInv,
         \/ EngOpen \/ EngClosePay \/ EngDiscarded \/ EngStartCharge \/ EngRegister
         \/ EngReleaseDb \/ EngClose \/ EngAutoCancel
         \/ \E b \in Bookings : EngClear(b)
  PROVE  Apart
<1>1. DbTypeOK /\ EngineTypeOK /\ eng \in EngineType /\ HasRows
  BY DEF IInv, TypeOK, EngineTypeOK, CaptureInv
<1>2. ASSUME Unraised \/ UNCHANGED db PROVE HasRows'
  BY <1>1, <1>2, RowsUnraised, SameRaisesNothing DEF db
<1>3. CASE EngOpen
  <2>1. Unraised /\ Undeclared
    BY <1>1, <1>3, SameRaisesNothing, OtherUndeclared
       DEF EngOpen, OpenDepartureCharge, db, Undeclared
  <2>2. eng'.pc \notin Capturing
    BY <1>1, <1>3, OutsideFields DEF EngOpen, EngineType, Capturing, Holds, Declaring
  <2> QED BY <1>2, <2>1, <2>2 DEF Apart
<1>4. CASE EngClosePay \/ EngDiscarded
  <2>1. eng.b \in Bookings /\ eng.k \in Ids
    BY <1>4, BusyLemma DEF EngClosePay, EngDiscarded, HasBooking, EnginePcs
  <2>2. Unraised /\ Undeclared
    BY <1>1, <1>4, <2>1, ClosePayUnraised DEF EngClosePay, EngDiscarded
  <2>3. Goto("create") \/ Resume("auth", TRUE)
    BY <1>4 DEF EngClosePay, EngDiscarded
  <2> QED BY <1>1, <1>2, <2>2, <2>3, OutsideFields
          DEF Apart, EnginePcs, Capturing, Holds, Declaring
<1>5. CASE EngStartCharge
  <2>1. eng.b \in Bookings /\ eng.k \in Ids
    BY <1>5, BusyLemma DEF EngStartCharge, HasBooking, EnginePcs
  <2>2. Goto("confirm") \/ Goto("drop")
    BY <1>5 DEF EngStartCharge
  <2>3. HasRows' /\ Undeclared
    <3>1. CASE ChargeBookingStart(eng.b, eng.k)
      <4>1. PICK b \in Bookings, k \in Ids : ChargeBookingStart(b, k)
        BY <2>1, <3>1
      <4>2. row'[b, k] = "pending"
        BY <1>1, <4>1, RowSet DEF ChargeBookingStart
      <4>3. \A c \in Bookings, j \in Ids : c # b => row'[c, j] = row[c, j]
        BY <1>1, <4>1, OneRow DEF ChargeBookingStart
      <4>4. \A c \in Bookings : c # b => status'[c] = status[c]
        BY <1>1, <4>1, StatusUpdate DEF ChargeBookingStart
      <4>5. \A c \in Bookings : HasRow(c)'
        BY <1>1, <4>2, <4>3, <4>4 DEF HasRows, HasRow, Pending, Charging
      <4> QED BY <3>1, <4>5 DEF HasRows, ChargeBookingStart, Undeclared
    <3>2. CASE UNCHANGED db
      BY <1>2, <3>2 DEF db, Undeclared
    <3> QED BY <1>5, <3>1, <3>2 DEF EngStartCharge
  <2> QED BY <1>1, <2>2, <2>3, OutsideFields
          DEF Apart, EnginePcs, Capturing, Holds, Declaring
<1>6. CASE EngRegister
  <2>1. eng.b \in Bookings /\ eng.k \in Ids /\ Resume("auth", TRUE)
    BY <1>6, BusyLemma DEF EngRegister, HasBooking, EnginePcs
  <2>2. HasRows' /\ Undeclared
    <3>1. \/ RecordAuthorization(eng.b, eng.k) \/ ChargeRequiresAction(eng.b, eng.k)
          \/ ConfirmBooking(eng.b, eng.k) \/ UNCHANGED db
          \/ \E t \in BOOLEAN : ChargeAttemptFailed(eng.b, eng.k, t)
      BY <1>6 DEF EngRegister, Register
    <3>2. CASE RecordAuthorization(eng.b, eng.k)
      BY <1>1, <3>2 DEF RecordAuthorization, HasRows, HasRow, Charging, Pending,
                        Undeclared
    <3>3. CASE UNCHANGED db
      BY <1>2, <3>3 DEF db, Undeclared
    <3> QED BY <1>1, <1>2, <2>1, <3>1, <3>2, <3>3, ActionUnraised, ConfirmUnraised,
               FailUnraised
  <2> QED BY <1>1, <2>1, <2>2, OutsideFields
          DEF Apart, EnginePcs, Capturing, Holds, Declaring
<1>7. CASE EngReleaseDb
  <2>1. eng.b \in Bookings /\ eng.k \in Ids
    BY <1>7, BusyLemma DEF EngReleaseDb, HasBooking, EnginePcs
  <2>2. Unraised /\ Undeclared /\ Resume("rel", TRUE)
    BY <1>1, <1>7, <2>1, ReleaseUnraised DEF EngReleaseDb
  <2> QED BY <1>1, <1>2, <2>2, OutsideFields
          DEF Apart, EnginePcs, Capturing, Holds, Declaring
<1>8. CASE EngClose \/ EngAutoCancel
  <2>1. /\ Stop
        /\ \/ CloseDepartureCharge \/ UNCHANGED db
           \/ ResolveDepartureMinimum("auto_cancelled")
    BY <1>8 DEF EngClose, EngAutoCancel
  <2>2. Unraised
    BY <2>1, SameRaisesNothing, ResolveUnraised DEF CloseDepartureCharge, db
  <2>3. Undeclared
    BY <1>1, <2>1, OtherUndeclared DEF db, Undeclared
  <2> QED BY <1>1, <1>2, <2>1, <2>2, <2>3, OutsideFields DEF Apart
<1>9. ASSUME NEW b \in Bookings, EngClear(b) PROVE Apart
  <2>1. Unraised /\ Undeclared
    BY <1>1, <1>9, MarksUnraised DEF EngClear
  <2>2. eng'.pc = "auth"
    BY <1>1, <1>9 DEF EngClear, EngineType
  <2> QED BY <1>2, <2>1, <2>2 DEF Apart, Capturing, Holds, Declaring
<1> QED BY <1>3, <1>4, <1>5, <1>6, <1>7, <1>8, <1>9

\* What the list, the booking in hand and the outcome so far become
LEMMA ListFields ==
  ASSUME EngineTypeOK, NEW pc
  PROVE  /\ Goto(pc) => /\ eng'.pc = pc /\ eng'.b = eng.b /\ eng'.ok = eng.ok
                        /\ eng'.todo = eng.todo
         /\ \A ok : Resume(pc, ok) => /\ eng'.pc = pc /\ (eng'.ok => eng.ok /\ ok)
                                      /\ eng'.todo = eng.todo
         /\ \A s : eng' = [eng EXCEPT !.pc = pc, !.reply = s] =>
                /\ eng'.pc = pc /\ eng'.b = eng.b /\ eng'.ok = eng.ok
                /\ eng'.todo = eng.todo
  BY DEF EngineTypeOK, EngineType, Goto, Resume

\* The engine goes on with the booking it has in hand.
LEMMA InHandStays ==
  ASSUME CaptureInv, Unraised, eng.pc \in Holds, eng'.pc \in Holds,
         eng'.b = eng.b, eng'.ok = eng.ok, eng'.todo = eng.todo
  PROVE  CaptureInv'
<1>1. HasRows'
  BY RowsUnraised DEF CaptureInv
<1>2. \A b \in Bookings : HasAuthorization(b)' => HasAuthorization(b)
  BY HoldsUnraised
<1>3. NobodyLeft'
  BY <1>2 DEF CaptureInv, NobodyLeft, Listed, Holds, Declaring
<1> QED BY <1>1, <1>3 DEF CaptureInv

\* It is done with the booking: it was captured, or the run did not capture all.
LEMMA InHandIsDone ==
  ASSUME CaptureInv, Unraised, eng.pc \in Holds, eng'.pc = "cap", eng.b \in Bookings,
         eng'.ok => eng.ok, eng'.todo = eng.todo, NEW b \in Bookings, b = eng.b,
         eng'.ok => ~HasAuthorization(b)'
  PROVE  CaptureInv'
<1>1. HasRows'
  BY RowsUnraised DEF CaptureInv
<1>2. \A c \in Bookings : HasAuthorization(c)' => HasAuthorization(c)
  BY HoldsUnraised
<1>3. eng'.ok => \A c \in Bookings : Listed(c)'
  BY <1>2 DEF CaptureInv, NobodyLeft, Listed
<1> QED BY <1>1, <1>3 DEF CaptureInv, NobodyLeft, Holds, Declaring

LEMMA ListCaptures ==
  ASSUME IInv, CaptureInv,
         EngFetchCapture \/ \E b \in Bookings : EngCaptureLookup(b)
  PROVE  CaptureInv' /\ Undeclared
<1>1. EngineTypeOK /\ eng \in EngineType
  BY DEF IInv, TypeOK, EngineTypeOK
<1>2. UNCHANGED <<status, mark, row, dep>>
  BY DEF EngFetchCapture, EngCaptureLookup, EngineOnly, db
<1>3. HasRows' /\ Undeclared
  BY <1>2, SameRaisesNothing, RowsUnraised DEF Undeclared, CaptureInv
<1>4. CASE EngFetchCapture
  <2>1. /\ eng'.pc = "cap"
        /\ eng'.ok = \A b \in Bookings : HasAuthorization(b) => mark[b].claim = "none"
        /\ eng'.todo = [b \in Bookings |->
              IF HasAuthorization(b) /\ mark[b].claim = "none"
              THEN {"capture"} ELSE {}]
    BY <1>1, <1>4 DEF EngFetchCapture, EngineType
  <2>2. eng'.ok => \A b \in Bookings : Listed(b)'
    BY <1>2, <2>1 DEF Listed, HasAuthorization
  <2> QED BY <1>3, <2>1, <2>2 DEF CaptureInv, NobodyLeft, Holds, Declaring
<1>5. ASSUME NEW b \in Bookings, EngCaptureLookup(b) PROVE CaptureInv'
  <2>1. /\ eng.pc = "cap" /\ eng'.ok = eng.ok /\ eng'.b = b
        /\ eng'.pc = IF PendingOf(b) = NoId THEN "cap" ELSE "capMark"
        /\ \A c \in Bookings : c # b => eng'.todo[c] = eng.todo[c]
    BY <1>1, <1>5 DEF EngCaptureLookup, Taken, EngineType
  <2>2. PendingOf(b) = NoId => ~HasAuthorization(b)
    <3>1. PendingOf(b) = NoId => PendingIds(b) = {}
      BY NatLemma DEF PendingOf, PendingIds
    <3> QED BY <3>1 DEF CaptureInv, HasRows, HasRow, HasAuthorization, Charging,
                        Pending, PendingIds
  <2>3. eng'.ok => \A c \in Bookings : c # b => Listed(c)'
    BY <1>2, <2>1 DEF CaptureInv, NobodyLeft, Listed, HasAuthorization
  <2>4. CASE PendingOf(b) = NoId
    <3>1. eng'.pc = "cap" /\ ~HasAuthorization(b)'
      BY <1>2, <2>1, <2>2, <2>4 DEF HasAuthorization
    <3> QED BY <1>3, <2>3, <3>1 DEF CaptureInv, NobodyLeft, Listed, Holds, Declaring
  <2>5. CASE PendingOf(b) # NoId
    <3>1. eng'.pc = "capMark"
      BY <2>1, <2>5
    <3> QED BY <1>3, <2>1, <2>3, <3>1 DEF CaptureInv, NobodyLeft, Holds, Declaring
  <2> QED BY <2>4, <2>5
<1> QED BY <1>3, <1>4, <1>5

LEMMA HandCaptures ==
  ASSUME IInv, CaptureInv, EngMark \/ EngCapture \/ EngReget \/ EngCaptured
  PROVE  CaptureInv' /\ Undeclared
<1>1. /\ DbTypeOK /\ EngineTypeOK /\ eng.pc \in Holds
      /\ eng.b \in Bookings /\ eng.k \in Ids
  BY BusyLemma DEF EngMark, EngCapture, EngReget, EngCaptured, HasBooking, EnginePcs,
                   Holds
<1>2. CASE EngMark
  <2>1. CASE CanMarkCapture(eng.b)
    <3>1. MarkCaptureStarted(eng.b) /\ Goto("capture")
      BY <1>2, <2>1 DEF EngMark
    <3>2. Unraised /\ Undeclared
      BY <1>1, <3>1, MarksUnraised
    <3> QED BY <1>1, <3>1, <3>2, ListFields, InHandStays DEF Holds
  <2>2. CASE ~CanMarkCapture(eng.b)
    <3>1. UNCHANGED db /\ Resume("cap", FALSE)
      BY <1>2, <2>2 DEF EngMark
    <3> QED BY <1>1, <3>1, ListFields, SameRaisesNothing, InHandIsDone
            DEF db, Undeclared
  <2> QED BY <2>1, <2>2
<1>3. CASE EngCapture
  <2>1. /\ UNCHANGED db
        /\ Goto("reget") \/ \E s : eng' = [eng EXCEPT !.pc = "captured", !.reply = s]
    BY <1>3 DEF EngCapture, EngineRemote
  <2> QED BY <1>1, <2>1, ListFields, SameRaisesNothing, InHandStays
          DEF db, Undeclared, Holds
<1>4. CASE EngReget
  <2>1. /\ UNCHANGED db
        /\ \/ eng' = [eng EXCEPT !.pc = "captured", !.reply = Get(eng.b, eng.k)]
           \/ Resume("cap", FALSE)
    BY <1>4 DEF EngReget, EngineRemote
  <2>2. CASE Resume("cap", FALSE)
    BY <1>1, <2>1, <2>2, ListFields, SameRaisesNothing, InHandIsDone
       DEF db, Undeclared
  <2>3. CASE eng' = [eng EXCEPT !.pc = "captured", !.reply = Get(eng.b, eng.k)]
    BY <1>1, <2>1, <2>3, ListFields, SameRaisesNothing, InHandStays
       DEF db, Undeclared, Holds
  <2> QED BY <2>1, <2>2, <2>3
<1>5. CASE EngCaptured
  <2>1. PICK b \in Bookings, k \in Ids : b = eng.b /\ k = eng.k
    BY <1>1
  <2>2. /\ eng'.pc = "cap" /\ eng'.todo = eng.todo /\ (eng'.ok => eng.ok)
        /\ eng'.ok =>
              eng.reply = "succeeded" /\ ConfirmOutcome(b, k) = "confirmed"
    <3> HIDE DEF ConfirmOutcome
    <3>1. Resume("cap", eng.reply = "succeeded"
                          /\ ConfirmOutcome(eng.b, eng.k) = "confirmed")
      BY <1>5 DEF EngCaptured
    <3> QED BY <1>1, <2>1, <3>1, ListFields
  <2>3. CASE eng.reply = "succeeded"
    <3>1. ConfirmBooking(b, k)
      BY <1>5, <2>1, <2>3 DEF EngCaptured
    <3>2. Unraised /\ Undeclared /\ (eng'.ok => status'[b] = "confirmed")
      BY <1>1, <2>2, <3>1, ConfirmUnraised
    <3>3. eng'.ok => ~HasAuthorization(b)'
      BY <3>2 DEF HasAuthorization
    <3> QED BY <1>1, <2>1, <2>2, <3>2, <3>3, InHandIsDone
  <2>4. CASE eng.reply # "succeeded"
    <3>1. UNCHANGED db \/ ChargeAttemptFailed(b, k, TRUE)
      BY <1>5, <2>1, <2>4 DEF EngCaptured
    <3>2. Unraised /\ Undeclared
      BY <1>1, <3>1, FailUnraised, SameRaisesNothing DEF db, Undeclared
    <3> QED BY <1>1, <2>1, <2>2, <2>4, <3>2, InHandIsDone
  <2> QED BY <2>3, <2>4
<1> QED BY <1>2, <1>3, <1>4, <1>5

LEMMA DeclareCaptures ==
  ASSUME IInv, CaptureInv, EngCaptureDone \/ EngRecount
  PROVE  CaptureInv' /\ Undeclared
<1>1. EngineTypeOK
  BY DEF IInv, TypeOK
<1>2. UNCHANGED <<status, mark, row, dep>>
  BY DEF EngCaptureDone, EngRecount, EngineOnly, db
<1>3. HasRows' /\ Undeclared
  BY <1>2, SameRaisesNothing, RowsUnraised DEF Undeclared, CaptureInv
<1>4. CASE Stop
  BY <1>3, <1>4, OutsideFields, ApartCaptures, <1>1 DEF Apart
<1>5. CASE ~Stop
  <2>1. eng'.pc \in Declaring
    BY <1>1, <1>5, ListFields DEF EngCaptureDone, EngRecount, Declaring
  <2>2. \A b \in Bookings : ~HasAuthorization(b)
    BY <1>5 DEF EngCaptureDone, EngRecount, CaptureInv, NobodyLeft, Listed, ListDone,
                Declaring
  <2>3. \A b \in Bookings : ~HasAuthorization(b)'
    BY <1>2, <2>2 DEF HasAuthorization
  <2> QED BY <1>3, <2>1, <2>3 DEF CaptureInv, NobodyLeft, Holds, Declaring
<1> QED BY <1>4, <1>5

LEMMA ResolveCaptures ==
  ASSUME IInv, CaptureInv, EngResolve
  PROVE  CaptureInv' /\ \A b \in Bookings : ~HasAuthorization(b)
<1>1. EngineTypeOK /\ Stop /\ eng.pc = "resolve"
  BY DEF IInv, TypeOK, EngResolve
<1>2. Unraised
  BY ResolveUnraised, SameRaisesNothing DEF EngResolve, db
<1>3. HasRows' /\ eng'.pc \notin Capturing
  BY <1>1, <1>2, RowsUnraised, OutsideFields DEF CaptureInv
<1> QED BY <1>1, <1>3 DEF CaptureInv, NobodyLeft, Capturing, Holds, Declaring

\* Before the minimum is declared reached
Declares == dep.resolution = "none" /\ dep'.resolution = "reached" =>
                \A b \in Bookings : ~HasAuthorization(b)

LEMMA NextCaptures == ASSUME IInv, CaptureInv, [Next]_vars PROVE CaptureInv' /\ Declares
<1>1. Undeclared => Declares
  BY DEF Undeclared, Declares
<1>2. CASE EngResolve
  BY <1>2, ResolveCaptures DEF Declares
<1>3. ASSUME EngineStep \/ EngAbort, ~EngResolve PROVE CaptureInv' /\ Undeclared
  <2>1. Apart => CaptureInv' /\ Undeclared
    BY ApartCaptures DEF Apart
  <2> QED BY <1>3, <2>1, ReadsApart, WritesApart, ListCaptures, HandCaptures,
             DeclareCaptures DEF EngineStep
<1>4. ASSUME Aside PROVE CaptureInv' /\ Undeclared
  BY <1>4, QuietCaptures DEF Aside
<1>5. CASE UNCHANGED vars
  BY <1>1, <1>4, <1>5, SameIsQuiet DEF vars
<1> QED BY <1>1, <1>2, <1>3, <1>4, <1>5, WatchIsQuiet, SweepIsQuiet, WebIsQuiet,
           EnvironmentIsQuiet DEF Next, Crash

\* A booking that is being charged has a row that is pending, and in a run that
\* has captured all so far, nobody who authorized is missing from its list.
THEOREM CapturesInvariant == Spec => []CaptureInv
<1>1. Init => CaptureInv
  BY DEF Init, DbInit, EngineIdle, CaptureInv, HasRows, HasRow, Charging, NobodyLeft,
         Holds, Declaring
<1>2. IInv /\ CaptureInv /\ [Next]_vars => CaptureInv'
  BY NextCaptures
<1> QED BY <1>1, <1>2, Inductive, PTL DEF Spec

\* The departure is declared reached only when nobody is left authorized, though
\* the list of the captures is many calls old by then: whoever was claimed by a
\* tourist, whose capture failed or was answered late, or who was cancelled
\* meanwhile makes the run end without the declaration or is no longer held.
THEOREM NobodyLeftBehind == Spec => ReachedCapturesAll
<1>1. IInv /\ CaptureInv /\ [Next]_vars =>
         [dep.resolution = "none" /\ dep'.resolution = "reached" =>
            \A b \in Bookings : ~HasAuthorization(b)]_vars
  BY NextCaptures DEF Declares
<1> QED BY <1>1, Inductive, CapturesInvariant, PTL DEF Spec, ReachedCapturesAll

=============================================================================
