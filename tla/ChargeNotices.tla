---------------------------- MODULE ChargeNotices ----------------------------
(***************************************************************************)
(* The mails of the deferred charge.  The functions of the database write  *)
(* their rows in the transaction that changes the booking; the job of      *)
(* Outbox reads a row, then the booking as it is by then, and sends what   *)
(* it found.  Everything of BookingLife happens in between.                *)
(*                                                                         *)
(* A mail is kept by what it says of the money and until when it says the  *)
(* tourist may act; its wording, its links' text and its language are not. *)
(***************************************************************************)
EXTENDS BookingLife

CONSTANTS
    Followed,   \* the kinds whose rows are followed, one in each behaviour
    Retries     \* MAX_ATTEMPTS of the job

VARIABLES notif, job, told

Q == INSTANCE Outbox WITH MaxAttempts <- Retries

notices == <<db, notif, job, told>>

-----------------------------------------------------------------------------
(* Rows written with a step of the database. *)

\* The kind of the n-th failure: charge_failed_action_required_1 to _3
FailedKind(n) == <<"failed", Least(n, 3)>>
FailedKinds   == {FailedKind(n) : n \in 1..3}

Reserved        == <<"booking_reserved", 0>>
Requires        == <<"charge_requires_action", 0>>
BelowMin        == <<"departure_cancelled_minimum", 0>>
CancelConfirmed == <<"cancellation_confirmation", 0>>

\* cancel_pending_charge_notifications
ChargeKinds == {Reserved, Requires} \cup FailedKinds

ASSUME FollowedAssumption ==
    Followed \subseteq ChargeKinds \cup {BelowMin, CancelConfirmed}

\* From the fourth failure on, the processed row of kind 3 gives way to a new
\* one.  Generations tell these rows apart: each has that of its failure.
GenOf(n) == n - Least(n, 3)

\* Mutant: the row that was processed stays, in the way of the new one.
NotReplaced(r, n) == r

Replaced(r, n) == IF r.status = "pending" THEN r
                  ELSE [Q!NoRow EXCEPT !.status = "pending", !.gen = GenOf(n)]

Ended(b) == status'[b] # status[b] /\ status'[b] \in {"confirmed", "cancelled"}

\* The departure takes its live bookings with it: cancel_booking_for_departure.
WithDeparture(b) == dep'.cancelled /\ ~dep.cancelled /\ Live(b)

RowAfter(b, kind) ==
    LET r      == notif[b, kind]
        made   == /\ kind = Reserved
                  /\ status[b] = "absent" /\ status'[b] # "absent"
        failed == /\ sched'[b].attempts > sched[b].attempts
                  /\ kind = FailedKind(sched'[b].attempts)
        asked  == /\ kind = Requires
                  /\ sched'[b].awaiting # Null /\ sched[b].awaiting = Null
    IN
    CASE made \/ asked -> Q!Inserted(r, Q!Now)
      [] failed ->
             IF sched'[b].attempts > 3 THEN Replaced(r, sched'[b].attempts)
             ELSE Q!Inserted(r, Q!Now)
      [] kind \in ChargeKinds /\ Ended(b) /\ ~(made \/ failed \/ asked) ->
             Q!Withdrawn(r)
      [] kind = BelowMin /\ WithDeparture(b) -> Q!Inserted(r, Q!Now)
      [] kind = CancelConfirmed /\ Ended(b) /\ status'[b] = "cancelled"
                            /\ ~WithDeparture(b) ->
             Q!Inserted(r, Q!Now)
      [] OTHER -> r

\* Rejections are recorded up to the bound.
WithinAttempts ==
    \A b \in Bookings, k \in Ids :
        CanFailAttempt(b, k) /\ sched[b].attempts = MaxAttempts
        => \A terminal \in BOOLEAN : ~ChargeAttemptFailed(b, k, terminal)

Change ==
    /\ Life \/ CancelledElsewhere
    /\ WithinAttempts
    /\ notif' = [q \in DOMAIN notif |-> RowAfter(q[1], q[2])]
    /\ UNCHANGED <<job, told>>

-----------------------------------------------------------------------------
(* prepare: what the mail says, from the booking as it is read now. *)

\* loadOpenCycleDeadline
OpenCycleDeadline == IF dep.resolution = "none" THEN dep.deadline ELSE Null

\* Mutant: the deadline of the booking, whatever the departure's is.
OwnDeadline(t) == t

\* promisedDeadline: the earlier of the two; a cycle that is over waits for a
\* person and does not count.
PromisedDeadline(t) ==
    IF IsFuture(OpenCycleDeadline) THEN Least(t, OpenCycleDeadline) ELSE t

ActBy(mail, t) ==
    [mail |-> mail, by |-> PromisedDeadline(t), link |-> t,
     cycle |-> IsFuture(OpenCycleDeadline)]

Charged(b) == PaidId(b) # NoId

\* Mutant: a booking with a saved card is told that nothing was charged.
NeverCharged(b) == TRUE

\* loadChargeSummary; every booking here has a saved card.
NoCharge(b) == ~Charged(b)

\* refundLineFor of the cancellation
RefundLine(b) == CASE refund[b] # NoId -> "refund"
                   [] OTHER -> IF NoCharge(b) THEN "no_charge" ELSE "no_refund"

ReservedMail(b) == IF Live(b) THEN [mail |-> "reserved"] ELSE Q!NotNow

\* The tourist may still give another card.
WaitsForCard(b) == status[b] = "pending_minimum" /\ IsFuture(sched[b].recovery)

CardMail(b) ==
    IF WaitsForCard(b)
    THEN ActBy("card", sched[b].recovery) ELSE Q!NotNow

AuthenticateMail(b) ==
    IF status[b] = "pending_payment" /\ IsFuture(sched[b].awaiting)
    THEN ActBy("authenticate", sched[b].awaiting) ELSE Q!NotNow

\* Its template says that nothing was charged, whatever the booking is by then.
BelowMinMail == [mail |-> "cancelled", money |-> "no_charge"]

CancelMail(b) == [mail |-> "cancelled", money |-> RefundLine(b)]

Mail(b, kind) == CASE kind = Reserved        -> ReservedMail(b)
                   [] kind \in FailedKinds   -> CardMail(b)
                   [] kind = Requires        -> AuthenticateMail(b)
                   [] kind = BelowMin        -> BelowMinMail
                   [] kind = CancelConfirmed -> CancelMail(b)

Post == /\ \/ \E q \in DOMAIN notif : Q!Fetch(q)
           \/ job.at = "read" /\ Q!Prepare(Mail(job.key[1], job.key[2]))
           \/ Q!Deliver
        /\ UNCHANGED db

NoticesInit == /\ DbInit
        /\ job = Q!Idle
        /\ \E kind \in Followed :
              /\ notif = [q \in Bookings \X {kind} |-> Q!NoRow]
              /\ told = [q \in Bookings \X {kind} |-> Q!Untold]

NoticesNext == Change \/ Post

NoticesSpec == NoticesInit /\ [][NoticesNext]_notices

-----------------------------------------------------------------------------
(* Properties. *)

\* Whoever was told that nothing was charged keeps no charge: one that is seen
\* afterwards is given back (cancellation and departure mails against
\* confirm_booking and cancel_booking).
NoChargeIsTrue ==
    \A q \in DOMAIN told :
        /\ told[q].about.mail = "cancelled"
        /\ told[q].about.money = "no_charge"
        /\ Charged(q[1])
        => refund[q[1]] # NoId

\* Every rejected charge is told (charge_attempt_failed against prepare and
\* cancelNotification): as it is recorded a notice of its kind waits to be sent,
\* and while the booking waits for another card nobody withdraws the notice
\* that was written for its last rejection.  From the fourth on that may be
\* none: a notice of the one before that was still pending is left to serve.
RejectionIsTold ==
    [][ \A q \in DOMAIN notif :
          LET b == q[1]
              n == sched'[b].attempts
          IN  q[2] = FailedKind(n) =>
                /\ n > sched[b].attempts => notif'[q].status = "pending"
                /\ /\ notif[q].status = "pending" /\ notif[q].gen = GenOf(n)
                   /\ notif'[q].status = "cancelled"
                   => ~WaitsForCard(b)' ]_notices

\* What is said of it (044:25, 047:986): while the booking waits for another
\* card, the notice of its last rejection was sent, is still to be sent, or
\* could not be sent.  From the fourth on the one left to serve may be withdrawn.
FailureIsTold ==
    \A q \in DOMAIN notif :
        /\ WaitsForCard(q[1]) /\ sched[q[1]].attempts > 0
        /\ q[2] = FailedKind(sched[q[1]].attempts)
        => notif[q].status \in {"pending", "sent", "failed"}

\* The system does not cancel a booking before the moment until which it told
\* the tourist to act, when the cycle of the departure was open as it told so.
DeadlineIsKept ==
    [][ \A q \in DOMAIN told :
            /\ told[q].about.mail \in {"card", "authenticate"}
            /\ told[q].about.cycle
            /\ Live(q[1]) /\ now < told[q].about.by
            => \/ ~(Cancelled(q[1])')
               \/ CancelledByHand(q[1]) \/ StaffResolves ]_notices

\* The same of every notice, also of those written before the cycle opened.
EveryDeadlineIsKept ==
    [][ \A q \in DOMAIN told :
            /\ told[q].about.mail \in {"card", "authenticate"}
            /\ Live(q[1]) /\ now < told[q].about.by
            => \/ ~(Cancelled(q[1])')
               \/ CancelledByHand(q[1]) \/ StaffResolves ]_notices

=============================================================================
