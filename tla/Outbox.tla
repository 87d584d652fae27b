------------------------------- MODULE Outbox -------------------------------
(***************************************************************************)
(* The queue of mails: table notifications and job send-notifications.     *)
(* Each booking has at most one row of each kind; enqueuing it again makes *)
(* the row pending with one generation more.  The job, one cycle at a      *)
(* time, reads the rows that are due and goes through them: prepare reads  *)
(* the booking as it is now, send calls the provider, and the result is    *)
(* written on the row.  Operations of the panel run between any two of     *)
(* these steps.  The job is modelled at one of the rows it read: what it   *)
(* read of the others is as old, and they are reached in another cycle.    *)
(*                                                                         *)
(* When a row is due and what prepare finds is the business of the module  *)
(* that extends this one.                                                  *)
(***************************************************************************)
EXTENDS Integers, FiniteSets

CONSTANTS
    Bookings,
    MaxAttempts  \* MAX_ATTEMPTS: retries after a first failure

ASSUME OutboxAssumption == IsFiniteSet(Bookings) /\ MaxAttempts \in Nat

VARIABLES
    notif,      \* notifications, by booking and kind
    job,        \* the row the cycle is at, and what it does with it
    told        \* the last mail of each row that the provider accepted

queue == <<notif, job, told>>

Kinds == {"booking_confirmation", "reminder_24h", "booking_rescheduled",
          "departure_cancelled", "cancellation_confirmation",
          "overbooked_refunded"}

\* The rows that are followed: a row never depends on another one.
Keys == DOMAIN notif

\* scheduled_for of the notices that do not wait for a departure
Now == 0

\* What prepare answers when the mail has no sense any more
NotNow == [mail |-> "none"]

NoRow   == [status |-> "none", gen |-> 0, attempts |-> 0, due |-> Now]
Idle    == [at |-> "idle"]
Untold  == [gen |-> -1, about |-> NotNow]

-----------------------------------------------------------------------------
(* Writes of the functions of the database. *)

\* enqueue_booking_notice, and the same upsert for the reminder of a new date
Enqueued(row, due) ==
    [status   |-> "pending",
     gen      |-> IF row.status = "none" THEN 0 ELSE row.gen + 1,
     attempts |-> 0,
     due      |-> due]

\* INSERT ... ON CONFLICT DO NOTHING
Inserted(row, due) == IF row.status = "none" THEN Enqueued(row, due) ELSE row

\* UPDATE ... WHERE status = 'pending'
Withdrawn(row) ==
    IF row.status = "pending" THEN [row EXCEPT !.status = "cancelled"] ELSE row

-----------------------------------------------------------------------------
(* The job. *)

Turn(n, at, about) ==
    job' = [at |-> at, key |-> n.key, gen |-> n.gen, attempts |-> n.attempts,
            about |-> about]

\* fetchPending
Fetch(k) ==
    /\ job = Idle
    /\ notif[k].status = "pending"
    /\ Turn([key |-> k, gen |-> notif[k].gen, attempts |-> notif[k].attempts],
            "read", NotNow)
    /\ UNCHANGED <<notif, told>>

\* processOne; a read that fails counts as a failed send.
Prepare(about) ==
    /\ job.at = "read"
    /\ \/ Turn(job, IF about = NotNow THEN "cancel" ELSE "send", about)
       \/ Turn(job, "retry", NotNow)
    /\ UNCHANGED <<notif, told>>

\* The idempotency key is the row's id and its generation: a mail the provider
\* already accepted under this key does not go out again.
Accepted(n) == told[n.key].gen = n.gen

\* deliver: accepted, accepted with an answer that is lost, refused for good
\* (a second text under the same key is), or refused for now.
Send ==
    /\ job.at = "send"
    /\ \/ /\ told' = IF Accepted(job) THEN told
                     ELSE [told EXCEPT ![job.key] =
                              [gen |-> job.gen, about |-> job.about]]
          /\ job' \in {[job EXCEPT !.at = "sent"], [job EXCEPT !.at = "retry"]}
       \/ /\ job' \in {[job EXCEPT !.at = "failed"],
                       [job EXCEPT !.at = "retry"]}
          /\ UNCHANGED told
    /\ UNCHANGED notif

\* Mutant: results are written by the row's id alone.
AnyGeneration(n) == TRUE

\* Results are written on the generation that was sent.
SameGeneration(n) == notif[n.key].gen = n.gen

Result(n, row) ==
    notif' = IF SameGeneration(n) THEN [notif EXCEPT ![n.key] = row] ELSE notif

\* markSent; when the write fails the mail is out and the row stays pending.
MarkSent ==
    /\ job.at = "sent"
    /\ \/ Result(job, [notif[job.key] EXCEPT !.status = "sent"])
       \/ UNCHANGED notif
    /\ job' = Idle
    /\ UNCHANGED told

\* markFailed, after a refusal for good; a write that fails is a throw.
MarkFailed ==
    /\ job.at = "failed"
    /\ \/ Result(job, [notif[job.key] EXCEPT !.status = "failed",
                                             !.attempts = job.attempts + 1])
          /\ job' = Idle
       \/ UNCHANGED notif /\ job' = [job EXCEPT !.at = "retry"]
    /\ UNCHANGED told

\* isTerminalAfter
IsTerminal(attempts) == attempts > MaxAttempts

\* handleTransient, also the catch of the cycle
HandleTransient ==
    /\ job.at = "retry"
    /\ LET tried == [notif[job.key] EXCEPT !.attempts = job.attempts + 1]
       IN \/ Result(job, IF IsTerminal(tried.attempts)
                         THEN [tried EXCEPT !.status = "failed"] ELSE tried)
          \/ UNCHANGED notif
    /\ job' = Idle
    /\ UNCHANGED told

\* cancelNotification: any pending row with this id, of whatever generation
CancelNotification ==
    /\ job.at = "cancel"
    /\ \/ /\ notif' = [notif EXCEPT ![job.key] = Withdrawn(@)]
          /\ job' = Idle
       \/ UNCHANGED notif /\ job' = [job EXCEPT !.at = "retry"]
    /\ UNCHANGED told

\* The worker restarts: what it read is gone, the rows are not.
Restart ==
    /\ job # Idle
    /\ job' = Idle
    /\ UNCHANGED <<notif, told>>

Deliver == Send \/ MarkSent \/ MarkFailed \/ HandleTransient
           \/ CancelNotification \/ Restart

=============================================================================
