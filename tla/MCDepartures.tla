---------------------------- MODULE MCDepartures ----------------------------
(* Instances of Departures for TLC. *)
EXTENDS DepartureBoard

OneEach == [b \in Bookings |-> 1]

\* A paid booking alone, with the notices of its changes ...
Paid == [b \in Bookings |-> IF b = 1 THEN "confirmed" ELSE "expired"]
Notice(kind, left) == <<Paid, {<<1, kind>>}, left>>
Alone == {Notice("booking_rescheduled", 2), Notice("reminder_24h", 1),
          Notice("departure_cancelled", 0),
          Notice("cancellation_confirmation", 0)}

\* ... or the one notice that is lost when it is enqueued again,
Moved == {Notice("departure_cancelled", 1)}

\* and the paid booking beside one of the deferred charge and one that is only
\* a hold: of the three only two fit.
Three(s) == [b \in Bookings |-> CASE b = 1 -> "confirmed" [] b = 2 -> s
                                   [] b = 3 -> "pending_minimum"]
Beside == {<<Three("holding"), {}, 1>>,
           <<Three("expired"), {}, 1>>,
           <<Three("holding"), {<<3, "overbooked_refunded">>}, 0>>}

Both == Alone \cup Beside
=============================================================================
