----------------------------- MODULE ChargeBoard -----------------------------
(***************************************************************************)
(* What the list of the departures shows of a departure of the deferred    *)
(* charge: the state of its charge, the seats whose money is held, and the *)
(* tray of those that wait for a person.  The page derives all of it from  *)
(* the rows, by rules of its own.                                          *)
(***************************************************************************)
EXTENDS BookingLife

\* Mutant: only the tickets that were charged count.
ChargedOnly == {b \in Bookings : Confirmed(b)}

\* liveTickets
MayCome == {b \in Bookings : Confirmed(b) \/ Live(b)}
LiveTickets == SeatsOf(MayCome)

\* authorizedTickets
AuthorizedTickets ==
    SeatsOf({b \in Bookings :
        \/ Confirmed(b)
        \/ /\ status[b] = "pending_payment"
           /\ mark[b].auth /\ mark[b].claim = "none"})

\* listUpcomingDepartures
IsListed == ~dep.cancelled /\ Start >= now

\* toCharge
ChargeState ==
    CASE dep.resolution # "none"                             -> "resolved"
      [] dep.resolution = "none"
         /\ (~dep.triggered \/ dep.closed)                   -> "idle"
      [] OTHER -> IF dep.deadline # Null /\ dep.deadline <= now
                  THEN "awaiting_decision" ELSE "charging"

\* DecisionTray
InDecisionTray ==
    IsListed /\ ChargeState = "awaiting_decision" /\ LiveTickets > 0

-----------------------------------------------------------------------------
(* Properties. *)

\* The engine is through with a cycle that came to its deadline below the
\* minimum: it neither releases, nor closes, nor cancels.
EngineWaits ==
    /\ PastDeadline /\ dep.resolution = "none" /\ ~dep.cancelled
    /\ Authorized < Minimum
    /\ Start - now <= EarlyFloor
    /\ ~CanAutoCancel
    /\ \A b \in Bookings : PendingIds(b) = {}

\* The seats that the page compares with the minimum are those the engine
\* compares, and a departure with people that nobody but a person moves any
\* more is in the tray, where confirming it is accepted (toCharge and
\* DecisionTray against departure_seat_counts, the engine and
\* resolve_departure_minimum).
NothingWaitsUnseen ==
    /\ AuthorizedTickets = Authorized
    /\ EngineWaits /\ IsListed /\ (\E b \in Bookings : Live(b))
          => InDecisionTray /\ CanResolve("staff_confirmed")

\* What the tray says: the money of its departures was let go.
NothingHeldInTray ==
    InDecisionTray =>
        \A b \in Bookings : ~(Live(b) /\ mark[b].auth)

=============================================================================
