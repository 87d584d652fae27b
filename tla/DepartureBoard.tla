--------------------------- MODULE DepartureBoard ---------------------------
(***************************************************************************)
(* What the panel shows of the departures and of their paid bookings, and  *)
(* which operations it offers: the tray of the minimum, the dialog that    *)
(* cancels a departure, the tray of the bookings under review and the form *)
(* of a change of date.  The operations are those of Departures, and may   *)
(* come long after the page was read; here the two are compared on one     *)
(* state, since the panel decides by rules of its own what the database    *)
(* decides again.                                                          *)
(***************************************************************************)
EXTENDS Departures

\* listUpcomingDepartures
Listed == {d \in Departures : dep[d] = "available" /\ phase[d] < Started}

\* Mutant: only those who were not charged yet are the engine's.
ChargedApart(d) == At(In(Unpaid), d) \cap Deferred # {}

\* isDeferredLive: the engine of the deferred charge decides.
DeferredFlow(d) == At(In(Live), d) \cap Deferred # {}

LiveTickets(d) == SeatsOf(At(In(Live), d))

\* minimumView.  Its 72 hours begin somewhere in Far; from Window on a
\* departure is always within them.
Unresolved(d) == resolved[d] = "none" /\ ~DeferredFlow(d)

Below(d) == Minimum > 1 /\ reserved[d] < Minimum

NeedsDecision(d) ==
    /\ d \in Listed
    /\ Unresolved(d) /\ Below(d)
    /\ LiveTickets(d) > 0
    /\ phase[d] >= Window

\* MinimumTray: what each of its departures can be done to, and until when it
\* says so: the policy cancels by itself, or somebody still can.
MinimumTray == {d \in Listed : NeedsDecision(d)}

CanCancelForMin(d) == Unresolved(d) /\ phase[d] < Margin

Hint(d) == IF policy = "auto_cancel" THEN "cancelled unless kept"
           ELSE IF CanCancelForMin(d) THEN "goes unless cancelled"
           ELSE "too late"

\* CancelDepartureDialog: the reasons that can be chosen
Offered(d) == {why \in Reasons : why = "minimum" => CanCancelForMin(d)}

\* listReviewBookings, and what the detail of such a booking offers
ReviewTray == review
OffersReview(b) == status[b] = "confirmed" /\ b \in review

\* listRescheduleTargets: seats on hold are not taken off.
RescheduleTargets(b) ==
    IF status[b] # "confirmed" THEN {}
    ELSE {d \in Listed \ {at[b]} : Capacity - reserved[d] > 0}

-----------------------------------------------------------------------------
(* Properties. *)

\* What the panel offers of a departure the database accepts; what the job is
\* about to decide about people is in the tray, and says so; and no change of
\* date that would be accepted is missing from the form (minimumView,
\* listRescheduleTargets and the trays against keep_departure,
\* cancel_departure, resolve_immediate_minimum and reschedule_booking).
PanelMatches ==
    /\ \A d \in Listed :
          /\ d \in MinimumTray => Decidable(d)
          /\ \A why \in Offered(d) : why = "minimum" => CanCancelForMinimum(d)
          /\ /\ phase[d] = Window /\ Decidable(d) /\ ~Reached(d)
             /\ At(In(Live), d) # {}
             => d \in MinimumTray /\ Hint(d) # "too late"
    /\ \A b \in ReviewTray : OffersReview(b)
    /\ \A b \in Bookings : \A d \in Departures :
          /\ status[b] = "confirmed" /\ at[b] # d
          /\ dep[d] = "available" /\ phase[d] < Started /\ Free(d) >= Seats[b]
          => d \in RescheduleTargets(b)

=============================================================================
