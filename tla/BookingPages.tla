----------------------------- MODULE BookingPages -----------------------------
(***************************************************************************)
(* What a tourist and the team see of a booking of the deferred charge and *)
(* do about it: the page of the booking and the pages it links to, opened  *)
(* with the token of a mail, and the detail of the panel.  A page shows    *)
(* what it read; whoever looks at it confirms later; the server reads the  *)
(* booking once more, compares, and only then calls the functions of the   *)
(* database, each in a transaction of its own.  Everything of BookingLife  *)
(* happens in between, and somebody else may cancel too.                   *)
(***************************************************************************)
EXTENDS BookingLife

People == {"tourist", "staff", "admin"}

VARIABLES
    who,    \* the person that is followed
    page    \* what is in front of that person, or what its request is at

pages == <<db, who, page>>

-----------------------------------------------------------------------------
(* toView: what is read of a booking. *)

AuthorizationHeld(b) == status[b] = "pending_payment" /\ mark[b].auth

ChargeInFlight(b) == /\ status[b] = "pending_payment"
                     /\ sched[b].started # "none"
                     /\ ~AuthorizationHeld(b)

Unpaid(b) == status[b] = "pending_minimum" \/ AuthorizationHeld(b)

\* isCardUpdateOpen, isAwaitingAuthentication
IsCardUpdateOpen(b) ==
    /\ status[b] = "pending_minimum"
    /\ sched[b].recovery = Null \/ IsFuture(sched[b].recovery)

IsAwaitingAuthentication(b) ==
    status[b] = "pending_payment" /\ IsFuture(sched[b].awaiting)

\* loadCardUpdateTarget, loadAuthenticationTarget: what the pages open for
CardPageOpens(b) == IsCardUpdateOpen(b)

AuthenticatePageOpens(b) ==
    IsAwaitingAuthentication(b) /\ PendingIds(b) # {}

\* The page of the cancellation, instead of a notice
CancelPageOpens(b) == ~ChargeInFlight(b) /\ (Confirmed(b) \/ Unpaid(b))

\* The links of the page of the booking
LinksToCard(b)         == sched[b].attempts > 0 /\ IsCardUpdateOpen(b)
LinksToAuthenticate(b) == ChargeInFlight(b) /\ IsAwaitingAuthentication(b)
LinksToCancel(b)       == Confirmed(b) \/ Unpaid(b)

-----------------------------------------------------------------------------
(* The money of a cancellation. *)

\* computeRefund: everything or nothing, by the reason and the notice.
FullRefund(reason) == reason = "operator_decision" \/ Start >= now + Notice

\* The reasons that a person may choose for a booking that was charged
ReasonsFor(p) ==
    CASE p = "tourist" -> {"customer_request"}
      [] p = "admin"   -> {"customer_request", "operator_decision"}
      [] OTHER         -> {"customer_request"} \cup
                          (IF Started THEN {} ELSE {"operator_decision"})

Money(b, reason) == IF ~Confirmed(b) THEN "no_charge"
                    ELSE IF FullRefund(reason) THEN "refund" ELSE "no_refund"

-----------------------------------------------------------------------------
(* A cancellation, from the page to the last write. *)

Away    == [at |-> "away"]
Refused == [at |-> "refused"]

\* The token of the mail lives until the departure.
TokenLives == ~Started

CanEnter(p) == p = "tourist" => TokenLives

\* The page of the cancellation, the dialog and the button of the panel.  The
\* button of an unpaid booking sends neither a reason nor an expectation.
Show(b) ==
    /\ page = Away /\ CanEnter(who)
    /\ CancelPageOpens(b)
    /\ \E reason \in IF who # "tourist" /\ Unpaid(b) THEN {"none"}
                     ELSE ReasonsFor(who) :
          page' = [at |-> "shown", booking |-> b, status |-> status[b],
                   reason |-> reason, money |-> Money(b, reason),
                   refund |-> FALSE]
    /\ UNCHANGED <<db, who>>

\* Mutant: the server looks at the state alone.
AnyAmount(shown) == TRUE

AmountIsAsShown(shown) ==
    Money(shown.booking, shown.reason) = "refund" <=> shown.money = "refund"

\* The status is compared with what the tourist was shown, or with the charged
\* booking of the dialog; the amount only of a charged booking.
StatusIsAsShown(shown) ==
    shown.reason = "none" \/ status[shown.booking] = shown.status

SameAsShown(shown) ==
    /\ StatusIsAsShown(shown)
    /\ Confirmed(shown.booking) => /\ shown.reason # "none"
                                   /\ AmountIsAsShown(shown)

\* cancelBooking reads the view again.
Confirm ==
    /\ page.at = "shown"
    /\ page' = IF /\ CanEnter(who)
                  /\ SameAsShown(page)
                  /\ Confirmed(page.booking) =>
                        page.reason \in ReasonsFor(who)
                  /\ Live(page.booking) \/ Confirmed(page.booking)
               THEN [page EXCEPT
                        !.at = IF Confirmed(page.booking) THEN "paid"
                               ELSE "unpaid",
                        !.refund = Money(page.booking, page.reason) = "refund"]
               ELSE Refused
    /\ UNCHANGED <<db, who>>

Done == page' = [page EXCEPT !.at = "done"]

\* cancel_booking, with the amount that was decided before
CancelCharged ==
    /\ page.at = "paid"
    /\ LET b == page.booking IN
       IF Confirmed(b)
       THEN /\ status' = [status EXCEPT ![b] = "cancelled"]
            /\ refund' = IF page.refund
                         THEN RefundWhenCancelled({b}) ELSE refund
            /\ UNCHANGED <<now, mark, sched, row, event, dep>>
            /\ Done
       ELSE UNCHANGED db /\ page' = Refused
    /\ UNCHANGED who

\* cancelAuthorizedBooking claims; without an authorization it is left to
\* cancel_unpaid_booking.
Claim ==
    /\ page.at = "unpaid"
    /\ LET b == page.booking IN
       CASE CanClaim(b) ->
                /\ ClaimAuthorizationCancel(b)
                /\ page' = [page EXCEPT !.at = "claimed"]
         [] HasAuthorization(b) /\ ~CanClaim(b) ->
                UNCHANGED db /\ page' = Refused
         [] OTHER -> UNCHANGED db /\ page' = [page EXCEPT !.at = "free"]
    /\ UNCHANGED who

CancelUnpaid ==
    /\ page.at = "free"
    /\ LET b == page.booking IN
       IF CanCancelUnpaid(b) THEN CancelUnpaidBooking(b) /\ Done
       ELSE UNCHANGED db /\ page' = Refused
    /\ UNCHANGED who

\* The hold is released at the gateway, or it is not and the claim is given
\* back.
ReleaseHold ==
    /\ page.at = "claimed"
    /\ \/ page' = [page EXCEPT !.at = "released"] /\ UNCHANGED db
       \/ page' = Refused /\ Unclaim(page.booking)
    /\ UNCHANGED who

CancelAuthorized ==
    /\ page.at = "released"
    /\ LET b == page.booking IN
       IF CanCancelAuthorized(b) THEN CancelAuthorizedBooking(b) /\ Done
       ELSE UNCHANGED db /\ page' = Refused
    /\ UNCHANGED who

Leave == page.at \in {"shown", "refused"} /\ page' = Away
         /\ UNCHANGED <<db, who>>

PagesInit == DbInit /\ who \in People /\ page = Away

PagesNext == \/ (Life \/ CancelledElsewhere) /\ UNCHANGED <<who, page>>
             \/ \E b \in Bookings : Show(b)
             \/ Confirm \/ CancelCharged \/ Claim \/ CancelUnpaid
             \/ ReleaseHold \/ CancelAuthorized \/ Leave

PagesSpec == PagesInit /\ [][PagesNext]_pages

-----------------------------------------------------------------------------
(* Properties. *)

\* What the person was shown before confirming is what became of the money:
\* a refund that was announced exists, nobody who was told that there is no
\* charge keeps one, and nothing is given back that was announced as lost
\* (cancel page, CancelConfirm and the dialog against cancelBooking).
ShownIsDone ==
    page.at = "done" =>
        /\ Cancelled(page.booking)
        /\ page.money = "refund" => refund[page.booking] # NoId
        /\ page.money = "no_refund" => refund[page.booking] = NoId
        /\ page.money = "no_charge" /\ PaidId(page.booking) # NoId
              => refund[page.booking] # NoId

\* A link leads to a page that opens: the page of the booking, the pages of the
\* card, of the authentication and of the cancellation decide each by itself.
LinksOpen ==
    \A b \in Bookings :
        /\ LinksToCard(b) => CardPageOpens(b)
        /\ LinksToAuthenticate(b) => AuthenticatePageOpens(b)
        /\ LinksToCancel(b) => CancelPageOpens(b)

=============================================================================
