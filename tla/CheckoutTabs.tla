----------------------------- MODULE CheckoutTabs -----------------------------
(***************************************************************************)
(* The checkout as the tourist sees it, in tabs that share one cookie: the *)
(* form with its captcha, the card of the deferred checkout, the widget of *)
(* the immediate one, and the server actions behind them, gate by gate.    *)
(* What the actions do to seats and money is Checkout's subject: here a    *)
(* hold and a booking are made in one call.                                *)
(*                                                                         *)
(* Answers travel back: one may be lost, after which a form is gone (the   *)
(* error page) and a card form shows an error.  Every submission of a form *)
(* makes a session of its own, and so a hold of its own.                   *)
(***************************************************************************)
EXTENDS TourSite

CONSTANTS
    Modes,      \* pairs: DEFERRED_CHARGE_ENABLED, CAPTCHA_ENABLED
    Cap,        \* DEFERRED_MAX_LIVE_SEATS_PER_IDENTITY
    MaxTries    \* bound: submissions of the form in each tab

ASSUME CheckoutTabsAssumption ==
    /\ Modes \subseteq BOOLEAN \X BOOLEAN
    /\ {Cap, MaxTries} \subseteq Nat

VARIABLES
    mode,       \* the deployed flags
    tries,      \* submissions of the form so far
    req,        \* the server action under way in each tab
    captcha,    \* the widget: its token, and whether it blocks the form
    cookie,     \* hold_session: the submission it belongs to
    hold,       \* tour_holds
    booking,    \* bookings
    accepted    \* history: what the tourist accepted in each submission

session == <<tries, cookie, hold, booking, accepted>>
tabVars == <<site, view, mode, req, captcha, session>>

Submissions == Tabs \X (1..MaxTries)
Deferred    == mode[1]
CaptchaOn   == mode[2]

NoRequest == [step |-> "none"]
NoCaptcha == [token |-> "none", waiting |-> FALSE]
Asking    == [token |-> "none", waiting |-> TRUE]
NoCookie  == <<>>
Nothing   == [status |-> "none"]

TabsInit ==
    /\ SiteInit
    /\ mode \in Modes
    /\ tries = [t \in Tabs |-> 0]
    /\ req = [t \in Tabs |-> NoRequest]
    /\ captcha = [t \in Tabs |-> NoCaptcha]
    /\ cookie = NoCookie
    /\ hold = [a \in Submissions |-> Nothing]
    /\ booking = [a \in Submissions |-> Nothing]
    /\ accepted = [a \in Submissions |-> Nothing]

-----------------------------------------------------------------------------
(* The form: tickets, consent and captcha. *)

\* calculateTotalCents: a ticket without a price adds nothing.
Total(v) ==
    MapThenSumSet(LAMBDA type : v.prices[type], v.cart \cap DOMAIN v.prices)

OnForm(t) == view[t].page = "form" /\ req[t] = NoRequest

PickTickets(t) ==
    /\ OnForm(t)
    /\ \E cart \in SUBSET DOMAIN view[t].prices : Shows(t, [view[t] EXCEPT !.cart = cart])
    /\ UNCHANGED <<site, mode, req, captcha, session>>

\* The widget is mounted with the consent on personal data, and blocks the
\* form until its token arrives.
AcceptPrivacy(t) ==
    /\ OnForm(t) /\ ~view[t].privacy
    /\ Shows(t, [view[t] EXCEPT !.privacy = TRUE])
    /\ captcha' = [captcha EXCEPT ![t] = IF CaptchaOn THEN Asking ELSE @]
    /\ UNCHANGED <<site, mode, req, session>>

\* Turnstile's callback, expired-callback and error-callback
TokenEvent(t) ==
    /\ view[t].page = "form" /\ view[t].privacy /\ CaptchaOn
    /\ captcha' = [captcha EXCEPT ![t] =
          IF @.waiting THEN [token |-> "unused", waiting |-> FALSE] ELSE Asking]
    /\ UNCHANGED <<site, view, mode, req, session>>

\* The button is enabled, and the boxes are ticked.
CanSubmit(t) ==
    /\ OnForm(t) /\ view[t].privacy
    /\ ~captcha[t].waiting
    /\ Total(view[t]) > 0

Accepts(a, d, cart, amount) ==
    accepted' = [accepted EXCEPT ![a] =
        [status |-> "accepted", dep |-> d, cart |-> cart, amount |-> amount]]

Submit(t) ==
    LET v == view[t]
        a == <<t, tries[t] + 1>> IN
    /\ CanSubmit(t) /\ tries[t] < MaxTries
    /\ tries' = [tries EXCEPT ![t] = @ + 1]
    /\ req' = [req EXCEPT ![t] =
          [step |-> "gates", of |-> a, dep |-> v.dep, cart |-> v.cart,
           amount |-> Total(v), key |-> "none", shared |-> FALSE]]
    /\ captcha' = [captcha EXCEPT ![t].token = IF CaptchaOn THEN "sent" ELSE @]
    /\ IF Deferred THEN UNCHANGED accepted ELSE Accepts(a, v.dep, v.cart, Total(v))
    /\ UNCHANGED <<site, view, mode, cookie, hold, booking>>

-----------------------------------------------------------------------------
(* checkoutAction and startDeferredCheckoutAction. *)

At(t, step) == req[t].step = step
Proceeds(t, step) == req' = [req EXCEPT ![t].step = step]

\* Mutant: an error after the captcha is answered with the same object.
AnyGeneric(key, verified) == Deferred /\ key = "error-generic"

\* GENERIC, one object for every answer, and only before the captcha
IsShared(key, verified) == Deferred /\ key = "error-generic" /\ ~verified

\* The answer; its key is "none" when it is no error, and `verified` tells
\* whether the captcha was, by then.
Answers(t, key, verified) ==
    req' = [req EXCEPT ![t].step = "answer", ![t].key = key,
                       ![t].shared = IsShared(key, verified)]

\* isSalesEnabled and isInstanceSellable: the price of a child ticket asks
\* for the ages, be it active or not.
Sellable == sale.operator /\ IsTourBookable(sale.rows)

\* The gates before the captcha; the throttle may refuse anyone.
PassGates(t) ==
    /\ At(t, "gates")
    /\ CASE ~Sellable -> Answers(t, "sales-not-enabled", FALSE)
         [] Sellable /\ ~OnSale -> Answers(t, "tour-paused", FALSE)
         [] OTHER -> \/ Proceeds(t, "captcha")
                     \/ Answers(t, "error-generic", FALSE)
    /\ UNCHANGED <<site, view, mode, captcha, session>>

Live(a) == booking[a].status \in {"pending_minimum", "pending_payment"}
LiveSeats ==
    MapThenSumSet(LAMBDA a : Cardinality(booking[a].cart),
                  {a \in Submissions : Live(a)})
OverCap(cart) == LiveSeats + Cardinality(cart) > Cap

\* verifyCaptcha spends the token, whatever it answers; then the cap of the
\* deferred checkout is looked at.
VerifyCaptcha(t) ==
    /\ At(t, "captcha")
    /\ captcha' = [captcha EXCEPT ![t].token = IF @ = "sent" THEN "spent" ELSE @]
    /\ \/ CaptchaOn /\ Answers(t, "captcha-failed", TRUE)
       \/ IF Deferred /\ OverCap(req[t].cart)
          THEN Answers(t, "deferred-cap-exceeded", TRUE)
          ELSE Proceeds(t, "price")
    /\ UNCHANGED <<site, view, mode, session>>

\* Mutant: the amount on the screen is not compared.
AnyAmount(shown, total) == TRUE

\* What is booked is what the tourist accepted.
IsAsShown(shown, total) == shown = total

\* resolveAuthoritativeCharge
TotalsOf(d, cart) == AuthoritativeTotals(ActiveRows(sale.rows), cart, DayOf[d])

\* The amount is taken from the database; the immediate checkout compares it
\* with the one of the form, the deferred one shows it in the next step.
Price(t) ==
    /\ At(t, "price")
    /\ \E total \in TotalsOf(req[t].dep, req[t].cart) :
          CASE total = None -> Answers(t, "error-generic", TRUE)
            [] ~Deferred /\ total # None /\ ~IsAsShown(req[t].amount, total)
                 -> Answers(t, "amount-changed", TRUE)
            [] OTHER -> req' = [req EXCEPT ![t].step = "hold", ![t].amount = total]
    /\ UNCHANGED <<site, view, mode, captcha, session>>

Held(d) ==
    MapThenSumSet(LAMBDA a : Cardinality(hold[a].cart),
        {a \in Submissions : /\ hold[a].status \in {"active", "paying"}
                             /\ hold[a].dep = d})

\* The order in which create_hold_atomic refuses
HoldRefusal(d, cart) ==
    CASE d \notin open -> "no-availability"
      [] d \in open /\ StartsAt[d] <= hour -> "instance-past"
      [] d \in open /\ IsClosed(d, Cutoff) -> "booking-closed"
      [] OTHER -> IF free[d] - Held(d) < Cardinality(cart)
                  THEN "no-availability" ELSE "none"

HoldOf(r, status) == [status |-> status, dep |-> r.dep, cart |-> r.cart]
Released == [status |-> "released"]
Booked(r, status) ==
    booking' = [booking EXCEPT ![r.of] = [status |-> status, dep |-> r.dep,
                                          cart |-> r.cart, amount |-> r.amount]]

\* createHold, and with it the booking and the intent of the immediate
\* checkout, or the customer of the deferred one.  A call that fails gives
\* the hold back, or leaves it to expire.
CreateHold(t) ==
    LET r   == req[t]
        key == HoldRefusal(r.dep, r.cart)
        Holds(status) == hold' = [hold EXCEPT ![r.of] = HoldOf(r, status)] IN
    /\ At(t, "hold")
    /\ \/ /\ key # "none" /\ Answers(t, key, TRUE)
          /\ UNCHANGED <<hold, booking>>
       \/ /\ key = "none" /\ Answers(t, "error-generic", TRUE)
          /\ \E h \in {HoldOf(r, "active"), Released} : hold' = [hold EXCEPT ![r.of] = h]
          /\ UNCHANGED booking
       \/ /\ key = "none" /\ Answers(t, "none", TRUE)
          /\ IF Deferred THEN Holds("active") /\ UNCHANGED booking
                         ELSE Holds("paying") /\ Booked(r, "pending_payment")
    /\ UNCHANGED <<site, view, mode, captcha, tries, cookie, accepted>>

\* The answer of the first step.  With it the browser keeps the cookie of the
\* session, over that of another tab, and the page is read again.  The
\* captcha is asked anew when the answer is another object; whether the same
\* one twice arrives as the same is left open.
ReceiveFirst(t) ==
    LET r == req[t]
        v == view[t]
        again == r.shared /\ v.shared IN
    /\ At(t, "answer") /\ v.page = "form"
    /\ req' = [req EXCEPT ![t] = NoRequest]
    /\ IF r.key # "none"
       THEN /\ Shows(t, [v EXCEPT !.error = r.key, !.shared = r.shared])
            /\ captcha' \in {[captcha EXCEPT ![t] = IF CaptchaOn THEN Asking ELSE @]}
                  \cup (IF again THEN {captcha} ELSE {})
            /\ UNCHANGED cookie
       ELSE /\ \E p \in {v.prices} \cup PricesOfDay(DayOf[v.dep]) :
                 Shows(t, IF Deferred
                          THEN [page |-> "card", of |-> r.of, dep |-> r.dep,
                                cart |-> r.cart, amount |-> r.amount,
                                prices |-> p, error |-> "none"]
                          ELSE [page |-> "widget", of |-> r.of])
            /\ captcha' = [captcha EXCEPT ![t] = NoCaptcha]
            /\ cookie' = r.of
    /\ UNCHANGED <<site, mode, tries, hold, booking, accepted>>

-----------------------------------------------------------------------------
(* The second step of the deferred checkout. *)

OnCard(t) == view[t].page = "card" /\ req[t] = NoRequest

\* toCardInput and tokenizeCard: a card that is refused in the browser.
RefuseCard(t) ==
    /\ OnCard(t)
    /\ \E key \in {"card-invalid", "error-generic"} :
          Shows(t, [view[t] EXCEPT !.error = key])
    /\ UNCHANGED <<site, mode, req, captcha, session>>

\* The card is tokenized in the browser, for the customer of this hold; the
\* mandate that is accepted names the amount.
SubmitCard(t) ==
    LET v == view[t] IN
    /\ OnCard(t)
    /\ req' = [req EXCEPT ![t] =
          [step |-> "complete", of |-> v.of, dep |-> v.dep, cart |-> v.cart,
           amount |-> v.amount, key |-> "none", shared |-> FALSE]]
    /\ Accepts(v.of, v.dep, v.cart, v.amount)
    /\ UNCHANGED <<site, view, mode, captcha, tries, cookie, hold, booking>>

\* completeDeferredCheckoutAction checks the sale again, and not the pause;
\* completeDeferredCheckout reads the hold: of this session, and active, or
\* with the booking it already made.
ReadHold(t) ==
    LET r == req[t] IN
    /\ At(t, "complete")
    /\ CASE ~Sellable -> Answers(t, "sales-not-enabled", TRUE)
         [] Sellable /\ cookie # r.of -> Answers(t, "hold-expired", TRUE)
         [] OTHER ->
              \/ Answers(t, "error-generic", TRUE)
              \/ Proceeds(t, "card") /\ hold[r.of].status = "active"
              \/ /\ hold[r.of].status # "active"
                 /\ Answers(t, IF hold[r.of].status = "paying" /\ Live(r.of)
                               THEN "none" ELSE "hold-expired", TRUE)
    /\ UNCHANGED <<site, view, mode, captcha, session>>

\* The card is read at the gateway, and the amount once more from the
\* database.
CheckCard(t) ==
    LET r == req[t] IN
    /\ At(t, "card")
    /\ \/ Answers(t, "card-invalid", TRUE)
       \/ \E total \in TotalsOf(r.dep, r.cart) :
             CASE total = None -> Answers(t, "error-generic", TRUE)
               [] total # None /\ ~IsAsShown(r.amount, total)
                    -> Answers(t, "amount-changed", TRUE)
               [] OTHER -> req' = [req EXCEPT ![t].step = "create",
                                             ![t].amount = total]
    /\ UNCHANGED <<site, view, mode, captcha, session>>

\* The order in which create_deferred_booking refuses
BookingRefusal(r) ==
    CASE hold[r.of].status # "active" -> "hold-expired"
      [] hold[r.of].status = "active" /\ r.dep \notin open -> "no-availability"
      [] hold[r.of].status = "active" /\ r.dep \in open /\ StartsAt[r.dep] <= hour
           -> "instance-past"
      [] OTHER -> IF OverCap(r.cart) THEN "deferred-cap-exceeded" ELSE "none"

Hold(a, status) ==
    hold' = [hold EXCEPT ![a] = IF status = "paying" THEN [@ EXCEPT !.status = status]
                                ELSE Released]

\* A card that expires before the departure is refused before the cap; over
\* the cap the hold is given back, if that call does not fail.
CreateDeferredBooking(t) ==
    LET r   == req[t]
        key == BookingRefusal(r) IN
    /\ At(t, "create")
    /\ \/ /\ key # "none" /\ Answers(t, key, TRUE)
          /\ \/ key = "deferred-cap-exceeded" /\ Hold(r.of, "released")
             \/ UNCHANGED hold
          /\ UNCHANGED booking
       \/ /\ key \in {"none", "deferred-cap-exceeded"}
          /\ Answers(t, "card-expires-before-departure", TRUE)
          /\ UNCHANGED <<hold, booking>>
       \/ /\ key = "none" /\ Answers(t, "none", TRUE)
          /\ Hold(r.of, "paying") /\ Booked(r, "pending_minimum")
    /\ UNCHANGED <<site, view, mode, captcha, tries, cookie, accepted>>

\* successCopy: what the page says of the booking when it is opened.
SuccessCopy(a) ==
    CASE booking[a].status = "confirmed" -> "success-title"
      [] booking[a].status = "pending_minimum" -> "success-reserved-title"
      [] booking[a].status = "pending_payment" -> "success-processing-title"
      [] OTHER -> "success-neutral-title"

Success(a) == [page |-> "success", of |-> a, copy |-> SuccessCopy(a)]

ReceiveSecond(t) ==
    /\ At(t, "answer") /\ view[t].page = "card"
    /\ req' = [req EXCEPT ![t] = NoRequest]
    /\ Shows(t, IF req[t].key = "none" THEN Success(req[t].of)
                ELSE [view[t] EXCEPT !.error = req[t].key])
    /\ UNCHANGED <<site, mode, captcha, session>>

\* An answer that does not arrive: the error page, or an error in the form of
\* the card.  The server may not have run the action, or not to its end.
LoseAnswer(t) ==
    /\ req[t] # NoRequest
    /\ req' = [req EXCEPT ![t] = NoRequest]
    /\ Shows(t, IF view[t].page = "card"
                THEN [view[t] EXCEPT !.error = "error-generic"] ELSE Away)
    /\ captcha' = [captcha EXCEPT ![t] = NoCaptcha]
    /\ UNCHANGED <<site, mode, session>>

\* RESTART_CHECKOUT_ERRORS
RestartErrors == {"hold-expired", "amount-changed", "deferred-cap-exceeded"}

\* Back to the first step, with the prices that the page has.
Restart(t) ==
    /\ OnCard(t) /\ view[t].error \in RestartErrors
    /\ Shows(t, IF DOMAIN view[t].prices = {} THEN Notice("sales-not-enabled")
                ELSE Form(view[t].dep, view[t].prices))
    /\ UNCHANGED <<site, mode, req, captcha, session>>

-----------------------------------------------------------------------------
(* The widget of the immediate checkout, the pages where a checkout ends,  *)
(* and the database meanwhile.                                             *)

\* onSuccess and onError.  The page of a payment that failed gives back a
\* hold that is active, of the session in the cookie.
WidgetEnds(t) ==
    LET a == view[t].of IN
    /\ view[t].page = "widget"
    /\ \/ Shows(t, Success(a)) /\ UNCHANGED hold
       \/ /\ Shows(t, [page |-> "cancel", of |-> a])
          /\ IF booking[a].status = "pending_payment" /\ cookie = a
                /\ hold[a].status = "active"
             THEN Hold(a, "released") ELSE UNCHANGED hold
    /\ UNCHANGED <<site, mode, req, captcha, tries, cookie, booking, accepted>>

\* A tab is closed, or goes elsewhere, whatever is under way.
Leave(t) ==
    /\ view[t].page # "away" /\ req[t] = NoRequest
    /\ Shows(t, Away)
    /\ captcha' = [captcha EXCEPT ![t] = NoCaptcha]
    /\ UNCHANGED <<site, mode, req, session>>

\* expires_at, and the job that looks at it: from then on the hold is as one
\* that was released.
HoldExpires(a) ==
    /\ hold[a].status = "active" /\ Hold(a, "released")
    /\ UNCHANGED <<site, view, mode, req, captcha, tries, cookie, booking, accepted>>

CookieExpires ==
    /\ cookie # NoCookie /\ cookie' = NoCookie
    /\ UNCHANGED <<site, view, mode, req, captcha, tries, hold, booking, accepted>>

\* The webhook, the reconciler and the jobs of the deferred charge.  A hold
\* that was converted is no more than a released one to these pages.
BookingEnds(a) ==
    /\ Live(a)
    /\ \E status \in {"confirmed", "cancelled"} :
          booking' = [booking EXCEPT ![a].status = status]
    /\ Hold(a, "released")
    /\ UNCHANGED <<site, view, mode, req, captcha, tries, cookie, accepted>>

ActionStep(t) ==
    \/ PassGates(t) \/ VerifyCaptcha(t) \/ Price(t) \/ CreateHold(t)
    \/ ReadHold(t) \/ CheckCard(t) \/ CreateDeferredBooking(t)

TabStep(t) ==
    \/ PickTickets(t) \/ AcceptPrivacy(t) \/ TokenEvent(t) \/ Submit(t)
    \/ ReceiveFirst(t) \/ RefuseCard(t) \/ SubmitCard(t) \/ ReceiveSecond(t) \/ LoseAnswer(t)
    \/ Restart(t) \/ WidgetEnds(t) \/ Leave(t)
    \/ Browse(t) /\ UNCHANGED <<mode, req, captcha, session>>

TabsNext ==
    \/ \E t \in Tabs : TabStep(t) \/ ActionStep(t)
    \/ \E a \in Submissions : HoldExpires(a) \/ BookingEnds(a)
    \/ CookieExpires
    \/ Meanwhile /\ UNCHANGED <<mode, req, captcha, session>>

TabsSpec == TabsInit /\ [][TabsNext]_tabVars

-----------------------------------------------------------------------------
(* A booking is of the departure, the tickets and the amount that were on  *)
(* the screen when its tourist accepted: the total of the form, or the     *)
(* mandate of the card.  Prices, seasons and withdrawn prices change       *)
(* meanwhile, the page may be old, another tab may have taken the cookie,  *)
(* a step may be sent again after its answer was lost.                     *)
BookedAsShown ==
    \A a \in Submissions : booking[a].status # "none" =>
       /\ booking[a].dep = accepted[a].dep
       /\ booking[a].cart = accepted[a].cart
       /\ booking[a].amount = accepted[a].amount

(* The form is never sent with a captcha that is missing or was verified   *)
(* before: whenever its button works, its token was never looked at, also  *)
(* after the same error twice and when a token expires on the way.         *)
TokenIsFresh ==
    \A t \in Tabs : CaptchaOn /\ CanSubmit(t) => captcha[t].token \in {"unused", "sent"}
=============================================================================
