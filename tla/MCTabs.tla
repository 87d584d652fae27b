------------------------------- MODULE MCTabs -------------------------------
(* The public site for TLC.  One tab browses the calendar of three         *)
(* departures in months one of which is empty; or two tabs buy one         *)
(* departure while its prices, its sale and the clock change.              *)
EXTENDS CheckoutTabs

VARIABLE part
vars == <<part, tabVars>>

Row(type, from, to, price, on) ==
    [type |-> type, from |-> from, to |-> to, price |-> price, active |-> on]
Tour(status, ages, rows) ==
    [status |-> status, operator |-> TRUE, info |-> TRUE, ages |-> ages, rows |-> rows]

Adult(p) == Row("adult", 0, 0, p, TRUE)
Child    == Row("child", 1, 2, 1, TRUE)
AllSales ==
    {Tour("active", TRUE, {Adult(1), Child}),
     Tour("active", TRUE, {Adult(1), Row("adult", 6, 1, 2, TRUE)}),
     Tour("active", FALSE, {Adult(1), Row("child", 0, 0, 1, FALSE)}),
     Tour("paused", TRUE, {Adult(1), Child}),
     [Tour("active", TRUE, {Adult(1)}) EXCEPT !.operator = FALSE]}

Days   == [d1 |-> 1, d2 |-> 2, d3 |-> 5]
Hours  == [d1 |-> 2, d2 |-> 3, d3 |-> 3]
Places == [d1 |-> 2, d2 |-> 1, d3 |-> 1]

AllModes == BOOLEAN \X BOOLEAN
First == CHOOSE t \in Tabs : TRUE

MCInit ==
    /\ part \in {"calendar", "one tab", "two tabs"} /\ TabsInit
    /\ part = "calendar" => mode = <<FALSE, FALSE>>
    /\ part = "one tab"  => CaptchaOn
    /\ part = "two tabs" => mode = <<TRUE, FALSE>>
    /\ part # "calendar" => sale = Tour("active", TRUE, {Adult(1), Child})

Browses(t) == OpenTour(t) \/ GoTo(t) \/ SelectDay(t)

CalendarPart ==
    /\ part = "calendar"
    /\ \/ Browses(First) /\ UNCHANGED site
       \/ Leave(First)
       \/ Meanwhile
    /\ UNCHANGED <<part, mode, req, captcha, session>>

(* A purchase is of departure d1. *)
OfTheFirst ==
    /\ open' \in {open, open \ {"d1"}}
    /\ \A d \in Outings \ {"d1"} : free'[d] = free[d]
    /\ \A t \in Tabs : /\ view'[t].page # "calendar"
                       /\ "dep" \in DOMAIN view'[t] => view'[t].dep = "d1"

(* One tab, which may submit the form twice; the time passes in a checkout *)
(* of a departure and a tour that stay as they are, and no child goes      *)
(* alone.                                                                  *)
OneTab ==
    /\ part = "one tab" /\ TabsNext /\ OfTheFirst
    /\ \A t \in Tabs \ {First} : view'[t] = Away
    /\ cookie # NoCookie => cookie' # NoCookie
    /\ hour' > 0 => "d1" \in open' /\ edits' = 0
    /\ "cart" \in DOMAIN view'[First] => view'[First].cart # {"child"}
    /\ UNCHANGED <<part, free>>

(* Two tabs, for one ticket each, while the prices change; First submits   *)
(* first.                                                                  *)
TwoTabs ==
    /\ part = "two tabs" /\ TabsNext /\ OfTheFirst
    /\ \A t \in Tabs : /\ tries'[t] <= tries'[First] /\ tries'[t] <= 1
                       /\ "cart" \in DOMAIN view'[t] => view'[t].cart = {"adult"}
                       /\ view'[t].page # "notice"
    /\ \A a \in Submissions : booking'[a].status \notin {"confirmed", "cancelled"}
    /\ OnSale' /\ Sellable'
    /\ UNCHANGED <<part, hour, open, free>>

MCNext == CalendarPart \/ OneTab \/ TwoTabs
MCSpec == MCInit /\ [][MCNext]_vars
=============================================================================
