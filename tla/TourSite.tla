------------------------------- MODULE TourSite -------------------------------
(***************************************************************************)
(* What the public site shows of one tour: its page, with the calendar of  *)
(* the departures that can be bought, and the page that opens the checkout *)
(* of one of them.  Every page is read from the database once, when it is  *)
(* served, and stays on the screen of a tab while the admin, other buyers  *)
(* and the clock go on.                                                    *)
(*                                                                         *)
(* Days and months are numbers, and the hours of the day are those of      *)
(* Costa Rica.  The queries of one page are one step: whatever it shows    *)
(* is checked again by the actions of the checkout (CheckoutTabs).         *)
(***************************************************************************)
EXTENDS Seasons

CONSTANTS
    Tabs,           \* tabs of the browser of one tourist
    Outings,        \* departures of the tour
    DayOf,          \* the day of each one,
    StartsAt,       \* and its hour, counted from the first one
    MonthDays,      \* days of a month
    Capacity,       \* capacity_total of each departure
    Cutoff,         \* booking_cutoff_hours of the settings
    DefaultCutoff,  \* BOOKING_CUTOFF_HOURS_DEFAULT
    Sales,          \* what the admin may leave on sale
    MaxEdits,       \* bound: times the admin saves
    MaxHour         \* bound: the clock

ASSUME TourSiteAssumption ==
    /\ DayOf \in [Outings -> Year]
    /\ StartsAt \in [Outings -> Nat]
    /\ MonthDays \in Nat \ {0}
    /\ Capacity \in [Outings -> Nat]
    /\ {Cutoff, DefaultCutoff} \subseteq Nat
    /\ Sales \subseteq [status : {"active", "paused"}, operator : BOOLEAN,
                        info : BOOLEAN, ages : BOOLEAN, rows : SUBSET PriceRow]

VARIABLES
    sale,       \* the tour, its prices and the data of the operator
    edits,
    hour,
    open,       \* departures with status available
    free,       \* capacity_total - capacity_reserved
    view        \* what each tab shows

site == <<sale, edits, hour, open, free>>

Away == [page |-> "away"]
Notice(text) == [page |-> "notice", text |-> text]

SiteInit ==
    /\ sale \in Sales
    /\ edits = 0 /\ hour = 0
    /\ open = Outings
    /\ free = Capacity
    /\ view = [t \in Tabs |-> Away]

-----------------------------------------------------------------------------
(* What can be bought. *)

OnSale == sale.status = "active"

\* isTourBookable: the ages are required of whoever sells child tickets.
IsTourBookable(rows) ==
    /\ sale.info
    /\ (\E r \in rows : r.type = "child") => sale.ages

\* getUpcomingInstances
Upcoming(cutoff) == {d \in open : StartsAt[d] > hour + cutoff}

\* isClosedForOnlineBooking
IsClosed(d, cutoff) == d \in open /\ StartsAt[d] > hour /\ StartsAt[d] <= hour + cutoff

\* getBookingCutoffHours: the default when the setting cannot be read
CutoffsRead == {Cutoff, DefaultCutoff}

\* getTourPricingForDay: the price of each ticket that has one on a day.
PricesOfDay(day) ==
    LET rows   == ActiveRows(sale.rows)
        priced == {type \in Types : SelectPriceForDay(rows, type, day) # {}}
    IN  {p \in [priced -> Amounts] :
           \A type \in priced :
              \E r \in SelectPriceForDay(rows, type, day) : r.price = p[type]}

-----------------------------------------------------------------------------
(* The calendar of the page of the tour. *)

MonthOf(day) == (day - 1) \div MonthDays

\* buildMonthGrid
DaysOfMonth(month) == {day \in Year : MonthOf(day) = month}

\* groupByCrDay: a day is bookable when one of its departures has seats.
BookableDays(seats) == {DayOf[d] : d \in {e \in DOMAIN seats : seats[e] > 0}}

\* monthsRange
FirstMonth(seats) == MonthOf(Min(BookableDays(seats)))
LastMonth(seats)  == MonthOf(Max(BookableDays(seats)))

\* Mutant: the first day with seats, in whatever month.
FirstOfAll(seats, month) == Min(BookableDays(seats))

\* firstBookableDay of a month
FirstBookable(seats, month) ==
    LET days == BookableDays(seats) \cap DaysOfMonth(month)
    IN  IF days = {} THEN None ELSE Min(days)

Calendar(seats) ==
    [page |-> "calendar", seats |-> seats, month |-> FirstMonth(seats),
     selected |-> Min(BookableDays(seats))]

CanGoBack(v)    == v.month > FirstMonth(v.seats)
CanGoForward(v) == v.month < LastMonth(v.seats)

\* DayDepartures: the departures of the selected day, if it is of this month;
\* those with seats have a link to the checkout.
Linked(v) ==
    {d \in DOMAIN v.seats : /\ v.selected # None
                            /\ MonthOf(v.selected) = v.month
                            /\ DayOf[d] = v.selected /\ v.seats[d] > 0}

Shows(t, v) == view' = [view EXCEPT ![t] = v]

\* The page of the tour.  The calendar counts the seats that are reserved and
\* not the holds.
OpenTour(t) ==
    /\ view[t].page \in {"away", "notice", "cancel", "success"}
    /\ \E cutoff \in CutoffsRead :
          LET seats == [d \in Upcoming(cutoff) |-> Max({0, free[d]})] IN
          Shows(t,
            CASE ~OnSale -> Notice("tour-unavailable")
              [] OnSale /\ ~(sale.operator /\ IsTourBookable(ActiveRows(sale.rows)))
                   -> Notice("not-bookable")
              [] OTHER -> IF BookableDays(seats) = {} THEN Notice("no-instances")
                          ELSE Calendar(seats))

\* goTo, from the two buttons
GoTo(t) ==
    LET v == view[t] IN
    /\ v.page = "calendar"
    /\ \E m \in {v.month - 1, v.month + 1} :
          /\ m < v.month => CanGoBack(v)
          /\ m > v.month => CanGoForward(v)
          /\ Shows(t, [v EXCEPT !.month = m,
                                !.selected = FirstBookable(v.seats, m)])

\* MonthGrid: only the days with seats are buttons.
SelectDay(t) ==
    /\ view[t].page = "calendar"
    /\ \E day \in BookableDays(view[t].seats) \cap DaysOfMonth(view[t].month) :
          Shows(t, [view[t] EXCEPT !.selected = day])

-----------------------------------------------------------------------------
(* The page that opens a checkout. *)

\* initialQuantities: one ticket of the first of these that has a price.
TicketOrder == <<"adult", "student", "child">>
InitialCart(prices) ==
    LET priced == {i \in 1..3 : TicketOrder[i] \in DOMAIN prices}
    IN  {TicketOrder[Min(priced)]}

Form(d, prices) ==
    [page |-> "form", dep |-> d, prices |-> prices, cart |-> InitialCart(prices),
     privacy |-> FALSE, error |-> "none", shared |-> FALSE]

\* What the page of the checkout may be for a departure.
CheckoutPages(d, cutoff) ==
    IF ~OnSale THEN {Notice("tour-paused")}
    ELSE IF d \notin Upcoming(cutoff)
    THEN {Notice(IF IsClosed(d, cutoff) THEN "booking-closed" ELSE "not-found")}
    ELSE {IF /\ sale.operator /\ DOMAIN p # {}
             /\ IsTourBookable({[type |-> type] : type \in DOMAIN p})
          THEN Form(d, p)
          ELSE Notice("sales-not-enabled") : p \in PricesOfDay(DayOf[d])}

\* From the calendar, or from an address that was kept.
OpenCheckout(t) ==
    /\ view[t].page \in {"away", "calendar"}
    /\ \E d \in Outings, cutoff \in CutoffsRead :
          /\ view[t].page = "calendar" => d \in Linked(view[t])
          /\ \E v \in CheckoutPages(d, cutoff) : Shows(t, v)

-----------------------------------------------------------------------------
(* What happens meanwhile. *)

\* The panel: prices, texts and ages of the tour, its sale, the operator.
Edit ==
    /\ edits < MaxEdits /\ edits' = edits + 1
    /\ sale' \in Sales \ {sale}
    /\ UNCHANGED <<hour, open, free, view>>

OtherBuys(d) ==
    /\ free[d] > 0 /\ free' = [free EXCEPT ![d] = @ - 1]
    /\ UNCHANGED <<sale, edits, hour, open, view>>

CancelOuting(d) ==
    /\ d \in open /\ open' = open \ {d}
    /\ UNCHANGED <<sale, edits, hour, free, view>>

HourPasses ==
    /\ hour < MaxHour /\ hour' = hour + 1
    /\ UNCHANGED <<sale, edits, open, free, view>>

Meanwhile ==
    \/ Edit
    \/ \E d \in Outings : OtherBuys(d) \/ CancelOuting(d)
    \/ HourPasses

Browse(t) ==
    /\ OpenTour(t) \/ GoTo(t) \/ SelectDay(t) \/ OpenCheckout(t)
    /\ UNCHANGED site

-----------------------------------------------------------------------------
(* Every day that can be bought is reached with the buttons of the         *)
(* calendar: the month on the screen is between the first and the last one *)
(* with seats, the button towards any such day works, and a month that has *)
(* seats opens on one of its days, with its departures under it; months    *)
(* without departures may lie between.                                     *)
NoDayOutOfReach ==
    \A t \in Tabs : view[t].page = "calendar" =>
       LET v == view[t] IN
       /\ v.month \in FirstMonth(v.seats) .. LastMonth(v.seats)
       /\ \A day \in BookableDays(v.seats) :
             \/ MonthOf(day) < v.month /\ CanGoBack(v)
             \/ MonthOf(day) > v.month /\ CanGoForward(v)
             \/ MonthOf(day) = v.month /\ Linked(v) # {}
=============================================================================
