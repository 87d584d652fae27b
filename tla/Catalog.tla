------------------------------ MODULE Catalog ------------------------------
(***************************************************************************)
(* The catalogue of a tour: its prices and its schedules, which an admin   *)
(* edits in one form; the departures that the worker generates from the    *)
(* schedules; and the checkout, which reads all of them.                   *)
(*                                                                         *)
(* Saving the form is no transaction: the rows the form no longer has are  *)
(* deleted, the others written, first the prices and then the schedules,   *)
(* and at last the departures out of validity are withdrawn.  Each step    *)
(* here is one statement or one SQL function; it may fail, or the request  *)
(* die before it.                                                          *)
(***************************************************************************)
EXTENDS Seasons, Functions

CONSTANTS
    NumDays,    \* calendar days that are followed, the first ones of a year
    Week,       \* 7
    Lookahead,  \* LOOKAHEAD_DAYS
    Schedules,  \* ids of schedules
    Admins,
    Customers,
    Cart,       \* the ticket types each of them buys, one of each
    Tables      \* to begin with: the rows of the tour and the form each
                \* admin has filled in

VARIABLES
    prices,     \* tour_pricing, by id
    sched,      \* tour_schedules, by id
    selling,    \* tours.status: active, or paused
    today,
    dep,        \* tour_instances, by schedule and day
    gen,        \* what generate-tour-instances read
    admin,      \* the form of each admin and how far saving it is
    cust        \* the checkout of each customer

catalog == <<prices, sched, selling, today, dep, gen, admin, cust>>

Days == 1 .. NumDays
Keys == Schedules \X Days
Open == 0           \* no valid_until
NoRows == [s \in {} |-> 0]

\* rows and prices have the ids they were loaded with; added are schedules
\* with no id yet.  bad says that a schedule is not valid, its hour cleared.
ScheduleRow == [weekday : 0 .. Week - 1, active : BOOLEAN,
                from : Days, until : Days \cup {Open}]

CatalogInit ==
    /\ \E t \in Tables :
          /\ prices = t.prices /\ sched = t.sched
          /\ admin = [a \in Admins |-> [pc |-> "editing", form |-> t.forms[a]]]
    /\ selling = TRUE
    /\ today = 1
    /\ dep = [k \in Keys |-> "none"]
    /\ gen = [rows |-> NoRows, from |-> 1]
    /\ cust = [c \in Customers |-> [pc |-> "idle"]]

-----------------------------------------------------------------------------
(* The departures. *)

\* The hour of the start is abstracted: a departure of today has not begun.
Future(d) == today <= d

WithinValidity(row, d) == row.from <= d /\ (row.until # Open => d <= row.until)

InstanceDates(row, from) ==
    {d \in Days : d \in from .. from + Lookahead - 1 /\ d % Week = row.weekday}

GenerateRead ==
    /\ gen.rows = NoRows /\ selling
    /\ gen' = [rows |-> Restrict(sched, {s \in DOMAIN sched : sched[s].active}),
               from |-> today]
    /\ UNCHANGED <<prices, sched, selling, today, dep, admin, cust>>

\* ignoreDuplicates
Inserted(k) == IF dep[k] = "none" THEN "available" ELSE dep[k]

\* One schedule of those that were read.  A foreign key ends the job when the
\* schedule is gone.
GenerateInsert(s) ==
    /\ s \in DOMAIN gen.rows
    /\ IF s \in DOMAIN sched
       THEN LET row == gen.rows[s]
                new == {d \in InstanceDates(row, gen.from) :
                           WithinValidity(row, d)}
            IN  /\ dep' = [k \in Keys |-> IF k[1] = s /\ k[2] \in new
                                          THEN Inserted(k) ELSE dep[k]]
                /\ gen' = [gen EXCEPT !.rows = Restrict(@, DOMAIN @ \ {s})]
       ELSE gen' = [gen EXCEPT !.rows = NoRows] /\ UNCHANGED dep
    /\ UNCHANGED <<prices, sched, selling, today, admin, cust>>

NextDay ==
    /\ today < NumDays
    /\ today' = today + 1
    /\ UNCHANGED <<prices, sched, selling, dep, gen, admin, cust>>

-----------------------------------------------------------------------------
(* Saving the form. *)

Reaches(a, from, to) ==
    /\ admin[a].pc = from
    /\ admin' = [admin EXCEPT ![a].pc = to]

\* parseSchedules: one row that is not valid leaves none.
PostedRows(f) == IF f.bad THEN NoRows ELSE f.rows
PostedNew(f)  == IF f.bad THEN {} ELSE f.added

HasInvalidScheduleRange(rows) ==
    \E r \in rows : r.until # Open /\ r.from > r.until

HasPricingErrors(rows) ==
    \E i, j \in DOMAIN rows : i # j /\ Clash(rows[i], rows[j])

\* The prices that are there to begin with do not clash.  A form may.
ASSUME TablesAssumption ==
    \A t \in Tables :
        /\ t.prices \in [DOMAIN t.prices -> PriceRow]
        /\ ~HasPricingErrors(t.prices)
        /\ \A a \in Admins :
              /\ DOMAIN t.forms[a] = {"prices", "rows", "added", "bad"}
              /\ t.forms[a].prices \in [DOMAIN t.forms[a].prices -> PriceRow]

\* updateTour, until the row of the tour is written
UpdateTour(a) ==
    LET f == admin[a].form
    IN  /\ ~HasPricingErrors(f.prices)
        /\ ~HasInvalidScheduleRange(Range(PostedRows(f)) \cup PostedNew(f))
        /\ Reaches(a, "editing", "delete_prices")
        /\ UNCHANGED <<prices, sched, selling, today, dep, gen, cust>>

DeletePrices(a) ==
    /\ Reaches(a, "delete_prices", "upsert_prices")
    /\ prices' = Restrict(prices, DOMAIN prices \cap DOMAIN admin[a].form.prices)
    /\ UNCHANGED <<sched, selling, today, dep, gen, cust>>

\* tour_pricing_one_base_per_type and tour_pricing_season_overlap
Accepted(rows) == ~HasPricingErrors(rows)

\* Rows that are written by their id over those that there are.
Upserted(new, rows) ==
    [id \in DOMAIN new \cup DOMAIN rows |->
        IF id \in DOMAIN new THEN new[id] ELSE rows[id]]

UpsertPrices(a) ==
    LET written == Upserted(admin[a].form.prices, prices)
    IN  /\ Accepted(written)
        /\ Reaches(a, "upsert_prices", "delete_schedules")
        /\ prices' = written
        /\ UNCHANGED <<sched, selling, today, dep, gen, cust>>

HasRow(c, k) == cust[c].pc \in {"booked", "over"} /\ cust[c].dep = k

\* The departures of a schedule go with it, and their holds; a booking of
\* any of them stops the deletion.
DeleteSchedules(a) ==
    LET kept == DOMAIN sched \cap DOMAIN PostedRows(admin[a].form)
        gone == {k \in Keys : k[1] \in DOMAIN sched \ kept}
    IN  /\ \A k \in gone, c \in Customers : ~HasRow(c, k)
        /\ Reaches(a, "delete_schedules", "upsert_schedules")
        /\ sched' = Restrict(sched, kept)
        /\ dep' = [k \in Keys |-> IF k \in gone THEN "none" ELSE dep[k]]
        /\ cust' = [c \in Customers |->
              IF cust[c].pc = "held" /\ cust[c].dep \in gone
              THEN [pc |-> "idle"] ELSE cust[c]]
        /\ UNCHANGED <<prices, selling, today, gen>>

UpsertSchedules(a) ==
    LET f == admin[a].form
    IN  /\ Reaches(a, "upsert_schedules", "withdraw")
        /\ \E id \in [PostedNew(f) -> Schedules \ (DOMAIN sched \cup DOMAIN f.rows)] :
              sched' = Upserted([s \in Range(id) |->
                                    CHOOSE r \in DOMAIN id : id[r] = s],
                                Upserted(PostedRows(f), sched))
        /\ UNCHANGED <<prices, selling, today, dep, gen, cust>>

\* Mutant: a hold with no booking yet does not keep a departure.
AliveBookings(k) ==
    \E c \in Customers : cust[c].pc = "booked" /\ cust[c].dep = k

\* What keeps a departure.  (A cycle of the minimum that is open does too.)
Alive(k) ==
    \E c \in Customers : cust[c].pc \in {"held", "booked"} /\ cust[c].dep = k

OutOfValidity(k) ==
    /\ dep[k] = "available" /\ Future(k[2]) /\ k[1] \in DOMAIN sched
    /\ ~sched[k[1]].active \/ ~WithinValidity(sched[k[1]], k[2])

\* withdraw_schedule_instances.  The form leaves the page only when nothing
\* was kept; then it is loaded anew.
Withdraw(a) ==
    LET out  == {k \in Keys : OutOfValidity(k)}
        kept == {k \in out : Alive(k)}
    IN  /\ Reaches(a, "withdraw", IF kept = {} THEN "saved" ELSE "editing")
        /\ dep' = [k \in Keys |->
              IF k \in out \ kept THEN "withdrawn" ELSE dep[k]]
        /\ UNCHANGED <<prices, sched, selling, today, gen, cust>>

\* A step is refused, or its answer is an error, or the request dies: the
\* form is still there and may be sent again.
SaveFails(a) ==
    /\ admin[a].pc \notin {"editing", "saved", "resume"}
    /\ Reaches(a, admin[a].pc, "editing")
    /\ UNCHANGED <<prices, sched, selling, today, dep, gen, cust>>

-----------------------------------------------------------------------------
(* Selling. *)

PauseTour ==
    /\ selling /\ selling' = FALSE
    /\ UNCHANGED <<prices, sched, today, dep, gen, admin, cust>>

\* missingToSell: a schedule in force and a price for an adult
NothingMissing ==
    /\ \E s \in DOMAIN sched :
          sched[s].active /\ (sched[s].until # Open => today <= sched[s].until)
    /\ \E t \in Cart : LowestChargedPrice(ActiveRows(Range(prices)), t) # None

\* resumeTourById reads, and then writes if the tour is still paused.
ResumeRead(a) ==
    /\ ~selling /\ NothingMissing
    /\ Reaches(a, "saved", "resume")
    /\ UNCHANGED <<prices, sched, selling, today, dep, gen, cust>>

ResumeTour(a) ==
    /\ Reaches(a, "resume", "saved")
    /\ selling' = TRUE
    /\ UNCHANGED <<prices, sched, today, dep, gen, cust>>

Becomes(c, rec) ==
    /\ cust' = [cust EXCEPT ![c] = rec]
    /\ UNCHANGED <<prices, sched, selling, today, dep, gen, admin>>

Totals(k) == AuthoritativeTotals(ActiveRows(Range(prices)), Cart, k[2])

\* The page of the checkout shows what the departure costs.  late is the
\* deferred checkout, in two steps.
Quote(c, k) ==
    /\ cust[c].pc = "idle"
    /\ selling /\ dep[k] = "available" /\ Future(k[2])
    /\ \E total \in Totals(k) \ {None}, late \in BOOLEAN :
          Becomes(c, [pc |-> "quoted", dep |-> k, amount |-> total,
                      late |-> late])

\* resolveAuthoritativeCharge, after the gate of sale: the amount is the one
\* that was accepted, or it all begins again.
Recheck(c) ==
    /\ cust[c].pc = "quoted"
    /\ IF selling /\ cust[c].amount \in Totals(cust[c].dep)
       THEN Becomes(c, [cust[c] EXCEPT !.pc = "priced"])
       ELSE Becomes(c, [pc |-> "idle"])

\* create_hold_atomic
Hold(c) ==
    /\ cust[c].pc = "priced"
    /\ IF dep[cust[c].dep] = "available" /\ Future(cust[c].dep[2])
       THEN Becomes(c, [cust[c] EXCEPT !.pc = "held"])
       ELSE Becomes(c, [pc |-> "idle"])

\* The immediate checkout inserts the booking in the request that created
\* the hold; create_deferred_booking looks at the departure again, and the
\* server at the amount.
Book(c) ==
    /\ cust[c].pc = "held"
    /\ cust[c].late =>
          /\ dep[cust[c].dep] = "available" /\ Future(cust[c].dep[2])
          /\ cust[c].amount \in Totals(cust[c].dep)
    /\ Becomes(c, [cust[c] EXCEPT !.pc = "booked"])

\* The hold expires, or the request fails and releases it.
LoseHold(c) == cust[c].pc = "held" /\ Becomes(c, [pc |-> "idle"])

\* A booking that was live, paid or not, is cancelled.
EndBooking(c) ==
    cust[c].pc = "booked" /\ Becomes(c, [cust[c] EXCEPT !.pc = "over"])

SaveStep(a) ==
    \/ UpdateTour(a) \/ DeletePrices(a) \/ UpsertPrices(a)
    \/ DeleteSchedules(a) \/ UpsertSchedules(a) \/ Withdraw(a)
    \/ SaveFails(a)
    \/ ResumeRead(a) \/ ResumeTour(a)

CheckoutStep(c) ==
    \/ \E k \in Keys : Quote(c, k)
    \/ Recheck(c) \/ Hold(c) \/ Book(c) \/ LoseHold(c) \/ EndBooking(c)

CatalogNext ==
    \/ GenerateRead
    \/ \E s \in Schedules : GenerateInsert(s)
    \/ NextDay
    \/ PauseTour
    \/ \E a \in Admins : SaveStep(a)
    \/ \E c \in Customers : CheckoutStep(c)

CatalogSpec == CatalogInit /\ [][CatalogNext]_catalog

-----------------------------------------------------------------------------
(* Properties. *)

\* However the saves of two admins interleave, a ticket has on no day two
\* seasons or two base prices: what the checkout charges while they save does
\* not depend on the order of the rows.
OnePriceADay ==
    LET rows == ActiveRows(Range(prices)) IN
    \A t \in Types, d \in Year :
       /\ Cardinality({r \in rows : r.type = t /\ ~IsSeason(r)}) <= 1
       /\ Cardinality({r \in rows : r.type = t /\ IsSeason(r)
                                      /\ InSeason(d, r)}) <= 1

\* The "from" price of the site is the least a ticket costs on some day of
\* the year: no season that crosses the year is forgotten, and no base price
\* that the seasons hide is announced.
LowestIsCharged ==
    \A t \in Types :
       LET rows    == ActiveRows(Range(prices))
           charged == UNION {{r.price : r \in SelectPriceForDay(rows, t, d)}
                               : d \in Year}
       IN  LowestChargedPrice(rows, t) =
              IF charged = {} THEN None ELSE Min(charged)

\* No booking that lives, and no hold a booking may still come from in the
\* same request, is left on a departure that saving the tour withdrew.
NoBookingOnWithdrawn ==
    \A c \in Customers :
       (cust[c].pc = "booked" \/ (cust[c].pc = "held" /\ ~cust[c].late))
          => dep[cust[c].dep] = "available"

\* A departure that was withdrawn is not for sale again, whatever schedules
\* the generator read before; only deleting its schedule makes it vanish.
WithdrawnStays ==
    [][\A k \in Keys :
          dep[k] = "withdrawn" /\ k[1] \in DOMAIN sched'
             => dep'[k] = "withdrawn"]_catalog

\* Saving a form keeps the schedules that the form has.
FormRowsStay ==
    [][\A a \in Admins :
          admin[a].pc = "delete_schedules" /\ admin'[a].pc = "upsert_schedules"
             => DOMAIN sched \cap DOMAIN admin[a].form.rows \subseteq DOMAIN sched'
      ]_catalog
=============================================================================
