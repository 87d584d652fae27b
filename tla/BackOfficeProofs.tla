-------------------------- MODULE BackOfficeProofs ---------------------------
(***************************************************************************)
(* Proofs about what the team does in the panel, for any prices,           *)
(* schedules, admins, customers, bookings and guides.  The catalogue: the  *)
(* price that is announced is the least that is charged, a ticket has one  *)
(* price a day, and nobody is left on a departure that was withdrawn.  The *)
(* team: who can get in, what is erased and what is kept for a payment,    *)
(* and whether the guide of a departure is told.                           *)
(***************************************************************************)
EXTENDS Catalog, PersonalData, Guides, FiniteSetTheorems, TLAPS

-----------------------------------------------------------------------------
(* The prices of a year.                                                   *)

NoClash(rows) == \A r, s \in rows : r # s => ~Clash(r, s)

\* The days of a season are those of its intervals, which are in the year.
LEMMA SeasonDays ==
  ASSUME NEW s \in PriceRow, IsSeason(s), NEW d \in Year
  PROVE  InSeason(d, s) <=> \E i \in Intervals(s) : i[1] <= d /\ d <= i[2]
<1>1. s.from \in 1 .. YearDays /\ s.to \in 0 .. YearDays /\ d \in 1 .. YearDays
  BY YearAssumption DEF PriceRow, IsSeason, Year
<1>2. CASE s.from <= s.to
  <2>1. Intervals(s) = {<<s.from, s.to>>}
    BY <1>2 DEF Intervals
  <2>2. InSeason(d, s) <=> (s.from <= d /\ d <= s.to)
    BY <1>2 DEF InSeason
  <2> QED BY <2>1, <2>2
<1>3. CASE ~(s.from <= s.to)
  <2>1. Intervals(s) = {<<s.from, YearDays>>, <<1, s.to>>}
    BY <1>3 DEF Intervals
  <2>2. InSeason(d, s) <=> (s.from <= d \/ d <= s.to)
    BY <1>3 DEF InSeason
  <2>3. (\E i \in Intervals(s) : i[1] <= d /\ d <= i[2])
           <=> (s.from <= d /\ d <= YearDays) \/ (1 <= d /\ d <= s.to)
    BY <2>1
  <2> QED BY <2>2, <2>3, <1>1, YearAssumption
<1> QED BY <1>2, <1>3

LEMMA IntervalsInYear ==
  ASSUME NEW s \in PriceRow, IsSeason(s), NEW i \in Intervals(s)
  PROVE  /\ i[1] \in Nat /\ i[2] \in Nat
         /\ i[1] .. i[2] \subseteq Year
<1>1. s.from \in 1 .. YearDays /\ s.to \in 0 .. YearDays
  BY YearAssumption DEF PriceRow, IsSeason
<1>2. i = <<s.from, s.to>> \/ i = <<s.from, YearDays>> \/ i = <<1, s.to>>
  BY DEF Intervals
<1>3. i[1] \in 1 .. YearDays \cup {1} /\ i[2] \in 0 .. YearDays
  BY <1>1, <1>2, YearAssumption
<1> QED BY <1>3, YearAssumption DEF Year

\* Two seasons with a day in common overlap.
LEMMA SharedDay ==
  ASSUME NEW r \in PriceRow, NEW s \in PriceRow, IsSeason(r), IsSeason(s),
         NEW d \in Year, InSeason(d, r), InSeason(d, s)
  PROVE  SeasonsOverlap(r, s)
<1>1. PICK i \in Intervals(r) : i[1] <= d /\ d <= i[2]
  BY SeasonDays
<1>2. PICK j \in Intervals(s) : j[1] <= d /\ d <= j[2]
  BY SeasonDays
<1>3. i[1] \in Nat /\ i[2] \in Nat /\ j[1] \in Nat /\ j[2] \in Nat /\ d \in Nat
  BY IntervalsInYear, YearAssumption DEF Year
<1>4. i[1] <= j[2] /\ j[1] <= i[2]
  BY <1>1, <1>2, <1>3
<1> QED BY <1>4 DEF SeasonsOverlap

\* A year that its seasons do not cover has a day in none of them.
LEMMA CoveredOrNot ==
  ASSUME NEW S \in SUBSET PriceRow, \A s \in S : IsSeason(s)
  PROVE  CoversWholeYear(S) <=> \A d \in Year : \E s \in S : InSeason(d, s)
<1> DEFINE Covered == UNION {i[1] .. i[2] : i \in UNION {Intervals(s) : s \in S}}
<1>1. Covered \subseteq Year
  <2>1. ASSUME NEW s \in S, NEW i \in Intervals(s)
        PROVE  i[1] .. i[2] \subseteq Year
    BY <2>1, IntervalsInYear
  <2> QED BY <2>1
<1>2. ASSUME NEW d \in Year
      PROVE  d \in Covered <=> \E s \in S : InSeason(d, s)
  <2>1. d \in Nat
    BY YearAssumption DEF Year
  <2>2. d \in Covered <=> \E s \in S : \E i \in Intervals(s) : d \in i[1] .. i[2]
    OBVIOUS
  <2>3. ASSUME NEW s \in S
        PROVE  (\E i \in Intervals(s) : d \in i[1] .. i[2]) <=> InSeason(d, s)
    <3>1. ASSUME NEW i \in Intervals(s)
          PROVE  d \in i[1] .. i[2] <=> i[1] <= d /\ d <= i[2]
      BY <3>1, <2>1, IntervalsInYear
    <3> QED BY <3>1, SeasonDays
  <2> QED BY <2>2, <2>3
<1>3. CoversWholeYear(S) <=> Covered = Year
  BY DEF CoversWholeYear
<1> HIDE DEF Covered
<1> QED BY <1>1, <1>2, <1>3

\* On the day a season begins, it is the price.
LEMMA SeasonIsCharged ==
  ASSUME NEW rows \in SUBSET PriceRow, \A r \in rows : r.active, NoClash(rows),
         NEW t, NEW r \in rows, r.type = t, IsSeason(r)
  PROVE  r.from \in Year /\ r \in SelectPriceForDay(rows, t, r.from)
<1>1. r.from \in Year /\ r \in PriceRow
  BY YearAssumption DEF PriceRow, IsSeason, Year
<1>2. InSeason(r.from, r)
  BY <1>1, YearAssumption DEF InSeason, Year
<1>3. ASSUME NEW s \in rows, s.type = t, IsSeason(s), InSeason(r.from, s), s # r
      PROVE  FALSE
  <2>1. SeasonsOverlap(r, s)
    BY <1>1, <1>2, <1>3, SharedDay
  <2> QED BY <1>3, <2>1 DEF NoClash, Clash
<1>4. r.from <= r.from
  BY <1>1, YearAssumption DEF Year
<1> QED BY <1>1, <1>2, <1>3, <1>4 DEF SelectPriceForDay

\* The announced price, for any table of prices without clashes.
LEMMA LowestOfTheYear ==
  ASSUME NEW rows \in SUBSET PriceRow, \A r \in rows : r.active, NoClash(rows),
         NEW t
  PROVE  LET charged == UNION {{r.price : r \in SelectPriceForDay(rows, t, d)}
                                  : d \in Year}
         IN  LowestChargedPrice(rows, t) =
                IF charged = {} THEN None ELSE Min(charged)
<1> DEFINE own     == {r \in rows : r.type = t}
           seasons == {r \in own : IsSeason(r)}
           listed  == IF CoversWholeYear(seasons) THEN seasons ELSE own
           charged == UNION {{r.price : r \in SelectPriceForDay(rows, t, d)}
                                : d \in Year}
           prices0 == {r.price : r \in listed}
<1>1. CoversWholeYear(seasons) <=> \A d \in Year : \E s \in seasons : InSeason(d, s)
  BY CoveredOrNot
<1>2. ASSUME NEW d \in Year, NEW r \in SelectPriceForDay(rows, t, d)
      PROVE  r \in listed
  <2>1. r \in own
    BY DEF SelectPriceForDay
  <2>2. CASE IsSeason(r)
    BY <2>1, <2>2
  <2>3. CASE ~IsSeason(r)
    <3>1. ~\E s \in seasons : InSeason(d, s)
      BY <2>3 DEF SelectPriceForDay
    <3> QED BY <1>1, <3>1, <2>1
  <2> QED BY <2>2, <2>3
<1>3. ASSUME NEW r \in listed
      PROVE  \E d \in Year : r \in SelectPriceForDay(rows, t, d)
  <2>1. r \in own
    OBVIOUS
  <2>2. CASE IsSeason(r)
    BY <2>1, <2>2, SeasonIsCharged
  <2>3. CASE ~IsSeason(r)
    <3>1. PICK d \in Year : ~\E s \in seasons : InSeason(d, s)
      BY <2>3, <1>1
    <3>2. r \in SelectPriceForDay(rows, t, d)
      BY <2>1, <2>3, <3>1 DEF SelectPriceForDay
    <3> QED BY <3>2
  <2> QED BY <2>2, <2>3
<1>4. charged = prices0
  <2>1. ASSUME NEW p \in charged PROVE p \in prices0
    <3>1. PICK d \in Year : p \in {r.price : r \in SelectPriceForDay(rows, t, d)}
      BY <2>1
    <3>2. PICK r \in SelectPriceForDay(rows, t, d) : p = r.price
      BY <3>1
    <3> QED BY <3>2, <1>2
  <2>2. ASSUME NEW p \in prices0 PROVE p \in charged
    <3>1. PICK r \in listed : p = r.price
      BY <2>2
    <3>2. PICK d \in Year : r \in SelectPriceForDay(rows, t, d)
      BY <3>1, <1>3
    <3> QED BY <3>1, <3>2
  <2> QED BY <2>1, <2>2
<1>5. LowestChargedPrice(rows, t) = IF listed = {} THEN None ELSE Min(prices0)
  BY DEF LowestChargedPrice
<1>6. listed = {} <=> prices0 = {}
  OBVIOUS
<1> HIDE DEF listed, charged, prices0
<1>7. LowestChargedPrice(rows, t) = IF charged = {} THEN None ELSE Min(charged)
  BY <1>4, <1>5, <1>6
<1> QED BY <1>7 DEF charged

-----------------------------------------------------------------------------
(* The inductive invariant.                                                *)

Forms == {t.forms[a] : t \in Tables, a \in Admins}

Saving == {"editing", "delete_prices", "upsert_prices", "delete_schedules",
           "upsert_schedules", "withdraw", "saved", "resume"}

AdminsOK == admin \in [Admins -> [pc : Saving, form : Forms]]

PricesOK == /\ prices \in [DOMAIN prices -> PriceRow]
            /\ ~HasPricingErrors(prices)

DepsOK == dep \in [Keys -> {"none", "available", "withdrawn"}]

\* A customer who has seen a price is followed on one departure.
Buying(rec) ==
    /\ rec.pc \in {"quoted", "priced", "held", "booked", "over"}
    /\ DOMAIN rec = {"pc", "dep", "amount", "late"}
    /\ rec.dep \in Keys

CustOK ==
    /\ cust = [c \in Customers |-> cust[c]]
    /\ \A c \in Customers : cust[c] = [pc |-> "idle"] \/ Buying(cust[c])

CatalogInv == AdminsOK /\ PricesOK /\ DepsOK /\ CustOK /\ NoBookingOnWithdrawn

LEMMA InitInv == ASSUME CatalogInit PROVE CatalogInv
<1>1. PICK t \in Tables :
          /\ prices = t.prices /\ sched = t.sched
          /\ admin = [a \in Admins |-> [pc |-> "editing", form |-> t.forms[a]]]
  BY DEF CatalogInit
<1>2. AdminsOK
  BY <1>1 DEF AdminsOK, Forms, Saving
<1>3. PricesOK
  BY <1>1, TablesAssumption DEF PricesOK
<1>4. DepsOK /\ CustOK /\ NoBookingOnWithdrawn
  BY DEF CatalogInit, DepsOK, CustOK, NoBookingOnWithdrawn
<1> QED BY <1>2, <1>3, <1>4 DEF CatalogInv

LEMMA FormPrices ==
  ASSUME NEW f \in Forms
  PROVE  f.prices \in [DOMAIN f.prices -> PriceRow]
  BY TablesAssumption DEF Forms

\* The admins move on with the form they have.
LEMMA ReachesForm ==
  ASSUME AdminsOK, NEW a \in Admins, NEW from, NEW to \in Saving, Reaches(a, from, to)
  PROVE  AdminsOK'
  BY DEF AdminsOK, Reaches

-----------------------------------------------------------------------------
(* The prices through the saves.                                           *)

LEMMA FewerPrices ==
  ASSUME PricesOK, NEW ids \in SUBSET DOMAIN prices, prices' = Restrict(prices, ids)
  PROVE  PricesOK'
<1>1. DOMAIN prices' = ids /\ \A i \in ids : prices'[i] = prices[i]
  BY DEF Restrict
<1>2. prices' \in [DOMAIN prices' -> PriceRow]
  BY <1>1 DEF PricesOK, Restrict
<1>3. ~HasPricingErrors(prices')
  BY <1>1 DEF PricesOK, HasPricingErrors
<1> QED BY <1>2, <1>3 DEF PricesOK

LEMMA UpsertedPrices ==
  ASSUME PricesOK, NEW f \in Forms, prices' = Upserted(f.prices, prices),
         Accepted(prices')
  PROVE  PricesOK'
<1>1. f.prices \in [DOMAIN f.prices -> PriceRow]
  BY FormPrices
<1>2. prices' \in [DOMAIN prices' -> PriceRow]
  BY <1>1 DEF PricesOK, Upserted
<1> QED BY <1>2 DEF PricesOK, Accepted

-----------------------------------------------------------------------------
(* One lemma per kind of step.                                             *)

\* Steps that only move an admin on, or change what is sold and when.
LEMMA OtherSteps ==
  ASSUME CatalogInv, AdminsOK', UNCHANGED <<prices, dep, cust>>
  PROVE  CatalogInv'
<1>1. PricesOK'
  BY DEF CatalogInv, PricesOK
<1>2. DepsOK' /\ CustOK' /\ NoBookingOnWithdrawn'
  BY DEF CatalogInv, DepsOK, CustOK, NoBookingOnWithdrawn
<1> QED BY <1>1, <1>2 DEF CatalogInv

LEMMA PriceSteps ==
  ASSUME CatalogInv, NEW a \in Admins, DeletePrices(a) \/ UpsertPrices(a)
  PROVE  CatalogInv'
<1>1. AdminsOK'
  BY ReachesForm DEF CatalogInv, DeletePrices, UpsertPrices, Saving
<1>2. admin[a].form \in Forms
  BY DEF CatalogInv, AdminsOK
<1>3. PricesOK'
  <2>1. CASE DeletePrices(a)
    BY <2>1, FewerPrices DEF CatalogInv, DeletePrices
  <2>2. CASE UpsertPrices(a)
    BY <2>2, <1>2, UpsertedPrices DEF CatalogInv, UpsertPrices
  <2> QED BY <2>1, <2>2
<1>4. UNCHANGED <<dep, cust>>
  BY DEF DeletePrices, UpsertPrices
<1>5. DepsOK' /\ CustOK' /\ NoBookingOnWithdrawn'
  BY <1>4 DEF CatalogInv, DepsOK, CustOK, NoBookingOnWithdrawn
<1> QED BY <1>1, <1>3, <1>5 DEF CatalogInv

\* A booking stops the deletion, and the holds go with the departures.
LEMMA DeleteSchedulesInv ==
  ASSUME CatalogInv, NEW a \in Admins, DeleteSchedules(a)
  PROVE  CatalogInv'
<1> DEFINE kept == DOMAIN sched \cap DOMAIN PostedRows(admin[a].form)
           gone == {k \in Keys : k[1] \in DOMAIN sched \ kept}
<1>1. /\ \A k \in gone, c \in Customers : ~HasRow(c, k)
      /\ dep' = [k \in Keys |-> IF k \in gone THEN "none" ELSE dep[k]]
      /\ cust' = [c \in Customers |->
            IF cust[c].pc = "held" /\ cust[c].dep \in gone
            THEN [pc |-> "idle"] ELSE cust[c]]
      /\ Reaches(a, "delete_schedules", "upsert_schedules")
      /\ UNCHANGED prices
  BY DEF DeleteSchedules
<1> HIDE DEF gone
<1>2. AdminsOK'
  BY <1>1, ReachesForm DEF CatalogInv, Saving
<1>3. PricesOK'
  BY <1>1 DEF CatalogInv, PricesOK
<1>4. DepsOK'
  BY <1>1 DEF CatalogInv, DepsOK
<1>5. CustOK'
  BY <1>1 DEF CatalogInv, CustOK, Buying
<1>6. NoBookingOnWithdrawn'
  <2>1. SUFFICES ASSUME NEW c \in Customers,
                        cust'[c].pc = "booked" \/ (cust'[c].pc = "held" /\ ~cust'[c].late)
                 PROVE  dep'[cust'[c].dep] = "available"
    BY DEF NoBookingOnWithdrawn
  <2>2. cust'[c] = cust[c] /\ Buying(cust[c])
    BY <1>1, <2>1 DEF CatalogInv, CustOK
  <2>3. cust[c].dep \in Keys /\ cust[c].dep \notin gone
    BY <1>1, <2>1, <2>2 DEF Buying, HasRow
  <2>4. dep[cust[c].dep] = "available"
    BY <2>1, <2>2 DEF CatalogInv, NoBookingOnWithdrawn
  <2> QED BY <1>1, <2>2, <2>3, <2>4
<1> QED BY <1>2, <1>3, <1>4, <1>5, <1>6 DEF CatalogInv

\* The departures that are withdrawn have neither holds nor bookings.
LEMMA WithdrawInv ==
  ASSUME CatalogInv, NEW a \in Admins, Withdraw(a)
  PROVE  CatalogInv'
<1> DEFINE out  == {k \in Keys : OutOfValidity(k)}
           kept == {k \in out : Alive(k)}
<1>1. /\ \E to \in Saving : Reaches(a, "withdraw", to)
      /\ dep' = [k \in Keys |-> IF k \in out \ kept THEN "withdrawn" ELSE dep[k]]
      /\ UNCHANGED <<prices, cust>>
  BY DEF Withdraw, Saving
<1>2. AdminsOK'
  BY <1>1, ReachesForm DEF CatalogInv
<1>3. PricesOK' /\ CustOK'
  BY <1>1 DEF CatalogInv, PricesOK, CustOK
<1>4. DepsOK'
  BY <1>1 DEF CatalogInv, DepsOK
<1>5. NoBookingOnWithdrawn'
  <2>1. SUFFICES ASSUME NEW c \in Customers,
                        cust[c].pc = "booked" \/ (cust[c].pc = "held" /\ ~cust[c].late)
                 PROVE  dep'[cust[c].dep] = "available"
    BY <1>1 DEF NoBookingOnWithdrawn
  <2>2. cust[c].dep \in Keys /\ Alive(cust[c].dep)
    BY <2>1 DEF CatalogInv, CustOK, Buying, Alive
  <2>3. dep[cust[c].dep] = "available"
    BY <2>1 DEF CatalogInv, NoBookingOnWithdrawn
  <2> QED BY <1>1, <2>2, <2>3
<1> QED BY <1>2, <1>3, <1>4, <1>5 DEF CatalogInv

LEMMA SaveInv ==
  ASSUME CatalogInv, NEW a \in Admins, SaveStep(a)
  PROVE  CatalogInv'
<1>1. CASE UpdateTour(a)
  BY <1>1, ReachesForm, OtherSteps DEF UpdateTour, Saving, CatalogInv
<1>2. CASE DeletePrices(a) \/ UpsertPrices(a)
  BY <1>2, PriceSteps
<1>3. CASE DeleteSchedules(a)
  BY <1>3, DeleteSchedulesInv
<1>4. CASE UpsertSchedules(a)
  <2>1. Reaches(a, "upsert_schedules", "withdraw") /\ UNCHANGED <<prices, dep, cust>>
    BY <1>4 DEF UpsertSchedules
  <2> QED BY <2>1, ReachesForm, OtherSteps DEF Saving, CatalogInv
<1>5. CASE Withdraw(a)
  BY <1>5, WithdrawInv
<1>6. CASE SaveFails(a)
  BY <1>6, ReachesForm, OtherSteps DEF SaveFails, Saving, CatalogInv
<1>7. CASE ResumeRead(a) \/ ResumeTour(a)
  BY <1>7, ReachesForm, OtherSteps DEF ResumeRead, ResumeTour, Saving, CatalogInv
<1> QED BY <1>1, <1>2, <1>3, <1>4, <1>5, <1>6, <1>7 DEF SaveStep

\* A customer goes on, with the departure that was looked at.
LEMMA CustomerInv ==
  ASSUME CatalogInv, NEW c \in Customers, NEW rec, Becomes(c, rec),
         rec = [pc |-> "idle"] \/ Buying(rec),
         rec.pc = "booked" \/ (rec.pc = "held" /\ ~rec.late)
            => dep[rec.dep] = "available"
  PROVE  CatalogInv'
<1>1. cust' = [cust EXCEPT ![c] = rec] /\ UNCHANGED <<prices, dep, admin>>
  BY DEF Becomes
<1>2. cust'[c] = rec /\ \A q \in Customers : q # c => cust'[q] = cust[q]
  BY <1>1 DEF CatalogInv, CustOK
<1>3. CustOK'
  BY <1>1, <1>2 DEF CatalogInv, CustOK
<1>4. NoBookingOnWithdrawn'
  BY <1>1, <1>2 DEF CatalogInv, NoBookingOnWithdrawn
<1>5. AdminsOK' /\ PricesOK' /\ DepsOK'
  BY <1>1 DEF CatalogInv, AdminsOK, PricesOK, DepsOK
<1> QED BY <1>3, <1>4, <1>5 DEF CatalogInv

\* The record of a customer who only gets further.
LEMMA Further ==
  ASSUME NEW rec, Buying(rec), NEW pc \in {"priced", "held", "booked", "over"}
  PROVE  /\ Buying([rec EXCEPT !.pc = pc])
         /\ [rec EXCEPT !.pc = pc].pc = pc
         /\ [rec EXCEPT !.pc = pc].dep = rec.dep
         /\ [rec EXCEPT !.pc = pc].late = rec.late
  BY DEF Buying

LEMMA CheckoutInv ==
  ASSUME CatalogInv, NEW c \in Customers, CheckoutStep(c)
  PROVE  CatalogInv'
<1>0. cust[c] = [pc |-> "idle"] \/ Buying(cust[c])
  BY DEF CatalogInv, CustOK
<1>1. CASE Becomes(c, [pc |-> "idle"])
  BY <1>1, CustomerInv
<1>2. ASSUME NEW k \in Keys, Quote(c, k)
      PROVE  CatalogInv'
  <2>1. PICK total \in Totals(k) \ {None}, late \in BOOLEAN :
           Becomes(c, [pc |-> "quoted", dep |-> k, amount |-> total, late |-> late])
    BY <1>2 DEF Quote
  <2>2. Buying([pc |-> "quoted", dep |-> k, amount |-> total, late |-> late])
    BY DEF Buying
  <2> QED BY <2>1, <2>2, CustomerInv
<1>3. CASE Recheck(c) /\ Becomes(c, [cust[c] EXCEPT !.pc = "priced"])
  <2>1. Buying(cust[c])
    BY <1>0, <1>3 DEF Recheck
  <2> QED BY <1>3, <2>1, Further, CustomerInv
<1>4. CASE Hold(c) /\ Becomes(c, [cust[c] EXCEPT !.pc = "held"])
  <2>1. Buying(cust[c])
    BY <1>0, <1>4 DEF Hold
  <2>2. CASE dep[cust[c].dep] = "available"
    BY <1>4, <2>1, <2>2, Further, CustomerInv
  <2>3. CASE dep[cust[c].dep] # "available"
    BY <1>1, <1>4, <2>3 DEF Hold
  <2> QED BY <2>2, <2>3
<1>5. CASE Book(c)
  <2>1. Buying(cust[c]) /\ Becomes(c, [cust[c] EXCEPT !.pc = "booked"])
    BY <1>0, <1>5 DEF Book
  <2>2. dep[cust[c].dep] = "available"
    BY <1>5 DEF Book, CatalogInv, NoBookingOnWithdrawn
  <2> QED BY <2>1, <2>2, Further, CustomerInv
<1>6. CASE EndBooking(c)
  <2>1. Buying(cust[c]) /\ Becomes(c, [cust[c] EXCEPT !.pc = "over"])
    BY <1>0, <1>6 DEF EndBooking
  <2> QED BY <2>1, Further, CustomerInv
<1>7. Recheck(c) => \/ Becomes(c, [pc |-> "idle"])
                    \/ Becomes(c, [cust[c] EXCEPT !.pc = "priced"])
  BY DEF Recheck
<1>8. Hold(c) => \/ Becomes(c, [pc |-> "idle"])
                 \/ Becomes(c, [cust[c] EXCEPT !.pc = "held"])
  BY DEF Hold
<1> QED BY <1>1, <1>2, <1>3, <1>4, <1>5, <1>6, <1>7, <1>8
       DEF CheckoutStep, LoseHold

\* The generator adds departures, and changes none that there is.
LEMMA GeneratorInv ==
  ASSUME CatalogInv, NEW s \in Schedules, GenerateInsert(s)
  PROVE  CatalogInv'
<1>1. UNCHANGED <<prices, admin, cust>>
  BY DEF GenerateInsert
<1>2. DepsOK' /\ \A k \in Keys : dep[k] # "none" => dep'[k] = dep[k]
  BY DEF GenerateInsert, Inserted, CatalogInv, DepsOK
<1>3. NoBookingOnWithdrawn'
  <2>1. SUFFICES ASSUME NEW c \in Customers,
                        cust[c].pc = "booked" \/ (cust[c].pc = "held" /\ ~cust[c].late)
                 PROVE  dep'[cust[c].dep] = "available"
    BY <1>1 DEF NoBookingOnWithdrawn
  <2>2. cust[c].dep \in Keys
    BY <2>1 DEF CatalogInv, CustOK, Buying
  <2> QED BY <1>2, <2>1, <2>2 DEF CatalogInv, NoBookingOnWithdrawn
<1>4. AdminsOK' /\ PricesOK' /\ CustOK'
  BY <1>1 DEF CatalogInv, AdminsOK, PricesOK, CustOK
<1> QED BY <1>2, <1>3, <1>4 DEF CatalogInv

LEMMA NextInv ==
  ASSUME CatalogInv, [CatalogNext]_catalog
  PROVE  CatalogInv'
<1>1. CASE GenerateRead \/ NextDay \/ PauseTour
  <2>1. UNCHANGED <<prices, dep, admin, cust>>
    BY <1>1 DEF GenerateRead, NextDay, PauseTour
  <2>2. AdminsOK'
    BY <2>1 DEF CatalogInv, AdminsOK
  <2> QED BY <2>1, <2>2, OtherSteps
<1>2. ASSUME NEW s \in Schedules, GenerateInsert(s)
      PROVE  CatalogInv'
  BY <1>2, GeneratorInv
<1>3. ASSUME NEW a \in Admins, SaveStep(a)
      PROVE  CatalogInv'
  BY <1>3, SaveInv
<1>4. ASSUME NEW c \in Customers, CheckoutStep(c)
      PROVE  CatalogInv'
  BY <1>4, CheckoutInv
<1>5. CASE UNCHANGED catalog
  <2>1. UNCHANGED <<prices, dep, admin, cust>>
    BY <1>5 DEF catalog
  <2>2. AdminsOK'
    BY <2>1 DEF CatalogInv, AdminsOK
  <2> QED BY <2>1, <2>2, OtherSteps
<1> QED BY <1>1, <1>2, <1>3, <1>4, <1>5 DEF CatalogNext

-----------------------------------------------------------------------------
(* The theorems.                                                           *)

\* The inductive invariant of the catalogue: prices without clashes, whatever
\* saves cross, and what each customer has against the departures.
THEOREM CatalogInvariant == CatalogSpec => []CatalogInv
  BY InitInv, NextInv, PTL DEF CatalogSpec

\* The rows that are for sale, of a table without clashes
LEMMA SoldRows ==
  ASSUME PricesOK
  PROVE  LET rows == ActiveRows(Range(prices))
         IN  /\ rows \in SUBSET PriceRow
             /\ \A r \in rows : r.active
             /\ NoClash(rows)
<1> DEFINE rows == ActiveRows(Range(prices))
<1>1. rows \in SUBSET PriceRow /\ \A r \in rows : r.active
  BY DEF PricesOK, ActiveRows, Range
<1>2. NoClash(rows)
  <2>1. SUFFICES ASSUME NEW r \in rows, NEW s \in rows, r # s PROVE ~Clash(r, s)
    BY DEF NoClash
  <2>2. PICK i \in DOMAIN prices, j \in DOMAIN prices : r = prices[i] /\ s = prices[j]
    BY <2>1 DEF ActiveRows, Range
  <2> QED BY <2>1, <2>2 DEF PricesOK, HasPricingErrors
<1> QED BY <1>1, <1>2

\* No visitor is told a "from" price that is not charged on any day, nor one
\* above what some day costs: for a year of any length, any seasons, and any
\* saves of the form that cross.
THEOREM CatalogLowestIsCharged == CatalogSpec => []LowestIsCharged
<1>1. CatalogInv => LowestIsCharged
  <2>1. SUFFICES ASSUME CatalogInv, NEW t \in Types
                 PROVE  LET rows    == ActiveRows(Range(prices))
                            charged == UNION {{r.price :
                                         r \in SelectPriceForDay(rows, t, d)}
                                           : d \in Year}
                        IN  LowestChargedPrice(rows, t) =
                               IF charged = {} THEN None ELSE Min(charged)
    BY DEF LowestIsCharged
  <2> QED BY <2>1, SoldRows, LowestOfTheYear DEF CatalogInv
<1> QED BY <1>1, CatalogInvariant, PTL

LEMMA AtMostOne ==
  ASSUME NEW S, \A x, y \in S : x = y
  PROVE  Cardinality(S) <= 1
<1>1. S = {} \/ \E x : S = {x}
  OBVIOUS
<1>2. CASE S = {}
  BY <1>2, FS_EmptySet
<1>3. ASSUME NEW x, S = {x} PROVE Cardinality(S) = 1
  BY <1>3, FS_Singleton
<1> QED BY <1>1, <1>2, <1>3

\* However two saves of the form interleave, a ticket has one base price at
\* most, and on no day two seasons: what is charged meanwhile does not depend
\* on the order of the rows.
THEOREM CatalogOnePriceADay == CatalogSpec => []OnePriceADay
<1>1. CatalogInv => OnePriceADay
  <2> DEFINE rows == ActiveRows(Range(prices))
  <2>1. SUFFICES ASSUME CatalogInv, NEW t \in Types, NEW d \in Year
                 PROVE  /\ Cardinality({r \in rows : r.type = t /\ ~IsSeason(r)}) <= 1
                        /\ Cardinality({r \in rows : r.type = t /\ IsSeason(r)
                                                       /\ InSeason(d, r)}) <= 1
    BY DEF OnePriceADay
  <2>2. rows \in SUBSET PriceRow /\ (\A r \in rows : r.active) /\ NoClash(rows)
    BY <2>1, SoldRows DEF CatalogInv
  <2> HIDE DEF rows
  <2>3. ASSUME NEW r \in rows, NEW s \in rows, r.type = t, s.type = t,
               ~IsSeason(r), ~IsSeason(s)
        PROVE  r = s
    BY <2>2, <2>3 DEF NoClash, Clash
  <2>4. ASSUME NEW r \in rows, NEW s \in rows, r.type = t, s.type = t,
               IsSeason(r), IsSeason(s), InSeason(d, r), InSeason(d, s)
        PROVE  r = s
    <3>1. SeasonsOverlap(r, s)
      BY <2>2, <2>4, SharedDay
    <3> QED BY <2>2, <2>4, <3>1 DEF NoClash, Clash
  <2>5. Cardinality({r \in rows : r.type = t /\ ~IsSeason(r)}) <= 1
    BY <2>3, AtMostOne
  <2>6. Cardinality({r \in rows : r.type = t /\ IsSeason(r) /\ InSeason(d, r)}) <= 1
    BY <2>4, AtMostOne
  <2> QED BY <2>5, <2>6
<1> QED BY <1>1, CatalogInvariant, PTL

\* Nobody who booked, and nobody who is about to in the same request, is left
\* on a departure that saving the form withdrew or deleted.
THEOREM CatalogNoBookingOnWithdrawn == CatalogSpec => []NoBookingOnWithdrawn
<1>1. CatalogInv => NoBookingOnWithdrawn
  BY DEF CatalogInv
<1> QED BY <1>1, CatalogInvariant, PTL

\* A departure that was withdrawn is not for sale again, whatever schedules the
\* generator had read before.
THEOREM CatalogWithdrawnStays == CatalogSpec => WithdrawnStays
<1>1. ASSUME CatalogInv, [CatalogNext]_catalog, NEW k \in Keys,
             dep[k] = "withdrawn", k[1] \in DOMAIN sched'
      PROVE  dep'[k] = "withdrawn"
  <2>1. CASE UNCHANGED dep
    BY <1>1, <2>1
  <2>2. ASSUME NEW s \in Schedules, GenerateInsert(s)
        PROVE  dep'[k] = "withdrawn"
    BY <1>1, <2>2 DEF GenerateInsert, Inserted
  <2>3. ASSUME NEW a \in Admins, DeleteSchedules(a)
        PROVE  dep'[k] = "withdrawn"
    BY <1>1, <2>3 DEF DeleteSchedules, Restrict
  <2>4. ASSUME NEW a \in Admins, Withdraw(a)
        PROVE  dep'[k] = "withdrawn"
    BY <1>1, <2>4 DEF Withdraw
  <2>5. ASSUME NEW c \in Customers, CheckoutStep(c) PROVE UNCHANGED dep
    BY <2>5 DEF CheckoutStep, Quote, Recheck, Hold, Book, LoseHold, EndBooking, Becomes
  <2>6. ASSUME NEW a \in Admins, SaveStep(a), ~DeleteSchedules(a), ~Withdraw(a)
        PROVE  UNCHANGED dep
    BY <2>6 DEF SaveStep, UpdateTour, DeletePrices, UpsertPrices, UpsertSchedules,
                SaveFails, ResumeRead, ResumeTour
  <2>7. GenerateRead \/ NextDay \/ PauseTour \/ UNCHANGED catalog => UNCHANGED dep
    BY DEF GenerateRead, NextDay, PauseTour, catalog
  <2> QED BY <1>1, <2>1, <2>2, <2>3, <2>4, <2>5, <2>6, <2>7 DEF CatalogNext
<1>2. CatalogInv /\ [CatalogNext]_catalog =>
         [\A k \in Keys : dep[k] = "withdrawn" /\ k[1] \in DOMAIN sched'
                             => dep'[k] = "withdrawn"]_catalog
  BY <1>1
<1> QED BY <1>2, CatalogInvariant, PTL DEF CatalogSpec, WithdrawnStays

-----------------------------------------------------------------------------
(* The users of the panel (Accounts).                                      *)

\* Who is left when one of several is deactivated
LEMMA SomebodyElse ==
  ASSUME NEW S, IsFiniteSet(S), Cardinality(S) > 1, NEW u
  PROVE  \E v \in S : v # u
<1>1. SUFFICES ASSUME \A v \in S : v = u PROVE FALSE
  OBVIOUS
<1>2. S = {} \/ S = {u}
  BY <1>1
<1>3. Cardinality(S) = 0 \/ Cardinality(S) = 1
  BY <1>2, FS_EmptySet, FS_Singleton
<1> QED BY <1>3

UsersOK ==
    /\ user = [u \in Users |-> user[u]]
    /\ \A u \in Users : DOMAIN user[u] = {"row", "auth", "ban"}
    /\ op = [a \in Users |-> op[a]]

LEMMA InitUsers == ASSUME AccountsInit PROVE UsersOK
  BY DEF AccountsInit, UsersOK

\* A write of another part of a row leaves the person in or out as before.
LEMMA WriteActive ==
  ASSUME UsersOK, NEW u \in Users, NEW rec, DOMAIN rec = {"row", "auth", "ban"},
         Write(u, rec)
  PROVE  /\ user' = [v \in Users |-> user'[v]]
         /\ \A v \in Users : DOMAIN user'[v] = {"row", "auth", "ban"}
         /\ user'[u] = rec
         /\ \A v \in Users : v # u => user'[v] = user[v]
  BY DEF UsersOK, Write

\* Every step leaves the active admins, adds one, deletes an account, or
\* deactivates one who is not the last.
UserStep ==
    /\ UsersOK'
    /\ \/ Active \subseteq Active'
       \/ \E u \in Users : user[u].auth # "none" /\ user'[u].auth = "none"
       \/ Active' # {}

LEMMA SameUsers ==
  ASSUME UsersOK, UNCHANGED user, op' = [a \in Users |-> op'[a]]
  PROVE  UserStep
  BY DEF UsersOK, UserStep, Active

LEMMA DeletedStep ==
  ASSUME UsersOK, NEW u \in Users, Deleted(u), op' = [a \in Users |-> op'[a]]
  PROVE  UserStep
<1>1. PICK row : user[u].auth # "none"
                 /\ Write(u, [row |-> row, auth |-> "none", ban |-> FALSE])
  BY DEF Deleted
<1>2. user'[u].auth = "none" /\ UsersOK'
  BY <1>1, WriteActive DEF UsersOK
<1> QED BY <1>1, <1>2 DEF UserStep

LEMMA KeptRow ==
  ASSUME UsersOK, NEW u \in Users, NEW rec, DOMAIN rec = {"row", "auth", "ban"},
         rec.row = user[u].row \/ rec.row = "active",
         Write(u, rec), op' = [a \in Users |-> op'[a]]
  PROVE  UserStep
<1>1. UsersOK'
  BY WriteActive DEF UsersOK
<1>2. Active \subseteq Active'
  BY WriteActive DEF Active
<1> QED BY <1>1, <1>2 DEF UserStep

LEMMA DeactivateStep ==
  ASSUME UsersOK, NEW a \in Users, NEW u \in Users, DeactivateInternalUser(a, u)
  PROVE  UserStep
<1>1. op' = [b \in Users |-> op'[b]]
  BY DEF DeactivateInternalUser, UsersOK, Ends
<1>2. CASE NotTheLast(u)
  <2>1. Write(u, [user[u] EXCEPT !.row = "inactive"])
    BY <1>2 DEF DeactivateInternalUser
  <2>2. DOMAIN [user[u] EXCEPT !.row = "inactive"] = {"row", "auth", "ban"}
    BY DEF UsersOK
  <2>3. IsFiniteSet(Active)
    BY UsersAssumption, FS_Subset DEF Active
  <2>4. PICK v \in Active : v # u
    BY <1>2, <2>3, SomebodyElse DEF NotTheLast
  <2>5. v \in Active'
    BY <2>1, <2>2, <2>4, WriteActive DEF Active
  <2>6. UsersOK'
    BY <1>1, <2>1, <2>2, WriteActive DEF UsersOK
  <2> QED BY <2>5, <2>6 DEF UserStep
<1>3. CASE ~NotTheLast(u)
  BY <1>1, <1>3, SameUsers DEF DeactivateInternalUser
<1> QED BY <1>2, <1>3

LEMMA AdminStepLemma ==
  ASSUME UsersOK, NEW a \in Users, NEW u \in Users, AdminStep(a, u)
  PROVE  UserStep
<1>0. DOMAIN user[u] = {"row", "auth", "ban"}
  BY DEF UsersOK
<1>1. op' = [b \in Users |-> op'[b]]
  BY DEF UsersOK, AdminStep, Invite, InsertUser, CheckDeactivation,
         DeactivateInternalUser, BlockSessions, FindAccount, ActivateUser,
         UnblockSessions, Ends, Starts
<1>2. CASE Invite(a, u)
  <2>1. Write(u, [user[u] EXCEPT !.auth = "invited"])
    BY <1>2 DEF Invite
  <2> QED BY <1>0, <1>1, <2>1, KeptRow
<1>3. CASE InsertUser(a, u)
  <2>1. CASE Write(u, [user[u] EXCEPT !.row = "active"])
    BY <1>0, <1>1, <2>1, KeptRow
  <2> QED BY <1>1, <1>3, <2>1, DeletedStep, SameUsers DEF InsertUser
<1>4. CASE CheckDeactivation(a, u) \/ FindAccount(a, u)
  BY <1>1, <1>4, SameUsers DEF CheckDeactivation, FindAccount
<1>5. CASE DeactivateInternalUser(a, u)
  BY <1>5, DeactivateStep
<1>6. CASE BlockSessions(a, u)
  <2>1. CASE Write(u, [user[u] EXCEPT !.ban = TRUE])
    BY <1>0, <1>1, <2>1, KeptRow
  <2> QED BY <1>1, <1>6, <2>1, SameUsers DEF BlockSessions
<1>7. CASE ActivateUser(a, u)
  <2>1. CASE Write(u, [user[u] EXCEPT !.row = "active"])
    BY <1>0, <1>1, <2>1, KeptRow
  <2> QED BY <1>1, <1>7, <2>1, SameUsers DEF ActivateUser
<1>8. CASE UnblockSessions(a, u)
  <2>1. CASE Write(u, [user[u] EXCEPT !.ban = FALSE])
    BY <1>0, <1>1, <2>1, KeptRow
  <2> QED BY <1>1, <1>8, <2>1, SameUsers DEF UnblockSessions
<1> QED BY <1>2, <1>3, <1>4, <1>5, <1>6, <1>7, <1>8 DEF AdminStep

LEMMA AccountsStep ==
  ASSUME UsersOK, [AccountsNext]_accounts
  PROVE  UserStep
<1>1. ASSUME NEW a \in Users, NEW u \in Users, AdminStep(a, u) PROVE UserStep
  BY <1>1, AdminStepLemma
<1>2. ASSUME NEW u \in Users, AcceptInvite(u) PROVE UserStep
  <2>1. /\ Write(u, [user[u] EXCEPT !.auth = "ready"])
        /\ DOMAIN [user[u] EXCEPT !.auth = "ready"] = {"row", "auth", "ban"}
        /\ op' = [a \in Users |-> op'[a]]
    BY <1>2 DEF AcceptInvite, UsersOK
  <2>2. [user[u] EXCEPT !.auth = "ready"].row = user[u].row
    BY DEF UsersOK
  <2> QED BY <2>1, <2>2, KeptRow
<1>3. ASSUME NEW u \in Users, PanelFails(u) PROVE UserStep
  BY <1>3, SameUsers DEF PanelFails, Ends, UsersOK
<1>4. ASSUME NEW u \in Users, DeleteAccount(u) PROVE UserStep
  BY <1>4, DeletedStep DEF DeleteAccount, UsersOK
<1>5. CASE UNCHANGED accounts
  BY <1>5, SameUsers DEF accounts, UsersOK
<1> QED BY <1>1, <1>2, <1>3, <1>4, <1>5 DEF AccountsNext

\* Admins who deactivate each other at once never leave the panel with no
\* active admin, for any number of them: only deleting an account does.
THEOREM AccountsSomeAdmin == AccountsSpec => SomeAdmin
<1>1. AccountsInit => UsersOK
  BY InitUsers
<1>2. UsersOK /\ [AccountsNext]_accounts => UsersOK'
  BY AccountsStep DEF UserStep
<1>3. UsersOK /\ [AccountsNext]_accounts =>
         [Active # {} /\ Active' = {} =>
             \E u \in Users : user[u].auth # "none" /\ user'[u].auth = "none"]_accounts
  BY AccountsStep DEF UserStep
<1> QED BY <1>1, <1>2, <1>3, PTL DEF AccountsSpec, SomeAdmin

-----------------------------------------------------------------------------
(* Erased data and payments (PersonalData): the inductive invariant.       *)

DeskTypes ==
    {Away}
    \cup [pc : {"contact", "notices", "links"}, b : Bookings, to : Addresses,
          before : Addresses \cup {Anon}]
    \cup [pc : {"erase"}, email : Addresses]

PeopleTypes ==
    /\ booking \in [Bookings -> BookingRow]
    /\ intent \in [Bookings -> {"none", "open", "paid", "closed"}]
    /\ age \in 0 .. 3
    /\ desk \in [Users -> DeskTypes]

\* What a row, and the intent of a deferred booking, say of each other.
ErasedOf(b) == booking[b].erased => booking[b].contact = Anon

PaymentOf(b) ==
    /\ booking[b].status = "pending_minimum" =>
          booking[b].pay = "none" /\ intent[b] = "none"
    /\ intent[b] = "open" =>
          b \in Kept /\ booking[b].pay \in {"pending", "failed"}
    /\ intent[b] = "paid" =>
          \/ age = 3
          \/ b \in Kept /\ (Traced(b) \/ booking[b].pay \in {"pending", "failed"})
    /\ b \in Kept /\ ~Traced(b) => booking[b].ids
    /\ booking[b].erased \/ booking[b].refund = "unfinished" => Traced(b)

PeopleInv ==
    /\ PeopleTypes
    /\ \A b \in Bookings : ErasedOf(b)
    /\ \A b \in Late : PaymentOf(b)

LEMMA LateBookings == ASSUME NEW b \in Late PROVE b \in Bookings
  BY ShapesAssumption

LEMMA InitPeople == ASSUME PersonalDataInit PROVE PeopleInv
<1>1. /\ booking \in [Bookings -> BookingRow]
      /\ \A b \in Bookings :
            /\ booking[b].status # "deleted" /\ ~booking[b].erased
            /\ booking[b].status = "pending_minimum" => booking[b].pay = "none"
            /\ booking[b].refund = "unfinished" => booking[b].pay = "succeeded"
            /\ b \in Late => booking[b].ids
  BY ShapesAssumption DEF PersonalDataInit
<1>2. \A b \in Bookings :
         intent[b] = CASE booking[b].pay = "succeeded" -> "paid"
                       [] booking[b].pay = "pending" -> "open"
                       [] OTHER -> "none"
  BY DEF PersonalDataInit
<1>3. PeopleTypes
  <2>1. intent \in [Bookings -> {"none", "open", "paid", "closed"}]
    BY DEF PersonalDataInit
  <2>2. age \in 0 .. 3 /\ desk \in [Users -> DeskTypes]
    BY DEF PersonalDataInit, DeskTypes
  <2> QED BY <1>1, <2>1, <2>2 DEF PeopleTypes
<1>4. \A b \in Bookings : ErasedOf(b)
  BY <1>1 DEF ErasedOf
<1>5. ASSUME NEW b \in Late PROVE PaymentOf(b)
  <2>1. b \in Bookings
    BY LateBookings
  <2> QED BY <2>1, <1>1, <1>2 DEF PaymentOf, Kept, Traced
<1> QED BY <1>3, <1>4, <1>5 DEF PeopleInv

\* What no step does to a person who was erased.
Forgotten ==
    \A b \in Bookings :
       booking[b].erased
          => booking'[b].contact = Anon /\ (booking'[b].ids => booking[b].ids)

PeopleStep == PeopleInv' /\ Forgotten

\* Steps that leave the rows, the intents and the clock alone
LEMMA QuietPeople ==
  ASSUME PeopleInv, UNCHANGED <<booking, intent, age>>,
         desk' \in [Users -> DeskTypes]
  PROVE  PeopleStep
<1>1. PeopleTypes'
  BY DEF PeopleInv, PeopleTypes
<1>2. (\A b \in Bookings : ErasedOf(b)') /\ (\A b \in Late : PaymentOf(b)')
  BY DEF PeopleInv, ErasedOf, PaymentOf, Kept, Traced
<1>3. Forgotten
  BY DEF PeopleInv, ErasedOf, Forgotten
<1> QED BY <1>1, <1>2, <1>3 DEF PeopleInv, PeopleStep

\* Steps about one booking
LEMMA OneBooking ==
  ASSUME PeopleInv, NEW b \in Bookings,
         booking'[b] \in BookingRow,
         intent'[b] \in {"none", "open", "paid", "closed"},
         booking' = [booking EXCEPT ![b] = booking'[b]],
         intent' = [intent EXCEPT ![b] = intent'[b]],
         UNCHANGED age, desk' \in [Users -> DeskTypes],
         ErasedOf(b)', b \in Late => PaymentOf(b)',
         booking[b].erased
            => booking'[b].contact = Anon /\ (booking'[b].ids => booking[b].ids)
  PROVE  PeopleStep
<1>1. \A c \in Bookings : c # b => booking'[c] = booking[c] /\ intent'[c] = intent[c]
  BY DEF PeopleInv, PeopleTypes
<1>2. PeopleTypes'
  BY DEF PeopleInv, PeopleTypes
<1>3. \A c \in Bookings : ErasedOf(c)'
  BY <1>1 DEF PeopleInv, ErasedOf
<1>4. ASSUME NEW c \in Late PROVE PaymentOf(c)'
  <2>1. c \in Bookings
    BY LateBookings
  <2>2. CASE c # b
    BY <1>1, <2>1, <2>2 DEF PeopleInv, PaymentOf, Kept, Traced
  <2> QED BY <2>2
<1>5. Forgotten
  BY <1>1 DEF PeopleInv, ErasedOf, Forgotten
<1> QED BY <1>2, <1>3, <1>4, <1>5 DEF PeopleInv, PeopleStep

\* Rows that are written over, but for their contact and their ids.
LEMMA ChangeRow ==
  ASSUME PeopleInv, NEW b \in Bookings, NEW rec \in BookingRow, Change(b, rec),
         rec.contact = booking[b].contact, rec.ids = booking[b].ids,
         rec.erased = booking[b].erased,
         intent' = [intent EXCEPT ![b] = intent'[b]],
         intent'[b] \in {"none", "open", "paid", "closed"},
         b \in Late => PaymentOf(b)'
  PROVE  PeopleStep
<1>1. booking'[b] = rec /\ booking' = [booking EXCEPT ![b] = booking'[b]]
  BY DEF Change, PeopleInv, PeopleTypes
<1>2. UNCHANGED age /\ desk' \in [Users -> DeskTypes]
  BY DEF Change, PeopleInv, PeopleTypes
<1>3. ErasedOf(b)'
  BY <1>1 DEF PeopleInv, ErasedOf
<1>4. booking[b].erased
         => booking'[b].contact = Anon /\ (booking'[b].ids => booking[b].ids)
  BY <1>1 DEF PeopleInv, ErasedOf
<1> QED BY <1>1, <1>2, <1>3, <1>4, OneBooking

LEMMA LifeOfBooking ==
  ASSUME PeopleInv, NEW b \in Bookings,
         StartsCharge(b) \/ Settles(b) \/ EndsBooking(b) \/ Refunded(b)
  PROVE  PeopleStep
<1>0. /\ booking[b] \in BookingRow /\ intent[b] \in {"none", "open", "paid", "closed"}
      /\ b \in Kept /\ (b \in Late => PaymentOf(b))
      /\ DOMAIN booking = Bookings /\ DOMAIN intent = Bookings
      /\ [intent EXCEPT ![b] = intent[b]] = intent
  BY DEF PeopleInv, PeopleTypes, StartsCharge, Settles, EndsBooking, Refunded
<1>1. CASE StartsCharge(b)
  <2> DEFINE rec == [booking[b] EXCEPT !.status = "pending_payment",
                                       !.pay = "pending"]
  <2>1. Change(b, rec) /\ intent' = [intent EXCEPT ![b] = "open"] /\ b \in Late
        /\ booking[b].status = "pending_minimum"
    BY <1>1 DEF StartsCharge
  <2>2. rec \in BookingRow /\ rec.contact = booking[b].contact
        /\ rec.ids = booking[b].ids /\ rec.erased = booking[b].erased
        /\ rec.status = "pending_payment" /\ rec.pay = "pending"
        /\ rec.refund = booking[b].refund
    BY <1>0 DEF BookingRow, LiveStatus
  <2> HIDE DEF rec
  <2>3. booking'[b] = rec /\ intent'[b] = "open"
    BY <1>0, <2>1 DEF Change
  <2>4. PaymentOf(b)'
    BY <1>0, <2>1, <2>2, <2>3 DEF PaymentOf, Kept, Traced
  <2> QED BY <2>1, <2>2, <2>3, <2>4, ChangeRow
<1>2. CASE Settles(b)
  <2>1. PICK rec \in {[booking[b] EXCEPT !.pay = "succeeded",
                                         !.refund = "unfinished"],
                      [booking[b] EXCEPT !.pay = "succeeded",
                                         !.status = "confirmed"]} :
           Change(b, rec) /\ UNCHANGED intent
    BY <1>2 DEF Settles
  <2>2. rec \in BookingRow /\ rec.contact = booking[b].contact
        /\ rec.ids = booking[b].ids /\ rec.erased = booking[b].erased
        /\ rec.status \in {"confirmed", booking[b].status} /\ rec.pay = "succeeded"
        /\ rec.refund \in {"none", "unfinished", "done"}
    BY <1>0 DEF BookingRow, LiveStatus
  <2>3. booking'[b] = rec /\ intent'[b] = intent[b]
        /\ intent' = [intent EXCEPT ![b] = intent'[b]]
    BY <1>0, <2>1 DEF Change
  <2>4. b \in Late => PaymentOf(b)'
    BY <1>0, <1>2, <2>2, <2>3 DEF PaymentOf, Kept, Traced, Settles
  <2> QED BY <1>0, <2>1, <2>2, <2>3, <2>4, ChangeRow
<1>3. CASE EndsBooking(b)
  <2>1. PICK rec : /\ Change(b, rec) /\ UNCHANGED intent
                   /\ \/ /\ booking[b].pay = "succeeded"
                         /\ rec = [booking[b] EXCEPT !.status = "cancelled",
                                                     !.refund = "unfinished"]
                      \/ /\ booking[b].pay = "pending"
                         /\ rec = [booking[b] EXCEPT !.status = "cancelled",
                                                     !.pay = "failed"]
                      \/ rec = [booking[b] EXCEPT !.status = "cancelled"]
    BY <1>3 DEF EndsBooking
  <2>2. rec \in BookingRow /\ rec.contact = booking[b].contact
        /\ rec.ids = booking[b].ids /\ rec.erased = booking[b].erased
        /\ rec.status = "cancelled"
        /\ \/ rec.pay = booking[b].pay /\ rec.refund = booking[b].refund
           \/ booking[b].pay = "pending" /\ rec.pay = "failed"
              /\ rec.refund = booking[b].refund
           \/ rec.pay = "succeeded" /\ booking[b].pay = "succeeded"
    BY <1>0, <2>1 DEF BookingRow, LiveStatus
  <2>3. booking'[b] = rec /\ intent'[b] = intent[b]
        /\ intent' = [intent EXCEPT ![b] = intent'[b]] /\ UNCHANGED age
    BY <1>0, <2>1 DEF Change
  <2>4. b \in Late => PaymentOf(b)'
    BY <1>0, <2>2, <2>3 DEF PaymentOf, Kept, Traced
  <2> QED BY <1>0, <2>1, <2>2, <2>3, <2>4, ChangeRow
<1>4. CASE Refunded(b)
  <2> DEFINE rec == [booking[b] EXCEPT !.refund = "done", !.pay = "refunded"]
  <2>1. Change(b, rec) /\ UNCHANGED intent
    BY <1>4 DEF Refunded
  <2>2. rec \in BookingRow /\ rec.contact = booking[b].contact
        /\ rec.ids = booking[b].ids /\ rec.erased = booking[b].erased
        /\ rec.status = booking[b].status /\ rec.pay = "refunded"
        /\ rec.refund = "done" /\ booking[b].refund = "unfinished"
    BY <1>0, <1>4 DEF BookingRow, LiveStatus, Refunded
  <2> HIDE DEF rec
  <2>3. booking'[b] = rec /\ intent'[b] = intent[b]
        /\ intent' = [intent EXCEPT ![b] = intent'[b]]
    BY <1>0, <2>1 DEF Change
  <2>4. b \in Late => PaymentOf(b)'
    BY <1>0, <2>2, <2>3 DEF PaymentOf, Kept, Traced
  <2> QED BY <1>0, <2>1, <2>2, <2>3, <2>4, ChangeRow
<1> QED BY <1>1, <1>2, <1>3, <1>4

\* What happens at the gateway
LEMMA IntentStep ==
  ASSUME PeopleInv, NEW b \in Bookings, PaysIntent(b) \/ ClosesIntent(b)
  PROVE  PeopleStep
<1>0. /\ booking[b] \in BookingRow /\ intent[b] \in {"none", "open", "paid", "closed"}
      /\ DOMAIN booking = Bookings /\ DOMAIN intent = Bookings
      /\ [booking EXCEPT ![b] = booking[b]] = booking
      /\ [intent EXCEPT ![b] = intent[b]] = intent
      /\ ErasedOf(b) /\ (b \in Late => PaymentOf(b))
  BY DEF PeopleInv, PeopleTypes
<1>1. UNCHANGED <<age, desk>> /\ desk' \in [Users -> DeskTypes]
  BY DEF PaysIntent, ClosesIntent, PeopleInv, PeopleTypes
<1>2. CASE UNCHANGED booking
  <2>1. PICK i \in {"paid", "closed"} :
           /\ intent[b] = "open" /\ intent' = [intent EXCEPT ![b] = i]
    BY <1>2, <1>0 DEF PaysIntent, ClosesIntent, BookingRow
  <2>2. intent'[b] = i /\ booking'[b] = booking[b]
    BY <1>0, <1>2, <2>1
  <2>3. b \in Late => PaymentOf(b)'
    BY <1>0, <1>1, <2>1, <2>2 DEF PaymentOf, Kept, Traced
  <2>4. ErasedOf(b)' /\ (booking[b].erased => booking'[b].contact = Anon)
    BY <1>0, <2>2 DEF ErasedOf
  <2> QED BY <1>0, <1>1, <1>2, <2>1, <2>2, <2>3, <2>4, OneBooking
<1>3. CASE booking' = [booking EXCEPT ![b].pay = "closed"] /\ UNCHANGED intent
           /\ intent[b] = "closed" /\ booking[b].pay = "failed" /\ b \in Kept
  <2> DEFINE rec == [booking[b] EXCEPT !.pay = "closed"]
  <2>1. rec \in BookingRow /\ rec.contact = booking[b].contact
        /\ rec.ids = booking[b].ids /\ rec.erased = booking[b].erased
        /\ rec.status = booking[b].status /\ rec.pay = "closed"
        /\ rec.refund = booking[b].refund
    BY <1>0 DEF BookingRow, LiveStatus
  <2>2. booking' = [booking EXCEPT ![b] = rec] /\ booking'[b] = rec
    BY <1>0, <1>3
  <2> HIDE DEF rec
  <2>3. intent'[b] = intent[b] /\ intent' = [intent EXCEPT ![b] = intent'[b]]
    BY <1>0, <1>3
  <2>4. b \in Late => PaymentOf(b)'
    BY <1>0, <1>3, <2>1, <2>2, <2>3 DEF PaymentOf, Kept, Traced
  <2>5. ErasedOf(b)' /\ (booking[b].erased => booking'[b].contact = Anon)
    BY <1>0, <2>1, <2>2 DEF ErasedOf
  <2> QED BY <1>0, <1>1, <2>1, <2>2, <2>3, <2>4, <2>5, OneBooking
<1> QED BY <1>2, <1>3 DEF PaysIntent, ClosesIntent

-----------------------------------------------------------------------------
(* The steps of the admins.                                                *)

LEMMA DeskMoves ==
  ASSUME PeopleInv, NEW a \in Users, NEW rec \in DeskTypes, Moves(a, rec)
  PROVE  desk' \in [Users -> DeskTypes]
  BY DEF PeopleInv, PeopleTypes, Moves

LEMMA AtWork ==
  ASSUME PeopleInv, NEW a \in Users, desk[a].pc \in {"contact", "notices", "links"}
  PROVE  /\ desk[a].b \in Bookings /\ desk[a].to \in Addresses
         /\ \A pc \in {"contact", "notices", "links"} :
               [desk[a] EXCEPT !.pc = pc] \in DeskTypes
<1>1. desk[a] \in DeskTypes
  BY DEF PeopleInv, PeopleTypes
<1>2. desk[a] \in [pc : {"contact", "notices", "links"}, b : Bookings,
                   to : Addresses, before : Addresses \cup {Anon}]
  BY <1>1 DEF DeskTypes, Away
<1> QED BY <1>2 DEF DeskTypes

\* A correction: what was read may be stale, and the write looks again.
LEMMA CorrectStep ==
  ASSUME PeopleInv, NEW a \in Users, CorrectContact(a)
  PROVE  PeopleStep
<1>0. PICK b \in Bookings : b = desk[a].b
  BY AtWork DEF CorrectContact
<1>1. /\ desk[a].to \in Addresses
      /\ [desk[a] EXCEPT !.pc = "notices"] \in DeskTypes /\ Away \in DeskTypes
  BY AtWork DEF CorrectContact, DeskTypes
<1>2. desk' \in [Users -> DeskTypes] /\ UNCHANGED <<intent, age>>
  BY <1>1, DeskMoves DEF CorrectContact
<1>3. CASE ~NotErased(b)
  BY <1>0, <1>2, <1>3, QuietPeople DEF CorrectContact
<1>4. CASE NotErased(b)
  <2> DEFINE rec == [booking[b] EXCEPT !.contact = desk[a].to]
  <2>0. /\ booking[b] \in BookingRow /\ intent[b] \in {"none", "open", "paid", "closed"}
        /\ DOMAIN booking = Bookings
        /\ [intent EXCEPT ![b] = intent[b]] = intent
        /\ (b \in Late => PaymentOf(b))
    BY <1>1 DEF PeopleInv, PeopleTypes
  <2>1. rec \in BookingRow /\ rec.erased = booking[b].erased
        /\ rec.ids = booking[b].ids /\ rec.status = booking[b].status
        /\ rec.pay = booking[b].pay /\ rec.refund = booking[b].refund
    BY <1>1, <2>0 DEF BookingRow
  <2>2. booking' = [booking EXCEPT ![b] = rec]
    BY <1>0, <1>1, <1>4, <2>0 DEF CorrectContact
  <2> HIDE DEF rec
  <2>3. booking'[b] = rec
    BY <1>1, <2>0, <2>2
  <2>4. intent'[b] = intent[b] /\ intent' = [intent EXCEPT ![b] = intent'[b]]
    BY <1>2, <2>0
  <2>5. b \in Late => PaymentOf(b)'
    BY <1>2, <2>0, <2>1, <2>3, <2>4 DEF PaymentOf, Kept, Traced
  <2>6. ErasedOf(b)' /\ ~booking[b].erased
    BY <1>4, <2>1, <2>3 DEF ErasedOf, NotErased
  <2> QED BY <1>2, <2>0, <2>1, <2>2, <2>3, <2>4, <2>5, <2>6, OneBooking
<1> QED BY <1>3, <1>4

-----------------------------------------------------------------------------
(* Emptying and deleting rows.                                             *)

\* Rows that are emptied had a payment, and rows that are deleted have none
\* that may still come; unless five years have passed.
LEMMA EmptyStep ==
  ASSUME PeopleInv, NEW empty \in SUBSET Bookings, NEW delete \in SUBSET Bookings,
         EmptyAndDelete(empty, delete),
         \A b \in empty : b \in Kept /\ Traced(b),
         \A b \in delete : /\ b \in Kept
                           /\ \/ ~Traced(b) /\ ~Locked(b)
                              \/ age = 3 /\ booking[b].erased,
         UNCHANGED <<intent, age>>, desk' \in [Users -> DeskTypes]
  PROVE  PeopleStep
<1>0. ASSUME NEW b \in Bookings
      PROVE  /\ booking[b] \in BookingRow /\ ErasedOf(b)
             /\ intent'[b] = intent[b]
             /\ booking'[b] = IF b \in delete THEN Gone(b)
                              ELSE IF b \in empty THEN Emptied(b) ELSE booking[b]
  BY DEF PeopleInv, PeopleTypes, EmptyAndDelete
<1>1. ASSUME NEW b \in Bookings
      PROVE  /\ Gone(b) \in BookingRow /\ Gone(b).contact = Anon
             /\ Gone(b).status = "deleted" /\ Gone(b).ids = FALSE
             /\ Gone(b).erased = FALSE /\ Gone(b).pay = "none"
             /\ Gone(b).refund = "none"
  BY DEF Gone, BookingRow
<1>2. ASSUME NEW b \in Bookings
      PROVE  /\ Emptied(b) \in BookingRow /\ Emptied(b).contact = Anon
             /\ Emptied(b).status = booking[b].status
             /\ Emptied(b).pay = booking[b].pay
             /\ Emptied(b).refund = booking[b].refund
             /\ Emptied(b).ids => booking[b].ids
  <2>1. booking[b] \in BookingRow
    BY <1>0
  <2>2. PICK ids \in BOOLEAN :
           /\ Emptied(b) = [booking[b] EXCEPT !.contact = Anon, !.erased = TRUE,
                                              !.ids = ids]
           /\ ids => booking[b].ids
    BY <2>1 DEF Emptied, BookingRow
  <2> QED BY <2>1, <2>2 DEF BookingRow
<1>3. PeopleTypes'
  <2>1. booking' \in [Bookings -> BookingRow]
    BY <1>0, <1>1, <1>2 DEF EmptyAndDelete
  <2> QED BY <2>1 DEF PeopleInv, PeopleTypes
<1>4. (\A b \in Bookings : ErasedOf(b)') /\ Forgotten
  <2>1. ASSUME NEW b \in Bookings
        PROVE  \/ /\ booking'[b].contact = Anon
                  /\ booking'[b].ids => booking[b].ids
               \/ booking'[b] = booking[b]
    <3>1. CASE b \in delete
      BY <1>0, <1>1, <3>1
    <3>2. CASE b \in empty \ delete
      BY <1>0, <1>2, <3>2
    <3>3. CASE b \notin empty \cup delete
      BY <1>0, <3>3
    <3> QED BY <3>1, <3>2, <3>3
  <2> QED BY <1>0, <2>1 DEF ErasedOf, Forgotten
<1>5. ASSUME NEW b \in Late PROVE PaymentOf(b)'
  <2>1. b \in Bookings /\ PaymentOf(b)
    BY LateBookings DEF PeopleInv
  <2>2. CASE b \in delete
    <3>1. booking'[b] = Gone(b) /\ intent'[b] = intent[b]
      BY <1>0, <2>1, <2>2
    <3>2. intent[b] # "open" /\ (intent[b] = "paid" => age = 3)
      BY <2>1, <2>2 DEF PaymentOf, Locked, LockedWhileLive, Traced, Kept
    <3> QED BY <1>1, <2>1, <3>1, <3>2 DEF PaymentOf, Kept, Traced
  <2>3. CASE b \in empty \ delete
    <3>1. booking'[b] = Emptied(b) /\ intent'[b] = intent[b]
      BY <1>0, <2>1, <2>3
    <3> QED BY <1>2, <2>1, <2>3, <3>1 DEF PaymentOf, Kept, Traced
  <2>4. CASE b \notin empty \cup delete
    <3>1. booking'[b] = booking[b] /\ intent'[b] = intent[b]
      BY <1>0, <2>1, <2>4
    <3> QED BY <2>1, <3>1 DEF PaymentOf, Kept, Traced
  <2> QED BY <2>2, <2>3, <2>4
<1> QED BY <1>3, <1>4, <1>5 DEF PeopleInv, PeopleStep

LEMMA RetentionStep ==
  ASSUME PeopleInv, AnonymizePastRetention \/ PurgeFinancialRecords \/ PurgeUnpaid
  PROVE  PeopleStep
<1>1. UNCHANGED <<intent, age, desk>> /\ desk' \in [Users -> DeskTypes]
  BY DEF AnonymizePastRetention, PurgeFinancialRecords, PurgeUnpaid, PeopleInv,
         PeopleTypes
<1>2. CASE AnonymizePastRetention
  BY <1>1, <1>2, EmptyStep DEF AnonymizePastRetention, Kept
<1>3. CASE PurgeFinancialRecords
  BY <1>1, <1>3, EmptyStep DEF PurgeFinancialRecords, Kept
<1>4. CASE PurgeUnpaid
  BY <1>1, <1>4, EmptyStep DEF PurgeUnpaid, Kept
<1> QED BY <1>2, <1>3, <1>4

LEMMA EraseStep ==
  ASSUME PeopleInv, NEW a \in Users, AnonymizeByEmail(a)
  PROVE  PeopleStep
<1>1. UNCHANGED <<intent, age>> /\ desk' \in [Users -> DeskTypes]
  BY DeskMoves DEF AnonymizeByEmail, DeskTypes
<1>2. CASE Owed(desk[a].email)
  BY <1>1, <1>2, QuietPeople DEF AnonymizeByEmail
<1>3. CASE ~Owed(desk[a].email)
  <2> DEFINE his == Of(desk[a].email)
  <2>1. his \subseteq Kept /\ Kept \subseteq Bookings
    BY DEF Of, Kept
  <2>2. EmptyAndDelete({b \in his : Traced(b) /\ ~booking[b].erased},
                       {b \in his : ~Traced(b) /\ ~Locked(b)})
    BY <1>3 DEF AnonymizeByEmail
  <2> HIDE DEF his
  <2> QED BY <1>1, <2>1, <2>2, EmptyStep
<1> QED BY <1>2, <1>3

-----------------------------------------------------------------------------

LEMMA DeskStepLemma ==
  ASSUME PeopleInv, NEW a \in Users, DeskStep(a)
  PROVE  PeopleStep
<1>1. ASSUME NEW b \in Bookings, NEW to \in Addresses, ReadContact(a, b, to)
      PROVE  PeopleStep
  <2>1. [pc |-> "contact", b |-> b, to |-> to, before |-> booking[b].contact]
           \in DeskTypes
    BY DEF DeskTypes, PeopleInv, PeopleTypes, BookingRow
  <2> QED BY <1>1, <2>1, DeskMoves, QuietPeople DEF ReadContact
<1>2. CASE CorrectContact(a)
  BY <1>2, CorrectStep
<1>3. CASE CorrectNotices(a)
  <2>1. [desk[a] EXCEPT !.pc = "links"] \in DeskTypes
    BY <1>3, AtWork DEF CorrectNotices
  <2> QED BY <1>3, <2>1, DeskMoves, QuietPeople DEF CorrectNotices
<1>4. CASE RevokeLinks(a) \/ DeskFails(a)
  <2>1. Away \in DeskTypes
    BY DEF DeskTypes
  <2> QED BY <1>4, <2>1, DeskMoves, QuietPeople DEF RevokeLinks, DeskFails
<1>5. ASSUME NEW email \in Addresses, PreviewErasure(a, email) PROVE PeopleStep
  <2>1. [pc |-> "erase", email |-> email] \in DeskTypes
    BY DEF DeskTypes
  <2> QED BY <1>5, <2>1, DeskMoves, QuietPeople DEF PreviewErasure
<1>6. CASE AnonymizeByEmail(a)
  BY <1>6, EraseStep
<1> QED BY <1>1, <1>2, <1>3, <1>4, <1>5, <1>6 DEF DeskStep

\* The clock: only from age 3 on may what was paid be gone, and 3 is the last.
LEMMA TimeStep ==
  ASSUME PeopleInv, TimePasses
  PROVE  PeopleStep
<1>1. UNCHANGED <<booking, intent, desk>> /\ age < 3 /\ age' = age + 1
  BY DEF TimePasses
<1>2. PeopleTypes'
  BY <1>1 DEF PeopleInv, PeopleTypes
<1>3. ASSUME NEW b \in Late PROVE PaymentOf(b)'
  <2>1. PaymentOf(b) /\ booking'[b] = booking[b] /\ intent'[b] = intent[b]
    BY <1>1 DEF PeopleInv
  <2> QED BY <1>1, <2>1 DEF PaymentOf, Kept, Traced
<1>4. (\A b \in Bookings : ErasedOf(b)') /\ Forgotten
  BY <1>1 DEF PeopleInv, ErasedOf, Forgotten
<1> QED BY <1>2, <1>3, <1>4 DEF PeopleInv, PeopleStep

LEMMA PeopleStepLemma ==
  ASSUME PeopleInv, [PeopleNext]_<<accounts, data>>
  PROVE  PeopleStep
<1>1. ASSUME NEW b \in Bookings, BookingStep(b) PROVE PeopleStep
  <2>1. CASE StartsCharge(b) \/ Settles(b) \/ EndsBooking(b) \/ Refunded(b)
    BY <2>1, LifeOfBooking
  <2>2. CASE PaysIntent(b) \/ ClosesIntent(b)
    BY <2>2, IntentStep
  <2>3. CASE GetsOld(b) \/ Enqueues(b) \/ FetchNotice(b)
    <3>1. UNCHANGED <<booking, intent, age, desk>>
      BY <2>3 DEF GetsOld, Enqueues, FetchNotice
    <3> QED BY <3>1, QuietPeople DEF PeopleInv, PeopleTypes
  <2> QED BY <1>1, <2>1, <2>2, <2>3 DEF BookingStep
<1>2. CASE TimePasses
  BY <1>2, TimeStep
<1>3. CASE SendNotice \/ UNCHANGED data
  <2>1. UNCHANGED <<booking, intent, age, desk>>
    BY <1>3 DEF SendNotice, data
  <2> QED BY <2>1, QuietPeople DEF PeopleInv, PeopleTypes
<1>4. ASSUME NEW a \in Users, DeskStep(a) PROVE PeopleStep
  BY <1>4, DeskStepLemma
<1>5. CASE AnonymizePastRetention \/ PurgeFinancialRecords \/ PurgeUnpaid
  BY <1>5, RetentionStep
<1>6. [PeopleNext]_<<accounts, data>> => PersonalDataNext \/ UNCHANGED data
  BY DEF PeopleNext
<1> QED BY <1>1, <1>2, <1>3, <1>4, <1>5, <1>6 DEF PersonalDataNext

\* The inductive invariant of the data of people: what is erased has no
\* contact, and a row goes only with a payment that is over.
THEOREM PeopleInvariant == PersonalDataSpec => []PeopleInv
<1>1. PersonalDataInit => PeopleInv
  BY InitPeople
<1>2. PeopleInv /\ [PeopleNext]_<<accounts, data>> => PeopleInv'
  BY PeopleStepLemma DEF PeopleStep
<1> QED BY <1>1, <1>2, PTL DEF PersonalDataSpec

\* No purge and no erasure deletes a booking whose payment may still come, or
\* came, before five years are over: the webhook finds its row.
THEOREM PeoplePaymentFindsBooking == PersonalDataSpec => []PaymentFindsBooking
<1>1. PeopleInv => PaymentFindsBooking
  BY DEF PeopleInv, PaymentOf, PaymentFindsBooking
<1> QED BY <1>1, PeopleInvariant, PTL

\* A correction under way, which read the data before the person was erased,
\* never brings them back, however many admins work at once.
THEOREM PeopleErasedStaysErased == PersonalDataSpec => ErasedStaysErased
<1>1. PeopleInv /\ [PeopleNext]_<<accounts, data>> =>
         [\A b \in Bookings :
             booking[b].erased
               => booking'[b].contact = Anon /\ (booking'[b].ids => booking[b].ids)
         ]_data
  BY PeopleStepLemma DEF PeopleStep, Forgotten
<1> QED BY <1>1, PeopleInvariant, PTL DEF PersonalDataSpec, ErasedStaysErased

-----------------------------------------------------------------------------
(* Guides and their mails (Guides).                                        *)

AssignmentKeys == Outings \X Guides

MailRow(row) ==
    /\ DOMAIN row = {"status", "gen", "attempts", "due"}
    /\ row.status \in {"none", "pending", "sent", "failed", "cancelled"}

RequestTypes ==
    {AtDesk}
    \cup [pc : {"assign", "look", "enqueue"}, outing : Outings, guide : Guides]
    \cup [pc : {"unassign"}, outing : Outings]

GuidesOK ==
    /\ request \in [Staff -> RequestTypes]
    /\ assigned \in [Outings -> Guides \cup {Nobody}]
    /\ active \subseteq Guides
    /\ mails = [k \in AssignmentKeys |-> mails[k]]
    /\ \A k \in AssignmentKeys : MailRow(mails[k])
    /\ post # M!Idle => post.key \in AssignmentKeys
    /\ post = M!Idle \/ DOMAIN post = {"at", "key", "gen", "attempts", "about"}

GuidesInv == GuidesOK /\ AssignedIsNoticed

\* A row that was written once stays, in some status.
RowsStay ==
    \A k \in AssignmentKeys :
       mails[k].status # "none" => mails'[k].status # "none"

\* The requests that are between an assignment and its mail
Telling(s) == request[s].pc \in {"look", "enqueue"}

LEMMA InitGuides == ASSUME GuidesInit PROVE GuidesInv
<1>1. GuidesOK
  BY DEF GuidesInit, GuidesOK, RequestTypes, MailRow, M!NoRow, M!Idle, AssignmentKeys
<1>2. AssignedIsNoticed
  BY DEF GuidesInit, AssignedIsNoticed
<1> QED BY <1>1, <1>2 DEF GuidesInv

\* A step that only moves mails on, or neither assigns nor tells.
LEMMA GuidesFrame ==
  ASSUME GuidesInv, UNCHANGED <<assigned, request, untold>>, RowsStay, GuidesOK'
  PROVE  GuidesInv'
<1>1. AssignedIsNoticed'
  <2>1. SUFFICES ASSUME NEW d \in Outings, assigned[d] # Nobody,
                        mails'[d, assigned[d]].status = "none"
                 PROVE  \/ <<d, assigned[d]>> \in untold
                        \/ \E s \in Staff : /\ request[s].pc \in {"look", "enqueue"}
                                            /\ Key(s)' = <<d, assigned[d]>>
    BY DEF AssignedIsNoticed
  <2>2. <<d, assigned[d]>> \in AssignmentKeys
    BY <2>1 DEF GuidesInv, GuidesOK, AssignmentKeys
  <2>3. mails[d, assigned[d]].status = "none"
    BY <2>1, <2>2 DEF RowsStay
  <2>4. \A s \in Staff : Key(s)' = Key(s)
    BY DEF Key
  <2> QED BY <2>1, <2>3, <2>4 DEF GuidesInv, AssignedIsNoticed
<1> QED BY <1>1 DEF GuidesInv

\* One member of the staff moves on: what the others tell stays told.
LEMMA StaffFrame ==
  ASSUME GuidesInv, NEW s \in Staff, NEW rec \in RequestTypes,
         request' = [request EXCEPT ![s] = rec],
         RowsStay, GuidesOK', untold \subseteq untold',
         \A d \in Outings :
            assigned'[d] # assigned[d] /\ assigned'[d] # Nobody =>
               /\ rec.pc \in {"look", "enqueue"}
               /\ <<rec.outing, rec.guide>> = <<d, assigned'[d]>>,
         Telling(s) =>
            \/ rec.pc \in {"look", "enqueue"} /\ rec.outing = request[s].outing
               /\ rec.guide = request[s].guide
            \/ Key(s) \in untold'
            \/ mails'[Key(s)].status # "none"
  PROVE  GuidesInv'
<1>1. request'[s] = rec /\ \A q \in Staff : q # s => request'[q] = request[q]
  BY DEF GuidesInv, GuidesOK
<1>2. ASSUME NEW d \in Outings, assigned'[d] # Nobody,
             mails'[d, assigned'[d]].status = "none"
      PROVE  \/ <<d, assigned'[d]>> \in untold'
             \/ \E q \in Staff : /\ request'[q].pc \in {"look", "enqueue"}
                                 /\ Key(q)' = <<d, assigned'[d]>>
  <2>1. CASE assigned'[d] # assigned[d]
    <3>1. rec.pc \in {"look", "enqueue"} /\ <<rec.outing, rec.guide>> = <<d, assigned'[d]>>
      BY <1>2, <2>1
    <3> QED BY <1>1, <3>1 DEF Key
  <2>2. CASE assigned'[d] = assigned[d]
    <3>1. <<d, assigned[d]>> \in AssignmentKeys
      BY <1>2, <2>2 DEF GuidesInv, GuidesOK, AssignmentKeys
    <3>2. mails[d, assigned[d]].status = "none"
      BY <1>2, <2>2, <3>1 DEF RowsStay
    <3>3. \/ <<d, assigned[d]>> \in untold
          \/ \E q \in Staff : Telling(q) /\ Key(q) = <<d, assigned[d]>>
      BY <1>2, <2>2, <3>2 DEF GuidesInv, AssignedIsNoticed, Telling
    <3>4. CASE <<d, assigned[d]>> \in untold
      BY <2>2, <3>4
    <3>5. ASSUME NEW q \in Staff, q # s, Telling(q), Key(q) = <<d, assigned[d]>>
          PROVE  /\ request'[q].pc \in {"look", "enqueue"}
                 /\ Key(q)' = <<d, assigned'[d]>>
      BY <1>1, <2>2, <3>5 DEF Telling, Key
    <3>6. CASE Telling(s) /\ Key(s) = <<d, assigned[d]>>
      <4>1. CASE rec.pc \in {"look", "enqueue"} /\ rec.outing = request[s].outing
                 /\ rec.guide = request[s].guide
        <5>1. Key(s)' = Key(s)
          BY <1>1, <4>1 DEF Key
        <5> QED BY <1>1, <2>2, <3>6, <4>1, <5>1
      <4>2. CASE Key(s) \in untold'
        BY <2>2, <3>6, <4>2
      <4>3. mails'[Key(s)].status = "none"
        BY <1>2, <2>2, <3>6
      <4> QED BY <3>6, <4>1, <4>2, <4>3
    <3> QED BY <3>3, <3>4, <3>5, <3>6
  <2> QED BY <2>1, <2>2
<1>3. AssignedIsNoticed'
  BY <1>2 DEF AssignedIsNoticed
<1> QED BY <1>3 DEF GuidesInv

-----------------------------------------------------------------------------
(* The staff.                                                              *)

LEMMA StaffSteps ==
  ASSUME GuidesInv, NEW s \in Staff,
         \/ Pick(s) \/ AssignGuide(s) \/ UnassignGuide(s)
         \/ LookForNotice(s) \/ InsertNotice(s) \/ RequestFails(s)
  PROVE  GuidesInv'
<1>0. /\ request[s] \in RequestTypes /\ AtDesk \in RequestTypes /\ AtDesk.pc = "idle"
      /\ DOMAIN request = Staff /\ DOMAIN assigned = Outings
  BY DEF GuidesInv, GuidesOK, RequestTypes, AtDesk
<1>1. ASSUME request[s].pc \in {"assign", "look", "enqueue"}
      PROVE  /\ request[s].outing \in Outings /\ request[s].guide \in Guides
             /\ Key(s) \in AssignmentKeys
             /\ \A pc \in {"look", "enqueue"} :
                   LET rec == [request[s] EXCEPT !.pc = pc]
                   IN  /\ rec \in RequestTypes /\ rec.pc = pc
                       /\ rec.outing = request[s].outing
                       /\ rec.guide = request[s].guide
                       /\ Proceeds(s, pc) => request' = [request EXCEPT ![s] = rec]
  <2>1. request[s] \in [pc : {"assign", "look", "enqueue"}, outing : Outings,
                        guide : Guides]
    BY <1>0, <1>1 DEF RequestTypes, AtDesk
  <2>2. Key(s) \in AssignmentKeys
    BY <2>1 DEF Key, AssignmentKeys
  <2>3. ASSUME NEW pc \in {"look", "enqueue"}
        PROVE  LET rec == [request[s] EXCEPT !.pc = pc]
               IN  /\ rec \in RequestTypes /\ rec.pc = pc
                   /\ rec.outing = request[s].outing
                   /\ rec.guide = request[s].guide
    BY <2>1 DEF RequestTypes
  <2>4. ASSUME NEW pc \in {"look", "enqueue"}, Proceeds(s, pc)
        PROVE  request' = [request EXCEPT ![s] = [request[s] EXCEPT !.pc = pc]]
    BY <1>0, <2>4 DEF Proceeds
  <2> QED BY <2>1, <2>2, <2>3, <2>4
<1>2. ASSUME NEW rec \in RequestTypes, request' = [request EXCEPT ![s] = rec]
      PROVE  request' \in [Staff -> RequestTypes]
  BY <1>2 DEF GuidesInv, GuidesOK
<1>3. ASSUME UNCHANGED <<active, mails, post>>, request' \in [Staff -> RequestTypes],
             assigned' \in [Outings -> Guides \cup {Nobody}]
      PROVE  GuidesOK' /\ RowsStay
  BY <1>3 DEF GuidesInv, GuidesOK, RowsStay, MailRow
<1>4. CASE Pick(s)
  <2>1. UNCHANGED <<active, mails, post, assigned, untold>> /\ ~Telling(s)
    BY <1>4 DEF Pick, Rest, Mails, Telling, AtDesk
  <2>2. PICK rec \in RequestTypes : request' = [request EXCEPT ![s] = rec]
    <3>1. \A d \in Upcoming : d \in Outings
      BY DEF Upcoming
    <3>2. active \subseteq Guides
      BY DEF GuidesInv, GuidesOK
    <3> QED BY <1>4, <3>1, <3>2 DEF Pick, RequestTypes
  <2>3. assigned' \in [Outings -> Guides \cup {Nobody}]
    BY <2>1 DEF GuidesInv, GuidesOK
  <2>4. GuidesOK' /\ RowsStay
    BY <2>1, <2>2, <2>3, <1>2, <1>3
  <2> QED BY <2>1, <2>2, <2>4, StaffFrame
<1>5. CASE AssignGuide(s)
  <2>1. UNCHANGED <<active, mails, post, untold>> /\ ~Telling(s)
        /\ request[s].pc = "assign"
        /\ assigned' = [assigned EXCEPT ![request[s].outing] = request[s].guide]
        /\ Proceeds(s, "look")
    BY <1>5 DEF AssignGuide, At, Rest, Mails, Telling
  <2>2. PICK rec \in RequestTypes :
           /\ request' = [request EXCEPT ![s] = rec] /\ rec.pc = "look"
           /\ rec.outing = request[s].outing /\ rec.guide = request[s].guide
    BY <1>1, <2>1
  <2>3. assigned' \in [Outings -> Guides \cup {Nobody}]
    BY <1>1, <2>1 DEF GuidesInv, GuidesOK
  <2>4. GuidesOK' /\ RowsStay
    BY <2>1, <2>2, <2>3, <1>2, <1>3
  <2>5. ASSUME NEW d \in Outings, assigned'[d] # assigned[d]
        PROVE  <<rec.outing, rec.guide>> = <<d, assigned'[d]>>
    BY <1>0, <1>1, <2>1, <2>2, <2>5
  <2> QED BY <2>1, <2>2, <2>4, <2>5, StaffFrame
<1>6. CASE UnassignGuide(s)
  <2>1. UNCHANGED <<active, mails, post, untold>> /\ ~Telling(s)
        /\ assigned' = [assigned EXCEPT ![request[s].outing] = Nobody]
        /\ request' = [request EXCEPT ![s] = AtDesk]
    BY <1>6 DEF UnassignGuide, At, Rest, Mails, Telling, Leaves
  <2>2. assigned' \in [Outings -> Guides \cup {Nobody}]
        /\ \A d \in Outings : assigned'[d] = assigned[d] \/ assigned'[d] = Nobody
    BY <1>0, <2>1 DEF GuidesInv, GuidesOK
  <2>3. GuidesOK' /\ RowsStay
    BY <1>0, <2>1, <2>2, <1>2, <1>3
  <2> QED BY <1>0, <2>1, <2>2, <2>3, StaffFrame
<1>7. CASE LookForNotice(s)
  <2>1. UNCHANGED <<active, mails, post, untold, assigned>> /\ request[s].pc = "look"
    BY <1>7 DEF LookForNotice, At, Rest, Mails
  <2>2. PICK rec \in RequestTypes :
           /\ request' = [request EXCEPT ![s] = rec]
           /\ \/ AlreadyTold(s)
              \/ /\ rec.pc = "enqueue"
                 /\ rec.outing = request[s].outing /\ rec.guide = request[s].guide
    <3>1. CASE AlreadyTold(s)
      BY <1>0, <1>7, <3>1 DEF LookForNotice, Leaves
    <3>2. CASE ~AlreadyTold(s)
      BY <1>1, <1>7, <2>1, <3>2 DEF LookForNotice
    <3> QED BY <3>1, <3>2
  <2>3. assigned' \in [Outings -> Guides \cup {Nobody}]
    BY <2>1 DEF GuidesInv, GuidesOK
  <2>4. GuidesOK' /\ RowsStay
    BY <2>1, <2>2, <2>3, <1>2, <1>3
  <2>5. AlreadyTold(s) => mails'[Key(s)].status # "none"
    BY <2>1 DEF AlreadyTold
  <2> QED BY <2>1, <2>2, <2>4, <2>5, StaffFrame
<1>8. CASE InsertNotice(s)
  <2>1. /\ UNCHANGED <<active, post, untold, assigned>> /\ request[s].pc = "enqueue"
        /\ mails' = [mails EXCEPT ![Key(s)] = M!Inserted(mails[Key(s)], M!Now)]
        /\ request' = [request EXCEPT ![s] = AtDesk]
    BY <1>8 DEF InsertNotice, At, Rest, Leaves
  <2>2. Key(s) \in AssignmentKeys
    BY <1>1, <2>1
  <2>3. MailRow(M!Inserted(mails[Key(s)], M!Now))
        /\ M!Inserted(mails[Key(s)], M!Now).status # "none"
    BY <2>2 DEF GuidesInv, GuidesOK, MailRow, M!Inserted, M!Enqueued
  <2>4. /\ mails' = [k \in AssignmentKeys |-> mails'[k]]
        /\ \A k \in AssignmentKeys :
              mails'[k] = IF k = Key(s) THEN M!Inserted(mails[Key(s)], M!Now)
                          ELSE mails[k]
    BY <2>1, <2>2 DEF GuidesInv, GuidesOK
  <2>5. GuidesOK'
    BY <1>0, <1>2, <2>1, <2>3, <2>4 DEF GuidesInv, GuidesOK, MailRow
  <2>6. RowsStay /\ mails'[Key(s)].status # "none"
    BY <2>2, <2>3, <2>4 DEF RowsStay
  <2> QED BY <1>0, <2>1, <2>5, <2>6, StaffFrame
<1>9. CASE RequestFails(s)
  <2>1. /\ UNCHANGED <<active, mails, post, assigned>>
        /\ untold' = IF Telling(s) THEN untold \cup {Key(s)} ELSE untold
        /\ request' = [request EXCEPT ![s] = AtDesk]
    BY <1>9 DEF RequestFails, Rest, Mails, Leaves, Telling
  <2>2. assigned' \in [Outings -> Guides \cup {Nobody}]
    BY <2>1 DEF GuidesInv, GuidesOK
  <2>3. GuidesOK' /\ RowsStay
    BY <1>0, <2>1, <2>2, <1>2, <1>3
  <2> QED BY <1>0, <2>1, <2>3, StaffFrame
<1> QED BY <1>4, <1>5, <1>6, <1>7, <1>8, <1>9

-----------------------------------------------------------------------------
(* The mails: rows move between statuses, and none goes.                   *)

PostTypes(p) ==
    p = M!Idle \/ (/\ DOMAIN p = {"at", "key", "gen", "attempts", "about"}
                   /\ p.key \in AssignmentKeys)

LEMMA MailFrame ==
  ASSUME GuidesInv, NEW row, NEW k \in AssignmentKeys,
         MailRow(row), row.status = "none" => mails[k].status = "none",
         mails' = [mails EXCEPT ![k] = row] \/ mails' = mails, PostTypes(post'),
         UNCHANGED <<assigned, request, untold, active>>
  PROVE  GuidesInv'
<1>1. /\ mails' = [j \in AssignmentKeys |-> mails'[j]]
      /\ \A j \in AssignmentKeys : mails'[j] = mails[j] \/ (j = k /\ mails'[j] = row)
  BY DEF GuidesInv, GuidesOK
<1>2. RowsStay
  BY <1>1 DEF RowsStay
<1>3. \A j \in AssignmentKeys : MailRow(mails'[j])
  BY <1>1 DEF GuidesInv, GuidesOK
<1>4. GuidesOK'
  BY <1>1, <1>3 DEF GuidesInv, GuidesOK, PostTypes, MailRow
<1> QED BY <1>2, <1>4, GuidesFrame

LEMMA SendInv ==
  ASSUME GuidesInv, SendAssignment
  PROVE  GuidesInv'
<1>0. UNCHANGED <<assigned, request, untold, active>>
  BY DEF SendAssignment, Rest
<1>1. ASSUME NEW k \in AssignmentKeys, M!Fetch(k) PROVE GuidesInv'
  <2>1. PostTypes(post') /\ UNCHANGED mails
    BY <1>1 DEF M!Fetch, M!Turn, PostTypes
  <2>2. MailRow(mails[k])
    BY DEF GuidesInv, GuidesOK
  <2> QED BY <1>0, <2>1, <2>2, MailFrame
<1>2. ASSUME post # M!Idle,
             (post.at = "read" /\ M!Prepare(Assignment)) \/ M!Deliver
      PROVE  GuidesInv'
  <2>0. /\ post.key \in AssignmentKeys /\ MailRow(mails[post.key])
        /\ DOMAIN post = {"at", "key", "gen", "attempts", "about"}
    BY <1>2 DEF GuidesInv, GuidesOK
  <2>1. \A at : PostTypes([post EXCEPT !.at = at])
    BY <2>0 DEF PostTypes
  <2>2. PostTypes(M!Idle)
    BY DEF PostTypes
  <2>3. CASE M!Prepare(Assignment)
    <3>1. PostTypes(post') /\ UNCHANGED mails
      BY <2>0, <2>3 DEF M!Prepare, M!Turn, PostTypes
    <3> QED BY <1>0, <2>0, <3>1, MailFrame
  <2>4. CASE M!Send
    <3>1. PostTypes(post') /\ UNCHANGED mails
      BY <2>1, <2>4 DEF M!Send
    <3> QED BY <1>0, <2>0, <3>1, MailFrame
  <2>5. CASE M!MarkSent
    <3>1. MailRow([mails[post.key] EXCEPT !.status = "sent"])
          /\ [mails[post.key] EXCEPT !.status = "sent"].status # "none"
      BY <2>0 DEF MailRow
    <3>2. /\ mails' = [mails EXCEPT ![post.key] =
                          [mails[post.key] EXCEPT !.status = "sent"]]
             \/ mails' = mails
          /\ PostTypes(post')
      BY <2>2, <2>5 DEF M!MarkSent, M!Result
    <3> QED BY <1>0, <2>0, <3>1, <3>2, MailFrame
  <2>6. CASE M!MarkFailed
    <3> DEFINE row == [mails[post.key] EXCEPT !.status = "failed",
                                              !.attempts = post.attempts + 1]
    <3>1. MailRow(row) /\ row.status # "none"
      BY <2>0 DEF MailRow
    <3>2. /\ mails' = [mails EXCEPT ![post.key] = row] \/ mails' = mails
          /\ PostTypes(post')
      BY <2>1, <2>2, <2>6 DEF M!MarkFailed, M!Result
    <3> HIDE DEF row
    <3> QED BY <1>0, <2>0, <3>1, <3>2, MailFrame
  <2>7. CASE M!HandleTransient
    <3> DEFINE tried == [mails[post.key] EXCEPT !.attempts = post.attempts + 1]
    <3>1. MailRow(tried) /\ tried.status = mails[post.key].status
      BY <2>0 DEF MailRow
    <3>2. MailRow([tried EXCEPT !.status = "failed"])
          /\ [tried EXCEPT !.status = "failed"].status # "none"
      BY <3>1 DEF MailRow
    <3>3. /\ \/ mails' = [mails EXCEPT ![post.key] = tried]
             \/ mails' = [mails EXCEPT ![post.key] = [tried EXCEPT !.status = "failed"]]
             \/ mails' = mails
          /\ PostTypes(post')
      BY <2>2, <2>7 DEF M!HandleTransient, M!Result
    <3> HIDE DEF tried
    <3> QED BY <1>0, <2>0, <3>1, <3>2, <3>3, MailFrame
  <2>8. CASE M!CancelNotification
    <3>1. MailRow(M!Withdrawn(mails[post.key]))
          /\ \/ M!Withdrawn(mails[post.key]) = mails[post.key]
             \/ M!Withdrawn(mails[post.key]).status # "none"
      BY <2>0 DEF MailRow, M!Withdrawn
    <3>2. /\ \/ mails' = [mails EXCEPT ![post.key] = M!Withdrawn(mails[post.key])]
             \/ mails' = mails
          /\ PostTypes(post')
      BY <2>1, <2>2, <2>8 DEF M!CancelNotification
    <3> QED BY <1>0, <2>0, <3>1, <3>2, MailFrame
  <2>9. CASE M!Restart
    <3>1. PostTypes(post') /\ UNCHANGED mails
      BY <2>2, <2>9 DEF M!Restart
    <3> QED BY <1>0, <2>0, <3>1, MailFrame
  <2> QED BY <1>2, <2>3, <2>4, <2>5, <2>6, <2>7, <2>8, <2>9 DEF M!Deliver
<1>3. M!Deliver => post # M!Idle
  BY DEF M!Deliver, M!Send, M!MarkSent, M!MarkFailed, M!HandleTransient,
         M!CancelNotification, M!Restart, M!Idle
<1>4. post.at = "read" => post # M!Idle
  BY DEF M!Idle
<1> QED BY <1>1, <1>2, <1>3, <1>4 DEF SendAssignment, AssignmentKeys

-----------------------------------------------------------------------------

LEMMA NextGuides ==
  ASSUME GuidesInv, [GuidesNext]_guideVars
  PROVE  GuidesInv'
<1>1. ASSUME NEW s \in Staff,
             \/ Pick(s) \/ AssignGuide(s) \/ UnassignGuide(s)
             \/ LookForNotice(s) \/ InsertNotice(s) \/ RequestFails(s)
      PROVE  GuidesInv'
  BY <1>1, StaffSteps
<1>2. CASE SendAssignment
  BY <1>2, SendInv
<1>3. ASSUME UNCHANGED <<assigned, request, untold, mails, post>>,
             active' \subseteq Guides
      PROVE  GuidesInv'
  <2>1. GuidesOK' /\ RowsStay
    BY <1>3 DEF GuidesInv, GuidesOK, RowsStay, MailRow
  <2> QED BY <1>3, <2>1, GuidesFrame
<1>4. active \subseteq Guides
  BY DEF GuidesInv, GuidesOK
<1>5. ASSUME NEW g \in Guides, ToggleGuide(g) PROVE GuidesInv'
  BY <1>3, <1>4, <1>5 DEF ToggleGuide, NoRequest, Mails
<1>6. ASSUME NEW d \in Outings, TouristsChange(d) \/ CancelOuting(d) PROVE GuidesInv'
  BY <1>3, <1>4, <1>6 DEF TouristsChange, CancelOuting, NoRequest, Mails
<1>7. CASE DayPasses
  BY <1>3, <1>4, <1>7 DEF DayPasses, NoRequest, Mails
<1>8. CASE UNCHANGED guideVars
  BY <1>3, <1>4, <1>8 DEF guideVars
<1> QED BY <1>1, <1>2, <1>5, <1>6, <1>7, <1>8 DEF GuidesNext

\* The inductive invariant of the guides, for any staff, departures and guides
THEOREM GuidesInvariant == GuidesSpec => []GuidesInv
  BY InitGuides, NextGuides, PTL DEF GuidesSpec

\* However many of the staff cross their assignments, the guide of a departure
\* has a row of the mail that says so, but while the request that assigned goes
\* on or when it died half-way.
THEOREM GuidesAssignedIsNoticed == GuidesSpec => []AssignedIsNoticed
<1>1. GuidesInv => AssignedIsNoticed
  BY DEF GuidesInv
<1> QED BY <1>1, GuidesInvariant, PTL

\* A departure with tourists that starts soon is on the page of a guide who can
\* open it, or in the tray of the team.
THEOREM GuidesSomebodyGoes == GuidesSpec => []SomebodyGoes
<1>1. GuidesInv => SomebodyGoes
  BY DEF GuidesInv, GuidesOK, SomebodyGoes, GuidelessTray, NeedsGuide, NobodyGuides,
         GuidePage
<1> QED BY <1>1, GuidesInvariant, PTL

=============================================================================
