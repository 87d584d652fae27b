------------------------------ MODULE Seasons ------------------------------
(***************************************************************************)
(* The prices of a tour.  A price is a base price or a season: a range of  *)
(* days of the year, which repeats every year and may cross its end.  The  *)
(* site, the checkout and the form of the panel share these rules.         *)
(*                                                                         *)
(* Days of the year are numbers, and `from` is 0 in a base price.          *)
(***************************************************************************)
EXTENDS Naturals, FiniteSetsExt

CONSTANTS
    YearDays,   \* 366
    Types,      \* ticket types
    Amounts     \* prices that are written

ASSUME YearAssumption == YearDays \in Nat

Year     == 1 .. YearDays
PriceRow == [type : Types, from : 0..YearDays, to : 0..YearDays,
             price : Amounts, active : BOOLEAN]

None == 0

IsSeason(row) == row.from # 0

InSeason(md, s) ==
    IF s.from <= s.to THEN s.from <= md /\ md <= s.to
                      ELSE s.from <= md \/ md <= s.to

\* Mutant: the year is not split.
OneInterval(s) == {<<s.from, s.to>>}

\* A season that crosses the end of the year is split in two.
Intervals(s) ==
    IF s.from <= s.to THEN {<<s.from, s.to>>}
                      ELSE {<<s.from, YearDays>>, <<1, s.to>>}

SeasonsOverlap(a, b) ==
    \E i \in Intervals(a), j \in Intervals(b) : i[1] <= j[2] /\ j[1] <= i[2]

CoversWholeYear(S) ==
    UNION {i[1] .. i[2] : i \in UNION {Intervals(s) : s \in S}} = Year

ActiveRows(rows) == {r \in rows : r.active}

\* The rows that may be the price of a ticket on a day: the season that
\* starts last among those with the day in them, else a base price.
SelectPriceForDay(rows, type, md) ==
    LET own     == {r \in rows : r.type = type}
        seasons == {r \in own : IsSeason(r) /\ InSeason(md, r)}
    IN  IF seasons # {}
        THEN {r \in seasons : \A s \in seasons : s.from <= r.from}
        ELSE {r \in own : ~IsSeason(r)}

\* The "from" price.
LowestChargedPrice(rows, type) ==
    LET own     == {r \in rows : r.type = type}
        seasons == {r \in own : IsSeason(r)}
        charged == IF CoversWholeYear(seasons) THEN seasons ELSE own
    IN  IF charged = {} THEN None ELSE Min({r.price : r \in charged})

\* detectPricingOverlaps, and the index and the trigger of tour_pricing: two
\* base prices, or two seasons with a day in common.
Clash(r, s) ==
    /\ r.type = s.type /\ r.active /\ s.active
    /\ \/ ~IsSeason(r) /\ ~IsSeason(s)
       \/ IsSeason(r) /\ IsSeason(s) /\ SeasonsOverlap(r, s)

\* What a cart of one ticket of each of these types costs, or None when one
\* of them has no price that day or nothing is to be paid.
AuthoritativeTotals(rows, cart, md) ==
    LET choices == {f \in [cart -> rows] :
                      \A t \in cart : f[t] \in SelectPriceForDay(rows, t, md)}
        totals  == {MapThenSumSet(LAMBDA t : f[t].price, cart) : f \in choices}
    IN  IF totals = {} THEN {None} ELSE totals
=============================================================================
