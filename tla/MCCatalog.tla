----------------------------- MODULE MCCatalog -----------------------------
(* Instances of Catalog for TLC. *)
EXTENDS Catalog, TLC

Base(p)         == [type |-> "adult", from |-> 0, to |-> 0, price |-> p,
                    active |-> TRUE]
Season(f, t, p) == [type |-> "adult", from |-> f, to |-> t, price |-> p,
                    active |-> TRUE]

Always(wd)    == [weekday |-> wd, active |-> TRUE, from |-> 1, until |-> Open]
Until(wd, d)  == [Always(wd) EXCEPT !.until = d]
Off(wd)       == [Always(wd) EXCEPT !.active = FALSE]

Form(p, r, n) == [prices |-> p, rows |-> r, added |-> n, bad |-> FALSE]

One(v)    == "p1" :> v
Two(v, w) == One(v) @@ "p2" :> w

\* Every table of a base price and two seasons, with nothing to edit.
SeasonRows == {Season(f, t, p) : f \in Year, t \in Year, p \in Amounts}
Refused == Form("p1" :> Base(1) @@ "p2" :> Base(1), NoRows, {})
Still(t) == [prices |-> t, sched |-> NoRows,
             forms |-> [a \in Admins |-> Refused]]
AllTables  ==
    {Still(Two(r, s)) : r \in SeasonRows, s \in {Base(1), Base(2)}}
    \cup {Still(Two(r, s) @@ "p3" :> b) :
             r \in SeasonRows,
             s \in {q \in SeasonRows : q.price = 2},
             b \in {Base(1), Base(2)}}
ValidTables == {t \in AllTables : ~HasPricingErrors(t.prices)}

Rows   == Two(Base(1), Season(2, 2, 2))
Sched  == "s1" :> Always(1)
Race(rows, f, g) == [prices |-> Rows, sched |-> rows,
                     forms |-> "a1" :> f @@ "a2" :> g]

\* Two admins change the seasons so that they clash.
Longer == Two(Base(1), Season(2, 3, 2))
Other  == "p1" :> Base(2) @@ "p3" :> Season(3, 4, 1)
Prices == Race(NoRows, Form(Longer, NoRows, {}), Form(Other, NoRows, {}))

\* One admin changes prices and puts another schedule in the place of one.
Moved == Race(Sched, Refused, Form(Other, "s1" :> Off(1), {Always(0)}))

\* The schedule ends earlier, and another admin removes it.
Removed == Race(Sched, Form(Rows, "s1" :> Until(1, 1), {}),
                       Form(Rows, NoRows, {Always(1)}))

Races == {Prices, Moved, Removed}

AllOpenings == ValidTables \cup Races

\* The hour of a new row is left empty.
Cleared == {Race(Sched, Refused,
                 [Form(Rows, Sched, {Always(0)}) EXCEPT !.bad = TRUE])}
=============================================================================
