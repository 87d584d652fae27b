------------------------------ MODULE SiteProofs ------------------------------
(***************************************************************************)
(* Proofs about the public site and the checkout in the browser: the       *)
(* calendar of TourSite and the tabs of CheckoutTabs, for every set of     *)
(* tabs, departures and prices and every number of submissions.            *)
(***************************************************************************)
EXTENDS CheckoutTabs, SumTheorems

-----------------------------------------------------------------------------
(* Days and months.                                                        *)

LEMMA DayBounds ==
  ASSUME NEW S \in SUBSET Year, S # {}
  PROVE  /\ Min(S) \in S /\ Max(S) \in S
         /\ \A d \in S : Min(S) <= d /\ d <= Max(S)
<1>1. \A d \in S : d \in Nat /\ d <= YearDays /\ YearDays \in Nat
  BY YearAssumption DEF Year
<1>2. \E n \in S : \A m \in S : n <= m
  BY <1>1, SmallestNat
<1> DEFINE B == {YearDays - d : d \in S}
<1>3. B \in SUBSET Nat /\ B # {}
  BY <1>1
<1>4. \E n \in B : \A m \in B : n <= m
  <2> HIDE DEF B
  <2> QED BY <1>3, SmallestNat
<1>5. PICK x \in S : \A m \in B : YearDays - x <= m
  BY <1>4
<1>6. \A y \in S : x >= y
  <2> SUFFICES ASSUME NEW y \in S PROVE x >= y
    OBVIOUS
  <2>1. YearDays - x <= YearDays - y
    BY <1>5
  <2> QED BY <1>1, <2>1
<1>7. \E n \in S : \A m \in S : n >= m
  BY <1>6
<1>8. Min(S) \in S /\ \A m \in S : Min(S) <= m
  BY <1>2 DEF Min
<1>9. Max(S) \in S /\ \A m \in S : Max(S) >= m
  BY <1>7 DEF Max
<1> QED BY <1>1, <1>8, <1>9

\* Months follow each other as their days do.
LEMMA MonthsFollow ==
  ASSUME NEW d \in Year, NEW e \in Year, d <= e
  PROVE  MonthOf(d) \in Int /\ MonthOf(e) \in Int /\ MonthOf(d) <= MonthOf(e)
<1>1. d \in Int /\ e \in Int /\ MonthDays \in Nat /\ MonthDays > 0
  BY YearAssumption, TourSiteAssumption DEF Year
<1> QED BY <1>1 DEF MonthOf

-----------------------------------------------------------------------------
(* What a tab shows, and what it asked for.                                *)

\* The submissions a tab has made.
Mine(t) == {t} \X (1..tries[t])

Agreed(a, r) ==
    accepted[a] = [status |-> "accepted", dep |-> r.dep, cart |-> r.cart,
                   amount |-> r.amount]

\* A calendar opens on a day with seats of each month that has one.
InReach(v) ==
    /\ DOMAIN v.seats \subseteq Outings /\ BookableDays(v.seats) # {}
    /\ v.month \in FirstMonth(v.seats) .. LastMonth(v.seats)
    /\ LET days == BookableDays(v.seats) \cap DaysOfMonth(v.month)
       IN  days # {} => v.selected \in days

IsCalendar(v) ==
    v = [page |-> "calendar", seats |-> v.seats, month |-> v.month,
         selected |-> v.selected]

IsForm(v) ==
    v = [page |-> "form", dep |-> v.dep, prices |-> v.prices, cart |-> v.cart,
         privacy |-> v.privacy, error |-> v.error, shared |-> v.shared]

IsCard(v) ==
    v = [page |-> "card", of |-> v.of, dep |-> v.dep, cart |-> v.cart,
         amount |-> v.amount, prices |-> v.prices, error |-> v.error]

\* The card form of a submission, accepted or not yet.
CardOf(t, v) ==
    v.of \in Mine(t) /\ (accepted[v.of] = Nothing \/ Agreed(v.of, v))

ViewOK(t) ==
    \/ IsCalendar(view[t]) /\ InReach(view[t])
    \/ IsForm(view[t])
    \/ IsCard(view[t]) /\ CardOf(t, view[t])
    \/ view[t].page \in {"away", "notice", "widget", "cancel", "success"}

IsRequest(r) ==
    /\ r = [step |-> r.step, of |-> r.of, dep |-> r.dep, cart |-> r.cart,
            amount |-> r.amount, key |-> r.key, shared |-> r.shared]
    /\ r.shared \in BOOLEAN

\* The first step of a checkout asks for what the form showed, and accepts the
\* amount of the immediate one; the second, for what the card form shows.
FirstStep(t, r) ==
    /\ view[t].page = "form" /\ r.of \in Mine(t)
    /\ r.step \in {"gates", "captcha", "price", "hold", "answer"}
    /\ IF Deferred THEN accepted[r.of] = Nothing ELSE Agreed(r.of, r)

SecondStep(t, r) ==
    /\ view[t].page = "card" /\ r.of = view[t].of
    /\ r.step \in {"complete", "card", "create", "answer"}
    /\ r.step # "answer" => Agreed(r.of, r)

ReqOK(t) ==
    \/ req[t] = NoRequest
    \/ IsRequest(req[t]) /\ (FirstStep(t, req[t]) \/ SecondStep(t, req[t]))

\* A token is looked at in the step of the captcha only, and after that the
\* widget asks for another one before the form can be sent again.
TokenOK(t) ==
    CaptchaOn /\ view[t].page = "form" /\ view[t].privacy =>
       \/ captcha[t].waiting
       \/ captcha[t].token \in {"unused", "sent"}
       \/ /\ req[t] # NoRequest /\ captcha[t].token = "spent"
          /\ \/ req[t].step \in {"price", "hold"}
             \/ req[t].step = "answer" /\ ~req[t].shared

TabOK(t) == ViewOK(t) /\ ReqOK(t) /\ TokenOK(t)

\* A booking is as it was accepted; nothing is of a submission not yet made.
BookOK(a) ==
    /\ \/ booking[a] = Nothing
       \/ /\ booking[a] = [status |-> booking[a].status, dep |-> booking[a].dep,
                            cart |-> booking[a].cart, amount |-> booking[a].amount]
          /\ Agreed(a, booking[a])
    /\ a[2] > tries[a[1]] => accepted[a] = Nothing

Shapes ==
    /\ view = [t \in Tabs |-> view[t]] /\ req = [t \in Tabs |-> req[t]]
    /\ captcha \in [Tabs -> [token : {"none", "unused", "sent", "spent"},
                              waiting : BOOLEAN]]
    /\ tries \in [Tabs -> 0..MaxTries]
    /\ booking = [a \in Submissions |-> booking[a]]
    /\ accepted = [a \in Submissions |-> accepted[a]]
    /\ open \subseteq Outings

TabsInv ==
    /\ Shapes
    /\ \A t \in Tabs : TabOK(t)
    /\ \A a \in Submissions : BookOK(a)

\* What one tab, or the server for it, does is no business of the others.
OneTab(t) ==
    /\ Shapes' /\ mode' = mode
    /\ \A u \in Tabs \ {t} : /\ view'[u] = view[u] /\ req'[u] = req[u]
                              /\ captcha'[u] = captcha[u] /\ tries'[u] = tries[u]
    /\ \A a \in Submissions : a[1] # t => /\ booking'[a] = booking[a]
                                          /\ accepted'[a] = accepted[a]
    /\ TabOK(t)' /\ \A a \in Submissions : a[1] = t => BookOK(a)'

LEMMA MineIsMine ==
  ASSUME Shapes, NEW t \in Tabs, NEW a \in Mine(t)
  PROVE  a \in Submissions /\ a[1] = t /\ a[2] <= tries[t]
<1>1. tries[t] \in Nat /\ tries[t] <= MaxTries /\ MaxTries \in Nat
  BY CheckoutTabsAssumption DEF Shapes
<1> QED BY <1>1 DEF Mine, Submissions

\* A page tells which form it is.
LEMMA CardPage ==
  ASSUME NEW t, TabOK(t), view[t].page = "card"
  PROVE  IsCard(view[t]) /\ CardOf(t, view[t]) /\ view[t].of \in Mine(t)
<1>1. ~IsCalendar(view[t]) /\ ~IsForm(view[t])
  BY DEF IsCalendar, IsForm
<1> QED BY <1>1 DEF TabOK, ViewOK, CardOf

LEMMA FormPage ==
  ASSUME NEW t, TabOK(t), view[t].page = "form" PROVE IsForm(view[t])
<1>1. ~IsCalendar(view[t]) /\ ~IsCard(view[t])
  BY DEF IsCalendar, IsCard
<1> QED BY <1>1 DEF TabOK, ViewOK

LEMMA CalendarPage ==
  ASSUME NEW t, TabOK(t), view[t].page = "calendar"
  PROVE  IsCalendar(view[t]) /\ InReach(view[t])
<1>1. ~IsForm(view[t]) /\ ~IsCard(view[t])
  BY DEF IsForm, IsCard
<1> QED BY <1>1 DEF TabOK, ViewOK

LEMMA OneTabInv ==
  ASSUME TabsInv, NEW t \in Tabs, OneTab(t) PROVE TabsInv'
<1>1. ASSUME NEW u \in Tabs \ {t} PROVE TabOK(u)'
  <2>1. Mine(u)' = Mine(u)
    BY <1>1 DEF OneTab, Mine
  <2>2. \A a \in Mine(u) : a \in Submissions /\ a[1] = u
    BY MineIsMine DEF TabsInv
  <2>3. \A a \in Mine(u) : accepted'[a] = accepted[a]
    BY <1>1, <2>2 DEF OneTab
  <2>4. TabOK(u)
    BY DEF TabsInv
  <2>5. view'[u] = view[u] /\ req'[u] = req[u] /\ captcha'[u] = captcha[u]
          /\ mode' = mode
    BY <1>1 DEF OneTab
  <2>6. ASSUME NEW r, r.of \in Mine(u)
        PROVE  /\ Agreed(r.of, r)' <=> Agreed(r.of, r)
               /\ accepted'[r.of] = accepted[r.of]
    BY <2>3, <2>6 DEF Agreed
  <2>7. ViewOK(u)'
    <3>1. CardOf(u, view[u]) => CardOf(u, view[u])'
      BY <2>1, <2>5, <2>6 DEF CardOf
    <3> QED BY <2>4, <2>5, <3>1 DEF TabOK, ViewOK
  <2>8. ReqOK(u)'
    <3>1. FirstStep(u, req[u]) => FirstStep(u, req[u])'
      BY <2>1, <2>5, <2>6 DEF FirstStep, Deferred
    <3>2. SecondStep(u, req[u]) => SecondStep(u, req[u])'
      <4>1. view[u].page = "card" => view[u].of \in Mine(u)
        BY <2>4, CardPage
      <4> QED BY <2>5, <2>6, <4>1 DEF SecondStep
    <3> QED BY <2>4, <2>5, <3>1, <3>2 DEF TabOK, ReqOK
  <2>9. TokenOK(u)'
    BY <2>4, <2>5 DEF TabOK, TokenOK, CaptchaOn
  <2> QED BY <2>7, <2>8, <2>9 DEF TabOK
<1>2. ASSUME NEW a \in Submissions, a[1] # t PROVE BookOK(a)'
  <2>1. tries'[a[1]] = tries[a[1]]
    BY <1>2 DEF OneTab, Submissions
  <2> QED BY <1>2, <2>1 DEF OneTab, TabsInv, BookOK, Agreed
<1> QED BY <1>1, <1>2 DEF OneTab, TabsInv

-----------------------------------------------------------------------------
(* The steps of the server, one request after the other.                   *)

\* How one step moves the request of a tab on.
MovesOn(t) ==
    /\ req' = [req EXCEPT ![t] = req'[t]]
    /\ IsRequest(req'[t]) /\ req'[t].of = req[t].of
    /\ req'[t].dep = req[t].dep /\ req'[t].cart = req[t].cart
    /\ UNCHANGED <<view, mode, tries, accepted, open>>

\* A function of the tabs that changes at one of them.
LEMMA OneEntry ==
  ASSUME NEW f, f = [u \in Tabs |-> f[u]], NEW g, NEW t \in Tabs, NEW v,
         g = [f EXCEPT ![t] = v]
  PROVE  g = [u \in Tabs |-> g[u]] /\ g[t] = v /\ \A u \in Tabs \ {t} : g[u] = f[u]
  OBVIOUS

Request(step, of, dep, cart, amount, key, shared) ==
    [step |-> step, of |-> of, dep |-> dep, cart |-> cart, amount |-> amount,
     key |-> key, shared |-> shared]

LEMMA RequestParts ==
  ASSUME NEW step, NEW of, NEW dep, NEW cart, NEW amount, NEW key,
         NEW shared \in BOOLEAN, NEW q,
         q = Request(step, of, dep, cart, amount, key, shared)
  PROVE  /\ IsRequest(q) /\ q.step = step /\ q.of = of /\ q.dep = dep
         /\ q.cart = cart /\ q.amount = amount /\ q.key = key /\ q.shared = shared
  BY DEF Request, IsRequest

LEMMA WriteStep ==
  ASSUME NEW a, NEW b, NEW c, NEW d, NEW e, NEW f, NEW g, NEW x
  PROVE  [Request(a, b, c, d, e, f, g) EXCEPT !.step = x] = Request(x, b, c, d, e, f, g)
  BY DEF Request

LEMMA WriteAmount ==
  ASSUME NEW a, NEW b, NEW c, NEW d, NEW e, NEW f, NEW g, NEW x
  PROVE  [Request(a, b, c, d, e, f, g) EXCEPT !.amount = x] =
            Request(a, b, c, d, x, f, g)
  BY DEF Request

LEMMA WriteKey ==
  ASSUME NEW a, NEW b, NEW c, NEW d, NEW e, NEW f, NEW g, NEW x
  PROVE  [Request(a, b, c, d, e, f, g) EXCEPT !.key = x] = Request(a, b, c, d, e, x, g)
  BY DEF Request

LEMMA WriteShared ==
  ASSUME NEW a, NEW b, NEW c, NEW d, NEW e, NEW f, NEW g, NEW x
  PROVE  [Request(a, b, c, d, e, f, g) EXCEPT !.shared = x] =
            Request(a, b, c, d, e, f, x)
  BY DEF Request

LEMMA IsRequestParts ==
  ASSUME NEW r, IsRequest(r)
  PROVE  r = Request(r.step, r.of, r.dep, r.cart, r.amount, r.key, r.shared)
  BY DEF IsRequest, Request

Answered(r, key, shared) ==
    [r EXCEPT !.step = "answer", !.key = key, !.shared = shared]

LEMMA AnswerWrites ==
  ASSUME NEW r, IsRequest(r), NEW key, NEW shared
  PROVE  Answered(r, key, shared) =
            Request("answer", r.of, r.dep, r.cart, r.amount, key, shared)
<1> PICK a, b, c, d, e, f, g :
       /\ r = Request(a, b, c, d, e, f, g)
       /\ r.of = b /\ r.dep = c /\ r.cart = d /\ r.amount = e
  BY IsRequestParts
<1>1. Answered(r, key, shared) =
         [[[r EXCEPT !.step = "answer"] EXCEPT !.key = key] EXCEPT !.shared = shared]
  BY DEF Answered
<1>2. [r EXCEPT !.step = "answer"] = Request("answer", b, c, d, e, f, g)
  BY WriteStep
<1>3. [Request("answer", b, c, d, e, f, g) EXCEPT !.key = key] =
         Request("answer", b, c, d, e, key, g)
  BY WriteKey
<1>4. [Request("answer", b, c, d, e, key, g) EXCEPT !.shared = shared] =
         Request("answer", b, c, d, e, key, shared)
  BY WriteShared
<1> QED BY <1>1, <1>2, <1>3, <1>4

LEMMA PriceWrites ==
  ASSUME NEW r, IsRequest(r), NEW step, NEW amount
  PROVE  [r EXCEPT !.step = step, !.amount = amount] =
            Request(step, r.of, r.dep, r.cart, amount, r.key, r.shared)
<1> PICK a, b, c, d, e, f, g :
       /\ r = Request(a, b, c, d, e, f, g)
       /\ r.of = b /\ r.dep = c /\ r.cart = d /\ r.key = f /\ r.shared = g
  BY IsRequestParts
<1>1. [r EXCEPT !.step = step, !.amount = amount] =
         [[r EXCEPT !.step = step] EXCEPT !.amount = amount]
  OBVIOUS
<1>2. [r EXCEPT !.step = step] = Request(step, b, c, d, e, f, g)
  BY WriteStep
<1>3. [Request(step, b, c, d, e, f, g) EXCEPT !.amount = amount] =
         Request(step, b, c, d, amount, f, g)
  BY WriteAmount
<1> QED BY <1>1, <1>2, <1>3

LEMMA AnswersReq ==
  ASSUME TabsInv, NEW t \in Tabs, IsRequest(req[t]),
         NEW key, NEW verified \in BOOLEAN, Answers(t, key, verified),
         UNCHANGED <<view, mode, tries, accepted, open>>
  PROVE  /\ MovesOn(t) /\ req'[t].step = "answer"
         /\ req'[t].amount = req[t].amount
         /\ req'[t].shared => ~verified
<1>1. IsShared(key, verified) \in BOOLEAN /\ (IsShared(key, verified) => ~verified)
  BY DEF IsShared
<1> PICK s \in BOOLEAN : s = IsShared(key, verified)
  BY <1>1
<1> PICK r : r = req[t]
  OBVIOUS
<1>2. req = [u \in Tabs |-> req[u]]
  BY DEF TabsInv, Shapes
<1>3. req' = [req EXCEPT ![t] = Answered(r, key, s)]
  BY DEF Answers, Answered
<1> PICK q : q = Request("answer", r.of, r.dep, r.cart, r.amount, key, s)
  OBVIOUS
<1>4. req' = [req EXCEPT ![t] = q]
  <2>1. IsRequest(r)
    OBVIOUS
  <2> QED BY <1>3, <2>1, AnswerWrites
<1>5. req'[t] = q
  BY <1>2, <1>4, OneEntry
<1>6. /\ IsRequest(q) /\ q.step = "answer" /\ q.of = r.of /\ q.dep = r.dep
      /\ q.cart = r.cart /\ q.amount = r.amount /\ q.shared = s
  BY RequestParts
<1> QED BY <1>1, <1>4, <1>5, <1>6 DEF MovesOn

LEMMA ProceedsReq ==
  ASSUME TabsInv, NEW t \in Tabs, IsRequest(req[t]), NEW step, Proceeds(t, step),
         UNCHANGED <<view, mode, tries, accepted, open>>
  PROVE  MovesOn(t) /\ req'[t].step = step /\ req'[t].amount = req[t].amount
<1> PICK r : r = req[t]
  OBVIOUS
<1>1. req = [u \in Tabs |-> req[u]] /\ r.shared \in BOOLEAN
  BY DEF TabsInv, Shapes, IsRequest
<1> PICK q : q = Request(step, r.of, r.dep, r.cart, r.amount, r.key, r.shared)
  OBVIOUS
<1>2. req' = [req EXCEPT ![t] = [r EXCEPT !.step = step]]
  BY DEF Proceeds
<1>3. req' = [req EXCEPT ![t] = q]
  <2>1. [r EXCEPT !.step = step] = q
    BY IsRequestParts, WriteStep
  <2> QED BY <1>2, <2>1
<1>4. req'[t] = q
  BY <1>1, <1>3, OneEntry
<1> QED BY <1>1, <1>3, <1>4, RequestParts DEF MovesOn

\* The same, with the amount that the database gave.
LEMMA PricedReq ==
  ASSUME TabsInv, NEW t \in Tabs, IsRequest(req[t]), NEW step, NEW total,
         req' = [req EXCEPT ![t].step = step, ![t].amount = total],
         UNCHANGED <<view, mode, tries, accepted, open>>
  PROVE  MovesOn(t) /\ req'[t].step = step /\ req'[t].amount = total
<1> PICK r : r = req[t]
  OBVIOUS
<1>1. req = [u \in Tabs |-> req[u]] /\ r.shared \in BOOLEAN
  BY DEF TabsInv, Shapes, IsRequest
<1> PICK q : q = Request(step, r.of, r.dep, r.cart, total, r.key, r.shared)
  OBVIOUS
<1>2. req' = [req EXCEPT ![t] = [r EXCEPT !.step = step, !.amount = total]]
  OBVIOUS
<1>3. req' = [req EXCEPT ![t] = q]
  <2>1. [r EXCEPT !.step = step, !.amount = total] = q
    BY PriceWrites
  <2> QED BY <1>2, <2>1
<1>4. req'[t] = q
  BY <1>1, <1>3, OneEntry
<1>5. /\ IsRequest(q) /\ q.step = step /\ q.of = r.of /\ q.dep = r.dep
      /\ q.cart = r.cart /\ q.amount = total
  BY <1>1, RequestParts
<1> QED BY <1>3, <1>4, <1>5 DEF MovesOn

\* A request that is where it may be leaves everything in order.
LEMMA ServerStep ==
  ASSUME TabsInv, NEW t \in Tabs, req[t] # NoRequest, MovesOn(t),
         FirstStep(t, req'[t]) \/ SecondStep(t, req'[t]),
         captcha' \in [Tabs -> [token : {"none", "unused", "sent", "spent"},
                               waiting : BOOLEAN]],
         \A u \in Tabs \ {t} : captcha'[u] = captcha[u],
         TokenOK(t)',
         \/ booking' = booking
         \/ \E status : /\ booking' = [booking EXCEPT ![req[t].of] =
                              [status |-> status, dep |-> req[t].dep,
                               cart |-> req[t].cart, amount |-> req[t].amount]]
                        /\ Agreed(req[t].of, req[t])
  PROVE  TabsInv'
<1>1. req[t].of \in Mine(t)
  BY CardPage DEF TabsInv, TabOK, ReqOK, FirstStep, SecondStep
<1>2. req[t].of \in Submissions /\ req[t].of[1] = t
  BY <1>1, MineIsMine DEF TabsInv
<1>3. req = [u \in Tabs |-> req[u]] /\ booking = [a \in Submissions |-> booking[a]]
  BY DEF TabsInv, Shapes
<1>4. \A u \in Tabs \ {t} : req'[u] = req[u]
  BY <1>3 DEF MovesOn
<1>5. req' = [u \in Tabs |-> req'[u]]
  BY <1>3 DEF MovesOn
<1>6. \A a \in Submissions : BookOK(a)' /\ (a[1] # t => booking'[a] = booking[a])
  <2>1. ASSUME NEW a \in Submissions, booking'[a] = booking[a] PROVE BookOK(a)'
    BY <2>1 DEF TabsInv, BookOK, Agreed, MovesOn
  <2>2. CASE booking' = booking
    BY <2>1, <2>2
  <2>3. ASSUME NEW status, Agreed(req[t].of, req[t]),
               booking' = [booking EXCEPT ![req[t].of] =
                            [status |-> status, dep |-> req[t].dep,
                             cart |-> req[t].cart, amount |-> req[t].amount]]
        PROVE  \A a \in Submissions :
                  BookOK(a)' /\ (a[1] # t => booking'[a] = booking[a])
    <3>1. \A a \in Submissions : a # req[t].of => booking'[a] = booking[a]
      BY <1>3, <2>3
    <3> PICK o \in Submissions : o = req[t].of
      BY <1>2
    <3>2. BookOK(o)'
      <4>1. booking'[o] = [status |-> status, dep |-> req[t].dep,
                           cart |-> req[t].cart, amount |-> req[t].amount]
        BY <1>3, <2>3
      <4>2. Agreed(o, booking[o])'
        BY <2>3, <4>1 DEF Agreed, MovesOn
      <4>3. o[2] > tries'[o[1]] => accepted'[o] = Nothing
        BY DEF TabsInv, BookOK, MovesOn
      <4> QED BY <4>1, <4>2, <4>3 DEF BookOK
    <3> QED BY <1>2, <2>1, <3>1, <3>2
  <2> QED BY <2>2, <2>3
<1>7. booking' = [a \in Submissions |-> booking'[a]]
  BY <1>3
<1>8. ViewOK(t)'
  <2>1. Mine(t)' = Mine(t)
    BY DEF Mine, MovesOn
  <2> QED BY <2>1 DEF TabsInv, TabOK, ViewOK, CardOf, Agreed, MovesOn
<1>9. ReqOK(t)'
  <2>1. Mine(t)' = Mine(t)
    BY DEF Mine, MovesOn
  <2>2. FirstStep(t, req[t])' \/ SecondStep(t, req[t])'
    BY <2>1 DEF FirstStep, SecondStep, Agreed, MovesOn, Deferred
  <2> QED BY <2>2 DEF ReqOK, MovesOn
<1>10. Shapes'
  BY <1>5, <1>7 DEF TabsInv, Shapes, MovesOn, Submissions
<1> QED BY <1>4, <1>6, <1>8, <1>9, <1>10, OneTabInv DEF OneTab, MovesOn, TabOK

LEMMA FirstAt ==
  ASSUME TabsInv, NEW t \in Tabs, NEW step \in {"gates", "captcha", "price", "hold"},
         At(t, step)
  PROVE  req[t] # NoRequest /\ IsRequest(req[t]) /\ FirstStep(t, req[t])
  BY DEF TabsInv, TabOK, ReqOK, At, NoRequest, SecondStep

LEMMA SecondAt ==
  ASSUME TabsInv, NEW t \in Tabs, NEW step \in {"complete", "card", "create"},
         At(t, step)
  PROVE  /\ req[t] # NoRequest /\ IsRequest(req[t]) /\ SecondStep(t, req[t])
         /\ Agreed(req[t].of, req[t])
  BY DEF TabsInv, TabOK, ReqOK, At, NoRequest, FirstStep, SecondStep

LEMMA FirstMoves ==
  ASSUME NEW t, FirstStep(t, req[t]), MovesOn(t),
         req'[t].step \in {"captcha", "price", "hold", "answer"},
         Deferred \/ req'[t].amount = req[t].amount
  PROVE  FirstStep(t, req'[t])
  BY DEF FirstStep, MovesOn, Agreed

LEMMA SecondMoves ==
  ASSUME NEW t, SecondStep(t, req[t]), MovesOn(t),
         \/ req'[t].step = "answer"
         \/ /\ req'[t].step \in {"card", "create"} /\ req'[t].amount = req[t].amount
            /\ Agreed(req[t].of, req[t])
  PROVE  SecondStep(t, req'[t])
  BY DEF SecondStep, MovesOn, Agreed

LEMMA TokenMoves ==
  ASSUME TabsInv, NEW t \in Tabs, req[t] # NoRequest, MovesOn(t), captcha' = captcha,
         \/ req[t].step \in {"gates", "captcha"}
         \/ req'[t].step \in {"price", "hold"}
         \/ req'[t].step = "answer" /\ ~req'[t].shared
  PROVE  TokenOK(t)'
<1>1. req'[t] # NoRequest
  BY DEF MovesOn, IsRequest, NoRequest
<1> QED BY <1>1 DEF TabsInv, TabOK, TokenOK, MovesOn, CaptchaOn

LEMMA TokenOfCard ==
  ASSUME NEW t, SecondStep(t, req[t]), MovesOn(t) PROVE TokenOK(t)'
  BY DEF SecondStep, MovesOn, TokenOK

\* A step that leaves the captcha and the bookings alone.
LEMMA QuietStep ==
  ASSUME TabsInv, NEW t \in Tabs, req[t] # NoRequest, MovesOn(t), TokenOK(t)',
         FirstStep(t, req'[t]) \/ SecondStep(t, req'[t]), UNCHANGED <<captcha, booking>>
  PROVE  TabsInv'
  BY ServerStep DEF TabsInv, Shapes

LEMMA PassGatesInv ==
  ASSUME TabsInv, NEW t \in Tabs, PassGates(t) PROVE TabsInv'
<1>1. req[t] # NoRequest /\ IsRequest(req[t]) /\ FirstStep(t, req[t])
  BY FirstAt DEF PassGates
<1>2. UNCHANGED <<view, mode, tries, accepted, open, captcha, booking>>
  BY DEF PassGates, site, session
<1>3. MovesOn(t) /\ req'[t].amount = req[t].amount
        /\ (req'[t].step = "answer" \/ req'[t].step = "captcha")
  <2>1. \/ Answers(t, "sales-not-enabled", FALSE) \/ Answers(t, "tour-paused", FALSE)
        \/ Answers(t, "error-generic", FALSE) \/ Proceeds(t, "captcha")
    BY DEF PassGates
  <2> QED BY <1>1, <1>2, <2>1, AnswersReq, ProceedsReq
<1>4. req[t].step = "gates"
  BY DEF PassGates, At
<1>5. TokenOK(t)'
  BY <1>1, <1>2, <1>3, <1>4, TokenMoves
<1>6. FirstStep(t, req'[t])
  BY <1>1, <1>3, FirstMoves
<1> QED BY <1>1, <1>2, <1>3, <1>5, <1>6, QuietStep

Widgets == [token : {"none", "unused", "sent", "spent"}, waiting : BOOLEAN]

LEMMA TokenWrites ==
  ASSUME NEW c \in Widgets, NEW x
  PROVE  [c EXCEPT !.token = x] = [token |-> x, waiting |-> c.waiting]
  BY DEF Widgets

LEMMA VerifyCaptchaInv ==
  ASSUME TabsInv, NEW t \in Tabs, VerifyCaptcha(t) PROVE TabsInv'
<1>1. req[t] # NoRequest /\ IsRequest(req[t]) /\ FirstStep(t, req[t])
  BY FirstAt DEF VerifyCaptcha
<1>2. UNCHANGED <<view, mode, tries, accepted, open, booking>>
  BY DEF VerifyCaptcha, site, session
<1>3. MovesOn(t) /\ req'[t].amount = req[t].amount
        /\ ((req'[t].step = "answer" /\ ~req'[t].shared) \/ req'[t].step = "price")
  <2>1. \/ Answers(t, "captcha-failed", TRUE)
        \/ Answers(t, "deferred-cap-exceeded", TRUE) \/ Proceeds(t, "price")
    BY DEF VerifyCaptcha
  <2> QED BY <1>1, <1>2, <2>1, AnswersReq, ProceedsReq
<1>4. captcha \in [Tabs -> Widgets] /\ captcha[t] \in Widgets
  BY DEF TabsInv, Shapes, Widgets
<1> PICK c \in Widgets : c = captcha[t]
  BY <1>4
<1> PICK token : token = IF c.token = "sent" THEN "spent" ELSE c.token
  OBVIOUS
<1>5. captcha' = [captcha EXCEPT ![t] = [token |-> token, waiting |-> c.waiting]]
  <2>1. captcha' = [captcha EXCEPT ![t] = [c EXCEPT !.token = token]]
    BY <1>4 DEF VerifyCaptcha
  <2> QED BY <2>1, TokenWrites
<1>6. /\ captcha' \in [Tabs -> [token : {"none", "unused", "sent", "spent"},
                               waiting : BOOLEAN]]
      /\ \A u \in Tabs \ {t} : captcha'[u] = captcha[u]
      /\ captcha'[t].token = token /\ captcha'[t].waiting = c.waiting
  <2>1. [token |-> token, waiting |-> c.waiting] \in Widgets
    BY DEF Widgets
  <2> QED BY <1>4, <1>5, <2>1 DEF Widgets
<1>7. TokenOK(t)'
  <2>1. req'[t] # NoRequest
    BY <1>3 DEF MovesOn, IsRequest, NoRequest
  <2>2. CaptchaOn /\ view[t].page = "form" /\ view[t].privacy =>
           c.waiting \/ c.token \in {"unused", "sent"}
    BY DEF TabsInv, TabOK, TokenOK, VerifyCaptcha, At
  <2>3. view' = view /\ mode' = mode
    BY DEF MovesOn, VerifyCaptcha
  <2> QED BY <1>3, <1>6, <2>1, <2>2, <2>3 DEF TokenOK, CaptchaOn
<1>8. FirstStep(t, req'[t])
  BY <1>1, <1>3, FirstMoves
<1> QED BY <1>1, <1>2, <1>3, <1>6, <1>7, <1>8, ServerStep

LEMMA PriceInv ==
  ASSUME TabsInv, NEW t \in Tabs, Price(t) PROVE TabsInv'
<1>1. req[t] # NoRequest /\ IsRequest(req[t]) /\ FirstStep(t, req[t])
  BY FirstAt DEF Price
<1>2. UNCHANGED <<view, mode, tries, accepted, open, captcha, booking>>
  BY DEF Price, site, session
<1>3. PICK total :
         \/ Answers(t, "error-generic", TRUE) \/ Answers(t, "amount-changed", TRUE)
         \/ /\ Deferred \/ IsAsShown(req[t].amount, total)
            /\ req' = [req EXCEPT ![t].step = "hold", ![t].amount = total]
  BY DEF Price
<1>4. MovesOn(t) /\ (Deferred \/ req'[t].amount = req[t].amount)
        /\ ((req'[t].step = "answer" /\ ~req'[t].shared) \/ req'[t].step = "hold")
  <2>1. ASSUME NEW key, Answers(t, key, TRUE)
        PROVE  MovesOn(t) /\ req'[t].amount = req[t].amount
                 /\ req'[t].step = "answer" /\ ~req'[t].shared
    BY <1>1, <1>2, <2>1, AnswersReq
  <2>2. ASSUME req' = [req EXCEPT ![t].step = "hold", ![t].amount = total]
        PROVE  MovesOn(t) /\ req'[t].amount = total /\ req'[t].step = "hold"
    BY <1>1, <1>2, <2>2, PricedReq
  <2> QED BY <1>3, <2>1, <2>2 DEF IsAsShown
<1>5. TokenOK(t)'
  BY <1>1, <1>2, <1>4, TokenMoves
<1>6. FirstStep(t, req'[t])
  BY <1>1, <1>4, FirstMoves
<1> QED BY <1>1, <1>2, <1>4, <1>5, <1>6, QuietStep

LEMMA CreateHoldInv ==
  ASSUME TabsInv, NEW t \in Tabs, CreateHold(t) PROVE TabsInv'
<1>1. req[t] # NoRequest /\ IsRequest(req[t]) /\ FirstStep(t, req[t])
  BY FirstAt DEF CreateHold
<1>2. UNCHANGED <<view, mode, tries, accepted, open, captcha>>
  BY DEF CreateHold, site
<1>3. PICK key : Answers(t, key, TRUE)
  BY DEF CreateHold
<1>4. booking' = booking \/ (~Deferred /\ Booked(req[t], "pending_payment"))
  BY DEF CreateHold
<1>5. MovesOn(t) /\ req'[t].step = "answer" /\ req'[t].amount = req[t].amount
        /\ ~req'[t].shared
  BY <1>1, <1>2, <1>3, AnswersReq
<1>6. TokenOK(t)'
  BY <1>1, <1>2, <1>5, TokenMoves
<1>7. FirstStep(t, req'[t])
  BY <1>1, <1>5, FirstMoves
<1>8. ~Deferred => Agreed(req[t].of, req[t])
  BY <1>1 DEF FirstStep
<1>9. captcha' \in [Tabs -> [token : {"none", "unused", "sent", "spent"},
                            waiting : BOOLEAN]]
  BY <1>2 DEF TabsInv, Shapes
<1> QED BY <1>1, <1>2, <1>4, <1>5, <1>6, <1>7, <1>8, <1>9, ServerStep DEF Booked

LEMMA ReadHoldInv ==
  ASSUME TabsInv, NEW t \in Tabs, ReadHold(t) PROVE TabsInv'
<1>1. /\ req[t] # NoRequest /\ IsRequest(req[t]) /\ SecondStep(t, req[t])
      /\ Agreed(req[t].of, req[t])
  BY SecondAt DEF ReadHold
<1>2. UNCHANGED <<view, mode, tries, accepted, open, captcha, booking>>
  BY DEF ReadHold, site, session
<1>3. (\E key : Answers(t, key, TRUE)) \/ Proceeds(t, "card")
  BY DEF ReadHold
<1>4. MovesOn(t) /\ req'[t].amount = req[t].amount
        /\ (req'[t].step = "answer" \/ req'[t].step = "card")
  BY <1>1, <1>2, <1>3, AnswersReq, ProceedsReq
<1>5. SecondStep(t, req'[t])
  BY <1>1, <1>4, SecondMoves
<1> QED BY <1>1, <1>2, <1>4, <1>5, TokenOfCard, QuietStep

LEMMA CheckCardInv ==
  ASSUME TabsInv, NEW t \in Tabs, CheckCard(t) PROVE TabsInv'
<1>1. /\ req[t] # NoRequest /\ IsRequest(req[t]) /\ SecondStep(t, req[t])
      /\ Agreed(req[t].of, req[t])
  BY SecondAt DEF CheckCard
<1>2. UNCHANGED <<view, mode, tries, accepted, open, captcha, booking>>
  BY DEF CheckCard, site, session
<1>3. \/ \E key : Answers(t, key, TRUE)
      \/ \E total : /\ IsAsShown(req[t].amount, total)
                    /\ req' = [req EXCEPT ![t].step = "create", ![t].amount = total]
  BY DEF CheckCard
<1>4. MovesOn(t)
        /\ (\/ req'[t].step = "answer"
            \/ req'[t].step = "create" /\ req'[t].amount = req[t].amount)
  <2>1. ASSUME NEW key, Answers(t, key, TRUE)
        PROVE  MovesOn(t) /\ req'[t].step = "answer"
    BY <1>1, <1>2, <2>1, AnswersReq
  <2>2. ASSUME NEW total,
               req' = [req EXCEPT ![t].step = "create", ![t].amount = total]
        PROVE  MovesOn(t) /\ req'[t].amount = total /\ req'[t].step = "create"
    BY <1>1, <1>2, <2>2, PricedReq
  <2> QED BY <1>3, <2>1, <2>2 DEF IsAsShown
<1>5. SecondStep(t, req'[t])
  BY <1>1, <1>4, SecondMoves
<1> QED BY <1>1, <1>2, <1>4, <1>5, TokenOfCard, QuietStep

LEMMA CreateDeferredInv ==
  ASSUME TabsInv, NEW t \in Tabs, CreateDeferredBooking(t) PROVE TabsInv'
<1>1. /\ req[t] # NoRequest /\ IsRequest(req[t]) /\ SecondStep(t, req[t])
      /\ Agreed(req[t].of, req[t])
  BY SecondAt DEF CreateDeferredBooking
<1>2. UNCHANGED <<view, mode, tries, accepted, open, captcha>>
  BY DEF CreateDeferredBooking, site
<1>3. PICK key : Answers(t, key, TRUE)
  BY DEF CreateDeferredBooking
<1>4. booking' = booking \/ Booked(req[t], "pending_minimum")
  BY DEF CreateDeferredBooking
<1>5. MovesOn(t) /\ req'[t].step = "answer" /\ req'[t].amount = req[t].amount
  BY <1>1, <1>2, <1>3, AnswersReq
<1>6. SecondStep(t, req'[t]) /\ TokenOK(t)'
  BY <1>1, <1>5, SecondMoves, TokenOfCard
<1>7. captcha' \in [Tabs -> [token : {"none", "unused", "sent", "spent"},
                            waiting : BOOLEAN]]
  BY <1>2 DEF TabsInv, Shapes
<1> QED BY <1>1, <1>2, <1>4, <1>5, <1>6, <1>7, ServerStep DEF Booked

-----------------------------------------------------------------------------
(* The steps of the tourist.                                               *)

\* A step after which a tab asks for nothing, whatever it shows.
LEMMA EndsInv ==
  ASSUME TabsInv, NEW t \in Tabs, NEW v, Shows(t, v),
         req' = [req EXCEPT ![t] = NoRequest],
         UNCHANGED <<mode, tries, booking, accepted, open>>,
         captcha' \in [Tabs -> Widgets],
         \A u \in Tabs \ {t} : captcha'[u] = captcha[u],
         \/ IsCalendar(v) /\ InReach(v)
         \/ IsForm(v)
         \/ IsCard(v) /\ CardOf(t, v)
         \/ v.page \in {"away", "notice", "widget", "cancel", "success"},
         CaptchaOn /\ v.page = "form" /\ v.privacy =>
            captcha'[t].waiting \/ captcha'[t].token \in {"unused", "sent"}
  PROVE  TabsInv'
<1>1. /\ view' = [u \in Tabs |-> view'[u]] /\ view'[t] = v
      /\ \A u \in Tabs \ {t} : view'[u] = view[u]
  BY DEF TabsInv, Shapes, Shows
<1>2. Mine(t)' = Mine(t)
  BY DEF Mine
<1>3. ViewOK(t)'
  <2>1. CardOf(t, v) => CardOf(t, v)'
    BY <1>2 DEF CardOf, Agreed
  <2> QED BY <1>1, <2>1 DEF ViewOK, CardOf, Agreed
<1>4. /\ req' = [u \in Tabs |-> req'[u]] /\ req'[t] = NoRequest
      /\ \A u \in Tabs \ {t} : req'[u] = req[u]
  BY DEF TabsInv, Shapes
<1>5. ReqOK(t)' /\ TokenOK(t)'
  BY <1>1, <1>4 DEF ReqOK, TokenOK, CaptchaOn
<1>6. \A a \in Submissions : BookOK(a)'
  BY DEF TabsInv, BookOK, Agreed
<1>7. Shapes'
  BY <1>1, <1>4 DEF TabsInv, Shapes, Submissions, Widgets
<1> QED BY <1>1, <1>3, <1>4, <1>5, <1>6, <1>7, OneTabInv DEF OneTab, TabOK

\* A step that changes what a tab without a request shows.
LEMMA ShowsInv ==
  ASSUME TabsInv, NEW t \in Tabs, NEW v, Shows(t, v), req[t] = NoRequest,
         UNCHANGED <<mode, req, tries, booking, accepted, open>>,
         captcha' \in [Tabs -> Widgets],
         \A u \in Tabs \ {t} : captcha'[u] = captcha[u],
         \/ IsCalendar(v) /\ InReach(v)
         \/ IsForm(v)
         \/ IsCard(v) /\ CardOf(t, v)
         \/ v.page \in {"away", "notice", "widget", "cancel", "success"},
         CaptchaOn /\ v.page = "form" /\ v.privacy =>
            captcha'[t].waiting \/ captcha'[t].token \in {"unused", "sent"}
  PROVE  TabsInv'
<1>1. req' = [req EXCEPT ![t] = NoRequest]
  BY DEF TabsInv, Shapes
<1> QED BY <1>1, EndsInv

FormOf(dep, prices, cart, privacy, error, shared) ==
    [page |-> "form", dep |-> dep, prices |-> prices, cart |-> cart,
     privacy |-> privacy, error |-> error, shared |-> shared]

LEMMA FormParts ==
  ASSUME NEW a, NEW b, NEW c, NEW d, NEW e, NEW f, NEW v,
         v = FormOf(a, b, c, d, e, f)
  PROVE  /\ IsForm(v) /\ v.page = "form" /\ v.dep = a /\ v.prices = b
         /\ v.cart = c /\ v.privacy = d /\ v.error = e /\ v.shared = f
  BY DEF FormOf, IsForm

LEMMA FormIs ==
  ASSUME NEW v, IsForm(v)
  PROVE  v = FormOf(v.dep, v.prices, v.cart, v.privacy, v.error, v.shared)
  BY DEF FormOf, IsForm

LEMMA CartWrites ==
  ASSUME NEW v, IsForm(v), NEW x, NEW q, q = [v EXCEPT !.cart = x]
  PROVE  IsForm(q) /\ q.privacy = v.privacy
<1>1. PICK a, b, c, d, e, f : v = FormOf(a, b, c, d, e, f)
  BY FormIs
<1>2. [FormOf(a, b, c, d, e, f) EXCEPT !.cart = x] = FormOf(a, b, x, d, e, f)
  BY DEF FormOf
<1> QED BY <1>1, <1>2, FormParts

LEMMA WritePrivacy ==
  ASSUME NEW a, NEW b, NEW c, NEW d, NEW e, NEW f, NEW x
  PROVE  [FormOf(a, b, c, d, e, f) EXCEPT !.privacy = x] = FormOf(a, b, c, x, e, f)
  BY DEF FormOf

LEMMA PrivacyWrites ==
  ASSUME NEW v, IsForm(v), NEW x, NEW q, q = [v EXCEPT !.privacy = x]
  PROVE  IsForm(q)
<1>1. PICK a, b, c, d, e, f : v = FormOf(a, b, c, d, e, f)
  BY FormIs
<1>2. q = FormOf(a, b, c, x, e, f)
  BY <1>1, WritePrivacy
<1> QED BY <1>2, FormParts

\* What a form shows once its first step failed.
WithErrorOf(v, key, shared) == [v EXCEPT !.error = key, !.shared = shared]

LEMMA ErrorWrites ==
  ASSUME NEW v, IsForm(v), NEW x, NEW y
  PROVE  IsForm(WithErrorOf(v, x, y)) /\ WithErrorOf(v, x, y).privacy = v.privacy
<1>1. PICK a, b, c, d, e, f : v = FormOf(a, b, c, d, e, f)
  BY FormIs
<1>2. [FormOf(a, b, c, d, e, f) EXCEPT !.error = x] = FormOf(a, b, c, d, x, f)
  BY DEF FormOf
<1>3. [FormOf(a, b, c, d, x, f) EXCEPT !.shared = y] = FormOf(a, b, c, d, x, y)
  BY DEF FormOf
<1>4. WithErrorOf(v, x, y) = [[v EXCEPT !.error = x] EXCEPT !.shared = y]
  BY DEF WithErrorOf
<1>5. WithErrorOf(v, x, y) = FormOf(a, b, c, d, x, y)
  BY <1>1, <1>2, <1>3, <1>4
<1> QED BY <1>1, <1>5, FormParts

CardWith(of, dep, cart, amount, prices, error) ==
    [page |-> "card", of |-> of, dep |-> dep, cart |-> cart, amount |-> amount,
     prices |-> prices, error |-> error]

LEMMA CardParts ==
  ASSUME NEW a, NEW b, NEW c, NEW d, NEW e, NEW f, NEW v,
         v = CardWith(a, b, c, d, e, f)
  PROVE  /\ IsCard(v) /\ v.page = "card" /\ v.of = a /\ v.dep = b /\ v.cart = c
         /\ v.amount = d /\ v.prices = e /\ v.error = f
  BY DEF CardWith, IsCard

WithError(v, x) == [v EXCEPT !.error = x]

LEMMA CardErrorWrites ==
  ASSUME NEW v, IsCard(v), NEW x
  PROVE  /\ IsCard(WithError(v, x)) /\ WithError(v, x).page = "card"
         /\ WithError(v, x).of = v.of /\ WithError(v, x).dep = v.dep
         /\ WithError(v, x).cart = v.cart /\ WithError(v, x).amount = v.amount
<1>1. PICK a, b, c, d, e, f : v = CardWith(a, b, c, d, e, f)
  BY DEF IsCard, CardWith
<1>2. [CardWith(a, b, c, d, e, f) EXCEPT !.error = x] = CardWith(a, b, c, d, e, x)
  BY DEF CardWith
<1>3. WithError(v, x) = CardWith(a, b, c, d, e, x)
  BY <1>1, <1>2 DEF WithError
<1> QED BY <1>1, <1>3, CardParts

\* A card form that shows an error is the card form it was.
LEMMA CardErrorOf ==
  ASSUME NEW t, NEW v, IsCard(v), CardOf(t, v), NEW x
  PROVE  IsCard(WithError(v, x)) /\ CardOf(t, WithError(v, x))
            /\ WithError(v, x).page = "card"
  BY CardErrorWrites DEF CardOf, Agreed

CalendarOf(seats, month, selected) ==
    [page |-> "calendar", seats |-> seats, month |-> month, selected |-> selected]

LEMMA CalendarParts ==
  ASSUME NEW a, NEW b, NEW c, NEW v, v = CalendarOf(a, b, c)
  PROVE  /\ IsCalendar(v) /\ v.page = "calendar" /\ v.seats = a /\ v.month = b
         /\ v.selected = c
  BY DEF CalendarOf, IsCalendar

\* What goTo shows.
Turned(v, m, d) == [v EXCEPT !.month = m, !.selected = d]

LEMMA DayWrites ==
  ASSUME NEW v, IsCalendar(v), NEW d
  PROVE  [v EXCEPT !.selected = d] = CalendarOf(v.seats, v.month, d)
<1>1. PICK a, b, c : v = CalendarOf(a, b, c)
  BY DEF IsCalendar, CalendarOf
<1>2. v.seats = a /\ v.month = b
  BY <1>1, CalendarParts
<1>3. [CalendarOf(a, b, c) EXCEPT !.selected = d] = CalendarOf(a, b, d)
  BY DEF CalendarOf
<1> QED BY <1>1, <1>2, <1>3

LEMMA MonthWrites ==
  ASSUME NEW v, IsCalendar(v), NEW m, NEW d
  PROVE  Turned(v, m, d) = CalendarOf(v.seats, m, d)
<1>1. PICK a, b, c : v = CalendarOf(a, b, c)
  BY DEF IsCalendar, CalendarOf
<1>2. v.seats = a
  BY <1>1, CalendarParts
<1>3. [CalendarOf(a, b, c) EXCEPT !.month = m] = CalendarOf(a, m, c)
  BY DEF CalendarOf
<1>4. [CalendarOf(a, m, c) EXCEPT !.selected = d] = CalendarOf(a, m, d)
  BY DEF CalendarOf
<1>5. Turned(v, m, d) = [[v EXCEPT !.month = m] EXCEPT !.selected = d]
  BY DEF Turned
<1> QED BY <1>1, <1>2, <1>3, <1>4, <1>5

LEMMA TabShapes ==
  ASSUME TabsInv, NEW t \in Tabs
  PROVE  /\ captcha \in [Tabs -> Widgets] /\ captcha[t] \in Widgets
         /\ view = [u \in Tabs |-> view[u]] /\ req = [u \in Tabs |-> req[u]]
         /\ TabOK(t) /\ ViewOK(t) /\ ReqOK(t) /\ TokenOK(t)
  BY DEF TabsInv, Shapes, Widgets, TabOK

\* Only a form and a card ask the server for anything.
LEMMA NoRequestThere ==
  ASSUME TabsInv, NEW t \in Tabs, view[t].page \notin {"form", "card"}
  PROVE  req[t] = NoRequest
  BY TabShapes DEF ReqOK, FirstStep, SecondStep

LEMMA FreshToken ==
  ASSUME TabsInv, NEW t \in Tabs, req[t] = NoRequest, CaptchaOn,
         view[t].page = "form", view[t].privacy
  PROVE  captcha[t].waiting \/ captcha[t].token \in {"unused", "sent"}
  BY TabShapes DEF TokenOK

LEMMA NoCaptchas ==
  /\ NoCaptcha \in Widgets /\ Asking \in Widgets /\ Asking.waiting = TRUE
  BY DEF NoCaptcha, Asking, Widgets

LEMMA PickTicketsInv ==
  ASSUME TabsInv, NEW t \in Tabs, PickTickets(t) PROVE TabsInv'
<1>1. PICK cart : Shows(t, [view[t] EXCEPT !.cart = cart])
  BY DEF PickTickets
<1> PICK q : q = [view[t] EXCEPT !.cart = cart]
  OBVIOUS
<1>2. IsForm(view[t]) /\ view[t].page = "form" /\ req[t] = NoRequest
  BY TabShapes, FormPage DEF PickTickets, OnForm
<1>3. IsForm(q) /\ q.privacy = view[t].privacy
  BY <1>2, CartWrites
<1>4. UNCHANGED <<mode, req, captcha, tries, booking, accepted, open>>
  BY DEF PickTickets, site, session
<1> QED BY <1>1, <1>2, <1>3, <1>4, ShowsInv, FreshToken, TabShapes

LEMMA AcceptPrivacyInv ==
  ASSUME TabsInv, NEW t \in Tabs, AcceptPrivacy(t) PROVE TabsInv'
<1> PICK q : q = [view[t] EXCEPT !.privacy = TRUE]
  OBVIOUS
<1>1. IsForm(view[t]) /\ req[t] = NoRequest /\ Shows(t, q)
  BY TabShapes, FormPage DEF AcceptPrivacy, OnForm
<1>2. IsForm(q)
  BY <1>1, PrivacyWrites
<1>3. UNCHANGED <<mode, req, tries, booking, accepted, open>>
  BY DEF AcceptPrivacy, site, session
<1>4. /\ captcha' \in [Tabs -> Widgets]
      /\ \A u \in Tabs \ {t} : captcha'[u] = captcha[u]
      /\ CaptchaOn => captcha'[t].waiting
  BY TabShapes, NoCaptchas DEF AcceptPrivacy
<1> QED BY <1>1, <1>2, <1>3, <1>4, ShowsInv

LEMMA TokenEventInv ==
  ASSUME TabsInv, NEW t \in Tabs, TokenEvent(t) PROVE TabsInv'
<1>1. UNCHANGED <<view, mode, req, tries, booking, accepted, open>>
  BY DEF TokenEvent, site, session
<1>2. PICK c \in {[token |-> "unused", waiting |-> FALSE], Asking} :
         captcha' = [captcha EXCEPT ![t] = c]
  BY DEF TokenEvent
<1>3. c \in Widgets /\ (c.waiting \/ c.token = "unused")
  <2>1. CASE c = [token |-> "unused", waiting |-> FALSE]
    BY <2>1 DEF Widgets
  <2>2. CASE c = Asking
    BY <2>2, NoCaptchas
  <2> QED BY <2>1, <2>2
<1>4. /\ captcha' \in [Tabs -> Widgets] /\ captcha'[t] = c
      /\ \A u \in Tabs \ {t} : captcha'[u] = captcha[u]
  BY <1>2, <1>3, TabShapes
<1>5. TabOK(t)'
  <2>1. TokenOK(t)'
    BY <1>3, <1>4 DEF TokenOK
  <2>2. ViewOK(t)' /\ ReqOK(t)'
    BY <1>1, TabShapes
       DEF ViewOK, ReqOK, CardOf, Mine, Agreed, FirstStep, SecondStep, Deferred
  <2> QED BY <2>1, <2>2 DEF TabOK
<1>6. \A a \in Submissions : BookOK(a)'
  BY <1>1 DEF TabsInv, BookOK, Agreed
<1>7. Shapes'
  BY <1>1, <1>4 DEF TabsInv, Shapes, Submissions, Widgets
<1> QED BY <1>1, <1>4, <1>5, <1>6, <1>7, OneTabInv DEF OneTab

LEMMA RefuseCardInv ==
  ASSUME TabsInv, NEW t \in Tabs, RefuseCard(t) PROVE TabsInv'
<1>1. PICK key : Shows(t, WithError(view[t], key))
  BY DEF RefuseCard, WithError
<1>2. IsCard(view[t]) /\ CardOf(t, view[t]) /\ req[t] = NoRequest
  BY TabShapes, CardPage DEF RefuseCard, OnCard
<1>3. UNCHANGED <<mode, req, captcha, tries, booking, accepted, open>>
  BY DEF RefuseCard, site, session
<1> QED BY <1>1, <1>2, <1>3, CardErrorOf, ShowsInv, TabShapes

LEMMA RestartInv ==
  ASSUME TabsInv, NEW t \in Tabs, Restart(t) PROVE TabsInv'
<1>1. req[t] = NoRequest
  BY DEF Restart, OnCard
<1>2. UNCHANGED <<mode, req, captcha, tries, booking, accepted, open>>
  BY DEF Restart, site, session
<1>3. \/ Shows(t, Notice("sales-not-enabled"))
      \/ Shows(t, Form(view[t].dep, view[t].prices))
  BY DEF Restart
<1>4. Notice("sales-not-enabled").page = "notice"
  BY DEF Notice
<1>5. \A d, prices : /\ IsForm(Form(d, prices)) /\ ~Form(d, prices).privacy
  BY DEF Form, IsForm
<1> QED BY <1>1, <1>2, <1>3, <1>4, <1>5, ShowsInv, TabShapes

LEMMA WidgetEndsInv ==
  ASSUME TabsInv, NEW t \in Tabs, WidgetEnds(t) PROVE TabsInv'
<1>1. req[t] = NoRequest
  BY NoRequestThere DEF WidgetEnds
<1>2. UNCHANGED <<mode, req, captcha, tries, booking, accepted, open>>
  BY DEF WidgetEnds, site
<1>3. PICK v : Shows(t, v) /\ v.page \in {"success", "cancel"}
  BY DEF WidgetEnds, Success
<1> QED BY <1>1, <1>2, <1>3, ShowsInv, TabShapes

LEMMA LeaveInv ==
  ASSUME TabsInv, NEW t \in Tabs, Leave(t) PROVE TabsInv'
<1>1. req[t] = NoRequest /\ Shows(t, Away) /\ Away.page = "away"
  BY DEF Leave, Away
<1>2. UNCHANGED <<mode, req, tries, booking, accepted, open>>
  BY DEF Leave, site, session
<1>3. /\ captcha' \in [Tabs -> Widgets]
      /\ \A u \in Tabs \ {t} : captcha'[u] = captcha[u]
  BY TabShapes, NoCaptchas DEF Leave
<1> QED BY <1>1, <1>2, <1>3, ShowsInv

LEMMA ReceiveFirstInv ==
  ASSUME TabsInv, NEW t \in Tabs, ReceiveFirst(t) PROVE TabsInv'
<1> PICK r, v : r = req[t] /\ v = view[t]
  OBVIOUS
<1>1. /\ r.step = "answer" /\ r # NoRequest /\ v.page = "form"
      /\ req' = [req EXCEPT ![t] = NoRequest]
      /\ UNCHANGED <<mode, tries, booking, accepted, open>>
  BY DEF ReceiveFirst, At, NoRequest, site
<1>2. IsForm(v) /\ FirstStep(t, r)
  <2>1. ReqOK(t) /\ TabOK(t)
    BY TabShapes
  <2>2. IsForm(v)
    BY <1>1, <2>1, FormPage
  <2>3. ~SecondStep(t, r)
    BY <1>1 DEF SecondStep
  <2> QED BY <1>1, <2>1, <2>2, <2>3 DEF ReqOK
<1>3. CASE r.key # "none"
  <2> PICK q : q = WithErrorOf(v, r.key, r.shared)
    OBVIOUS
  <2>1. Shows(t, q)
    BY <1>1, <1>3 DEF ReceiveFirst, WithErrorOf
  <2>2. IsForm(q) /\ q.privacy = v.privacy
    BY <1>2, ErrorWrites
  <2>3. captcha' # captcha =>
           captcha' = [captcha EXCEPT ![t] = IF CaptchaOn THEN Asking ELSE captcha[t]]
    BY <1>3, TabShapes DEF ReceiveFirst
  <2>4. captcha' = captcha => captcha[t] = Asking \/ r.shared \/ ~CaptchaOn
    <3>1. \/ captcha' = [captcha EXCEPT ![t] = IF CaptchaOn THEN Asking ELSE captcha[t]]
          \/ r.shared
      BY <1>3 DEF ReceiveFirst
    <3>2. CASE CaptchaOn
      <4>1. captcha' = [captcha EXCEPT ![t] = Asking] \/ r.shared
        BY <3>1, <3>2
      <4> QED BY <4>1, TabShapes
    <3> QED BY <3>2
  <2>6. /\ captcha' \in [Tabs -> Widgets]
        /\ \A u \in Tabs \ {t} : captcha'[u] = captcha[u]
        /\ CaptchaOn => captcha'[t] = Asking \/ (captcha' = captcha /\ r.shared)
    <3>1. CASE CaptchaOn /\ captcha' # captcha
      <4>1. captcha' = [captcha EXCEPT ![t] = Asking]
        BY <2>3, <3>1
      <4> QED BY <4>1, TabShapes, NoCaptchas
    <3>2. CASE ~CaptchaOn /\ captcha' # captcha
      <4>1. captcha' = [captcha EXCEPT ![t] = captcha[t]]
        BY <2>3, <3>2
      <4> QED BY <3>2, <4>1, TabShapes
    <3>3. CASE captcha' = captcha
      BY <2>4, <3>3, TabShapes
    <3> QED BY <3>1, <3>2, <3>3
  <2>5. CaptchaOn /\ q.privacy =>
           captcha'[t].waiting \/ captcha'[t].token \in {"unused", "sent"}
    <3>1. r.shared /\ CaptchaOn /\ v.privacy =>
             captcha[t].waiting \/ captcha[t].token \in {"unused", "sent"}
      BY <1>1, TabShapes DEF TokenOK
    <3> QED BY <2>2, <2>6, <3>1, NoCaptchas
  <2> QED BY <1>1, <2>1, <2>2, <2>6, <2>5, EndsInv
<1>4. CASE r.key = "none"
  <2>1. /\ captcha' \in [Tabs -> Widgets]
        /\ \A u \in Tabs \ {t} : captcha'[u] = captcha[u]
    <3>1. captcha' = [captcha EXCEPT ![t] = NoCaptcha]
      BY <1>4 DEF ReceiveFirst
    <3> QED BY <3>1, TabShapes, NoCaptchas
  <2>2. CASE Deferred
    <3>1. PICK p : Shows(t, CardWith(r.of, r.dep, r.cart, r.amount, p, "none"))
      BY <1>4, <2>2 DEF ReceiveFirst, CardWith
    <3> PICK q : q = CardWith(r.of, r.dep, r.cart, r.amount, p, "none")
      OBVIOUS
    <3>2. IsCard(q) /\ q.page = "card" /\ q.of = r.of
      BY CardParts
    <3>3. CardOf(t, q)
      BY <1>2, <2>2, <3>2 DEF CardOf, FirstStep
    <3> QED BY <1>1, <2>1, <3>1, <3>2, <3>3, EndsInv
  <2>3. CASE ~Deferred
    <3>1. Shows(t, [page |-> "widget", of |-> r.of])
      BY <1>4, <2>3 DEF ReceiveFirst
    <3>2. [page |-> "widget", of |-> r.of].page = "widget"
      OBVIOUS
    <3> QED BY <1>1, <2>1, <3>1, <3>2, EndsInv
  <2> QED BY <2>2, <2>3
<1> QED BY <1>3, <1>4

LEMMA ReceiveSecondInv ==
  ASSUME TabsInv, NEW t \in Tabs, ReceiveSecond(t) PROVE TabsInv'
<1>1. /\ view[t].page = "card" /\ req' = [req EXCEPT ![t] = NoRequest]
      /\ UNCHANGED <<mode, captcha, tries, booking, accepted, open>>
  BY DEF ReceiveSecond, site, session
<1>2. IsCard(view[t]) /\ CardOf(t, view[t])
  BY <1>1, TabShapes, CardPage
<1>3. Shows(t, Success(req[t].of)) \/ Shows(t, WithError(view[t], req[t].key))
  BY DEF ReceiveSecond, WithError
<1>4. Success(req[t].of).page = "success"
  BY DEF Success
<1> QED BY <1>1, <1>2, <1>3, <1>4, CardErrorOf, EndsInv, TabShapes

LEMMA LoseAnswerInv ==
  ASSUME TabsInv, NEW t \in Tabs, LoseAnswer(t) PROVE TabsInv'
<1>1. /\ req' = [req EXCEPT ![t] = NoRequest]
      /\ UNCHANGED <<mode, tries, booking, accepted, open>>
  BY DEF LoseAnswer, site, session
<1>2. /\ captcha' \in [Tabs -> Widgets]
      /\ \A u \in Tabs \ {t} : captcha'[u] = captcha[u]
  BY TabShapes, NoCaptchas DEF LoseAnswer
<1>3. \/ view[t].page = "card" /\ Shows(t, WithError(view[t], "error-generic"))
      \/ Shows(t, Away)
  BY DEF LoseAnswer, WithError
<1>4. Away.page = "away"
  BY DEF Away
<1>5. view[t].page = "card" => IsCard(view[t]) /\ CardOf(t, view[t])
  BY TabShapes, CardPage
<1> QED BY <1>1, <1>2, <1>3, <1>4, <1>5, CardErrorOf, EndsInv

LEMMA SubmitInv ==
  ASSUME TabsInv, NEW t \in Tabs, Submit(t) PROVE TabsInv'
<1> PICK v, n : v = view[t] /\ n = tries[t] + 1
  OBVIOUS
<1> PICK a : a = <<t, n>>
  OBVIOUS
<1> PICK q : q = Request("gates", a, v.dep, v.cart, Total(v), "none", FALSE)
  OBVIOUS
<1>1. tries \in [Tabs -> 0..MaxTries] /\ MaxTries \in Nat /\ tries[t] < MaxTries
  BY CheckoutTabsAssumption DEF TabsInv, Shapes, Submit
<1>2. n \in 1..MaxTries /\ a \in Submissions /\ a[1] = t /\ a[2] = n /\ n > tries[t]
  BY <1>1 DEF Submissions
<1>3. /\ IsRequest(q) /\ q.step = "gates" /\ q.of = a /\ q.dep = v.dep
      /\ q.cart = v.cart /\ q.amount = Total(v)
  BY DEF Request, IsRequest
<1>4. /\ v.page = "form" /\ UNCHANGED <<view, mode, booking, open>>
      /\ tries' = [tries EXCEPT ![t] = n]
      /\ req' = [req EXCEPT ![t] = q]
      /\ captcha' = [captcha EXCEPT ![t].token = IF CaptchaOn THEN "sent" ELSE @]
      /\ IF Deferred THEN accepted' = accepted
         ELSE accepted' = [accepted EXCEPT ![a] =
                 [status |-> "accepted", dep |-> v.dep, cart |-> v.cart,
                  amount |-> Total(v)]]
  BY DEF Submit, CanSubmit, OnForm, Accepts, site, Request
<1>5. IsForm(v) /\ accepted[a] = Nothing /\ booking[a] = Nothing
  <2>1. accepted[a] = Nothing
    BY <1>2 DEF TabsInv, BookOK
  <2>2. booking[a] = Nothing
    <3>1. ~Agreed(a, booking[a])
      BY <2>1 DEF Agreed, Nothing
    <3> QED BY <1>2, <3>1 DEF TabsInv, BookOK
  <2> QED BY <1>4, <2>1, <2>2, TabShapes, FormPage
<1>6. /\ req' = [u \in Tabs |-> req'[u]] /\ req'[t] = q
      /\ \A u \in Tabs \ {t} : req'[u] = req[u]
  BY <1>4, TabShapes, OneEntry
<1>7. /\ tries' \in [Tabs -> 0..MaxTries] /\ tries'[t] = n
      /\ \A u \in Tabs \ {t} : tries'[u] = tries[u]
  BY <1>1, <1>2, <1>4
<1>8. /\ accepted' = [b \in Submissions |-> accepted'[b]]
      /\ \A b \in Submissions : b # a => accepted'[b] = accepted[b]
      /\ IF Deferred THEN accepted'[a] = Nothing
         ELSE accepted'[a] = [status |-> "accepted", dep |-> v.dep, cart |-> v.cart,
                              amount |-> Total(v)]
  BY <1>2, <1>4, <1>5 DEF TabsInv, Shapes
<1>9. /\ captcha' \in [Tabs -> Widgets]
      /\ \A u \in Tabs \ {t} : captcha'[u] = captcha[u]
      /\ CaptchaOn => captcha'[t].token = "sent"
  <2> PICK c \in Widgets : c = captcha[t]
    BY TabShapes
  <2> PICK token \in {"none", "unused", "sent", "spent"} :
           token = IF CaptchaOn THEN "sent" ELSE c.token
    BY DEF Widgets
  <2>1. [c EXCEPT !.token = token] = [token |-> token, waiting |-> c.waiting]
    BY TokenWrites
  <2>2. captcha' = [captcha EXCEPT ![t] = [c EXCEPT !.token = token]]
    BY <1>4, TabShapes
  <2>3. captcha' = [captcha EXCEPT ![t] = [token |-> token, waiting |-> c.waiting]]
    BY <2>1, <2>2
  <2>4. [token |-> token, waiting |-> c.waiting] \in Widgets
    BY DEF Widgets
  <2> QED BY <2>3, <2>4, TabShapes
<1>10. ReqOK(t)'
  <2>1. a \in Mine(t)'
    BY <1>1, <1>2, <1>7 DEF Mine
  <2>2. ~Deferred => Agreed(a, q)'
    BY <1>3, <1>8 DEF Agreed
  <2>3. FirstStep(t, req[t])'
    BY <1>3, <1>4, <1>6, <1>8, <2>1, <2>2 DEF FirstStep, Deferred
  <2> QED BY <1>3, <1>6, <2>3 DEF ReqOK
<1>11. ViewOK(t)' /\ TokenOK(t)'
  BY <1>4, <1>5, <1>9 DEF ViewOK, TokenOK, CaptchaOn
<1>12. \A b \in Submissions : b[1] = t => BookOK(b)'
  <2> SUFFICES ASSUME NEW b \in Submissions, b[1] = t PROVE BookOK(b)'
    OBVIOUS
  <2>1. CASE b = a
    BY <1>2, <1>4, <1>5, <1>7, <2>1 DEF BookOK
  <2>2. CASE b # a
    <3>1. b[2] > tries'[b[1]] => b[2] > tries[b[1]]
      <4>1. b[2] \in Int /\ tries[t] \in Int
        BY <1>1 DEF Submissions
      <4> QED BY <1>7, <4>1
    <3> QED BY <1>4, <1>8, <2>2, <3>1 DEF TabsInv, BookOK, Agreed
  <2> QED BY <2>1, <2>2
<1>13. Shapes'
  BY <1>4, <1>6, <1>7, <1>8, <1>9 DEF TabsInv, Shapes, Submissions, Widgets
<1>14. \A b \in Submissions : b[1] # t => accepted'[b] = accepted[b]
  BY <1>2, <1>8
<1> QED BY <1>4, <1>6, <1>7, <1>9, <1>10, <1>11, <1>12, <1>13, <1>14, OneTabInv
        DEF OneTab, TabOK

LEMMA SubmitCardInv ==
  ASSUME TabsInv, NEW t \in Tabs, SubmitCard(t) PROVE TabsInv'
<1> PICK v : v = view[t]
  OBVIOUS
<1> PICK a : a = v.of
  OBVIOUS
<1> PICK q : q = Request("complete", a, v.dep, v.cart, v.amount, "none", FALSE)
  OBVIOUS
<1>1. /\ IsRequest(q) /\ q.step = "complete" /\ q.of = a /\ q.dep = v.dep
      /\ q.cart = v.cart /\ q.amount = v.amount
  BY DEF Request, IsRequest
<1>2. /\ v.page = "card" /\ UNCHANGED <<view, mode, captcha, tries, booking, open>>
      /\ req' = [req EXCEPT ![t] = q]
      /\ accepted' = [accepted EXCEPT ![a] =
              [status |-> "accepted", dep |-> v.dep, cart |-> v.cart,
               amount |-> v.amount]]
  BY DEF SubmitCard, OnCard, Accepts, site, Request
<1>3. IsCard(v) /\ a \in Mine(t) /\ (accepted[a] = Nothing \/ Agreed(a, v))
  BY <1>2, TabShapes, CardPage DEF CardOf
<1>4. a \in Submissions /\ a[1] = t /\ a[2] <= tries[t]
  BY <1>3, MineIsMine DEF TabsInv
<1>5. /\ req' = [u \in Tabs |-> req'[u]] /\ req'[t] = q
      /\ \A u \in Tabs \ {t} : req'[u] = req[u]
  BY <1>2, TabShapes, OneEntry
<1>6. /\ accepted' = [b \in Submissions |-> accepted'[b]]
      /\ \A b \in Submissions : b # a => accepted'[b] = accepted[b]
      /\ accepted'[a] = [status |-> "accepted", dep |-> v.dep, cart |-> v.cart,
                         amount |-> v.amount]
  BY <1>2, <1>4 DEF TabsInv, Shapes
<1>7. Mine(t)' = Mine(t)
  BY <1>2 DEF Mine
<1>8. Agreed(a, v)' /\ Agreed(a, q)'
  BY <1>1, <1>2, <1>6 DEF Agreed
<1>9. ReqOK(t)' /\ TokenOK(t)'
  <2>1. SecondStep(t, req[t])'
    BY <1>1, <1>2, <1>5, <1>8 DEF SecondStep
  <2> QED BY <1>1, <1>2, <1>5, <2>1 DEF ReqOK, TokenOK
<1>10. ViewOK(t)'
  <2>1. CardOf(t, view[t])'
    BY <1>2, <1>3, <1>7, <1>8 DEF CardOf
  <2> QED BY <1>2, <1>3, <2>1 DEF ViewOK
<1>11. \A b \in Submissions : b[1] = t => BookOK(b)'
  <2> SUFFICES ASSUME NEW b \in Submissions PROVE BookOK(b)'
    OBVIOUS
  <2>1. CASE b = a
    <3>1. BookOK(a)
      BY <1>4 DEF TabsInv
    <3>2. booking[a] = Nothing \/ accepted'[a] = accepted[a]
      <4>1. CASE accepted[a] = Nothing
        <5>1. ~Agreed(a, booking[a])
          BY <4>1 DEF Agreed, Nothing
        <5> QED BY <3>1, <5>1 DEF BookOK
      <4>2. CASE Agreed(a, v)
        BY <1>6, <4>2 DEF Agreed
      <4> QED BY <1>3, <4>1, <4>2
    <3>3. a[2] <= tries[t] /\ a[2] \in Int /\ tries[t] \in Int
      BY <1>4, CheckoutTabsAssumption DEF Submissions, TabsInv, Shapes
    <3>4. ~(a[2] > tries[a[1]])
      BY <1>4, <3>3
    <3>5. BookOK(a)'
      BY <1>2, <3>1, <3>2, <3>4 DEF BookOK, Agreed
    <3> QED BY <2>1, <3>5
  <2>2. CASE b # a
    BY <1>2, <1>6, <2>2 DEF TabsInv, BookOK, Agreed
  <2> QED BY <2>1, <2>2
<1>12. Shapes'
  BY <1>2, <1>5, <1>6 DEF TabsInv, Shapes, Submissions
<1>13. \A b \in Submissions : b[1] # t => accepted'[b] = accepted[b]
  BY <1>4, <1>6
<1> QED BY <1>2, <1>5, <1>9, <1>10, <1>11, <1>12, <1>13, OneTabInv DEF OneTab, TabOK

LEMMA WriteStatus ==
  ASSUME NEW b,
         b = [status |-> b.status, dep |-> b.dep, cart |-> b.cart, amount |-> b.amount],
         NEW x, NEW q, q = [b EXCEPT !.status = x]
  PROVE  q = [status |-> x, dep |-> b.dep, cart |-> b.cart, amount |-> b.amount]
  OBVIOUS

LEMMA BookingEndsInv ==
  ASSUME TabsInv, NEW a \in Submissions, BookingEnds(a) PROVE TabsInv'
<1> PICK t \in Tabs : t = a[1]
  BY DEF Submissions
<1> PICK b : b = booking[a]
  OBVIOUS
<1>1. UNCHANGED <<view, mode, req, captcha, tries, accepted, open>>
  BY DEF BookingEnds, site
<1>2. PICK status : booking' = [booking EXCEPT ![a] = [b EXCEPT !.status = status]]
  BY DEF BookingEnds
<1>3. /\ b = [status |-> b.status, dep |-> b.dep, cart |-> b.cart, amount |-> b.amount]
      /\ Agreed(a, b)
  <2>1. b # Nothing
    BY DEF BookingEnds, Live, Nothing
  <2> QED BY <2>1 DEF TabsInv, BookOK
<1> PICK q : q = [b EXCEPT !.status = status]
  OBVIOUS
<1>4. q = [status |-> status, dep |-> b.dep, cart |-> b.cart, amount |-> b.amount]
  BY <1>3, WriteStatus
<1>5. /\ booking' = [o \in Submissions |-> booking'[o]] /\ booking'[a] = q
      /\ \A o \in Submissions : o # a => booking'[o] = booking[o]
  BY <1>2 DEF TabsInv, Shapes
<1>6. BookOK(a)'
  <2>1. Agreed(a, q)'
    BY <1>1, <1>3, <1>4 DEF Agreed
  <2>2. a[2] > tries'[a[1]] => accepted'[a] = Nothing
    BY <1>1 DEF TabsInv, BookOK
  <2>3. q = [status |-> q.status, dep |-> q.dep, cart |-> q.cart, amount |-> q.amount]
    BY <1>4
  <2> QED BY <1>5, <2>1, <2>2, <2>3 DEF BookOK
<1>7. \A o \in Submissions : o # a => BookOK(o)'
  BY <1>1, <1>5 DEF TabsInv, BookOK, Agreed
<1>8. TabOK(t)'
  <2>1. Mine(t)' = Mine(t)
    BY <1>1 DEF Mine
  <2> QED BY <1>1, <2>1, TabShapes DEF TabOK, ViewOK, CardOf, Agreed, ReqOK, FirstStep,
          SecondStep, TokenOK, Deferred, CaptchaOn
<1>9. Shapes'
  BY <1>1, <1>5 DEF TabsInv, Shapes, Submissions
<1> QED BY <1>1, <1>5, <1>6, <1>7, <1>8, <1>9, OneTabInv DEF OneTab

\* What happens meanwhile, and the holds and the cookie, disturb no tab.
LEMMA MeanwhileInv ==
  ASSUME TabsInv, UNCHANGED <<view, mode, req, captcha, tries, booking, accepted>>,
         open' \subseteq open
  PROVE  TabsInv'
<1>1. ASSUME NEW t \in Tabs PROVE TabOK(t)'
  <2>1. Mine(t)' = Mine(t)
    BY DEF Mine
  <2> QED BY <2>1, TabShapes DEF TabOK, ViewOK, CardOf, Agreed, ReqOK, FirstStep,
          SecondStep, TokenOK, Deferred, CaptchaOn
<1>2. \A a \in Submissions : BookOK(a)'
  BY DEF TabsInv, BookOK, Agreed
<1>3. Shapes'
  BY DEF TabsInv, Shapes, Submissions
<1> QED BY <1>1, <1>2, <1>3 DEF TabsInv

-----------------------------------------------------------------------------
(* The calendar.                                                           *)

LEMMA SeatsOfYear ==
  ASSUME NEW seats, DOMAIN seats \subseteq Outings
  PROVE  BookableDays(seats) \subseteq Year
  BY TourSiteAssumption DEF BookableDays

\* The first and the last month are those of the first and the last day.
LEMMA MonthsOfDays ==
  ASSUME NEW seats, DOMAIN seats \subseteq Outings, BookableDays(seats) # {}
  PROVE  /\ FirstMonth(seats) \in Int /\ LastMonth(seats) \in Int
         /\ \A day \in BookableDays(seats) :
               /\ MonthOf(day) \in Int /\ FirstMonth(seats) <= MonthOf(day)
               /\ MonthOf(day) <= LastMonth(seats)
<1> PICK days : days = BookableDays(seats)
  OBVIOUS
<1>1. days \in SUBSET Year /\ days # {}
  BY SeatsOfYear
<1>2. /\ Min(days) \in days /\ Max(days) \in days
      /\ \A day \in days : Min(days) <= day /\ day <= Max(days)
  BY <1>1, DayBounds
<1>3. PICK first, last : first = Min(days) /\ last = Max(days)
  OBVIOUS
<1>4. \A day \in days : /\ MonthOf(first) \in Int /\ MonthOf(last) \in Int
                        /\ MonthOf(day) \in Int
                        /\ MonthOf(first) <= MonthOf(day)
                        /\ MonthOf(day) <= MonthOf(last)
  BY <1>1, <1>2, <1>3, MonthsFollow
<1> QED BY <1>1, <1>3, <1>4 DEF FirstMonth, LastMonth

\* The page opens on the first day with seats.
LEMMA CalendarOpens ==
  ASSUME NEW seats, DOMAIN seats \subseteq Outings, BookableDays(seats) # {},
         NEW v, v = Calendar(seats)
  PROVE  IsCalendar(v) /\ InReach(v)
<1> PICK first : first = Min(BookableDays(seats))
  OBVIOUS
<1>1. first \in BookableDays(seats) /\ first \in Year
  BY SeatsOfYear, DayBounds
<1>2. v = CalendarOf(seats, FirstMonth(seats), first)
  BY DEF Calendar, CalendarOf
<1>3. IsCalendar(v) /\ v.seats = seats /\ v.month = FirstMonth(seats)
        /\ v.selected = first
  BY <1>2, CalendarParts
<1>4. first \in DaysOfMonth(FirstMonth(seats))
  BY <1>1 DEF DaysOfMonth, FirstMonth
<1>5. v.month \in FirstMonth(seats) .. LastMonth(seats)
  BY <1>1, <1>3, MonthsOfDays
<1> QED BY <1>1, <1>3, <1>4, <1>5 DEF InReach

LEMMA OpenTourInv ==
  ASSUME TabsInv, NEW t \in Tabs, OpenTour(t),
         UNCHANGED <<mode, req, captcha, tries, booking, accepted, open>>
  PROVE  TabsInv'
<1>1. req[t] = NoRequest
  BY NoRequestThere DEF OpenTour
<1>2. PICK cutoff \in CutoffsRead :
         LET seats == [d \in Upcoming(cutoff) |-> Max({0, free[d]})]
         IN  \/ \E text : Shows(t, Notice(text))
             \/ BookableDays(seats) # {} /\ Shows(t, Calendar(seats))
  BY DEF OpenTour
<1> PICK seats : seats = [d \in Upcoming(cutoff) |-> Max({0, free[d]})]
  OBVIOUS
<1>3. DOMAIN seats \subseteq Outings
  BY DEF Upcoming, TabsInv, Shapes
<1>4. CASE \E text : Shows(t, Notice(text))
  <2> PICK v : Shows(t, v) /\ v.page = "notice"
    BY <1>4 DEF Notice
  <2> QED BY <1>1, ShowsInv, TabShapes
<1>5. CASE BookableDays(seats) # {} /\ Shows(t, Calendar(seats))
  <2> PICK v : v = Calendar(seats)
    OBVIOUS
  <2>1. IsCalendar(v) /\ InReach(v) /\ v.page = "calendar"
    BY <1>3, <1>5, CalendarOpens DEF Calendar
  <2> QED BY <1>1, <1>5, <2>1, ShowsInv, TabShapes
<1> QED BY <1>2, <1>4, <1>5

LEMMA GoToInv ==
  ASSUME TabsInv, NEW t \in Tabs, GoTo(t),
         UNCHANGED <<mode, req, captcha, tries, booking, accepted, open>>
  PROVE  TabsInv'
<1> PICK v : v = view[t]
  OBVIOUS
<1>1. v.page = "calendar" /\ IsCalendar(v) /\ InReach(v) /\ req[t] = NoRequest
  BY CalendarPage, TabShapes, NoRequestThere DEF GoTo
<1>2. PICK m : /\ m = v.month - 1 \/ m = v.month + 1
               /\ m < v.month => v.month > FirstMonth(v.seats)
               /\ m > v.month => v.month < LastMonth(v.seats)
               /\ Shows(t, [v EXCEPT !.month = m,
                                     !.selected = FirstBookable(v.seats, m)])
  BY DEF GoTo, CanGoBack, CanGoForward
<1> PICK seats, month, d :
       seats = v.seats /\ month = v.month /\ d = FirstBookable(seats, m)
  OBVIOUS
<1>3. /\ DOMAIN seats \subseteq Outings /\ BookableDays(seats) # {}
      /\ month \in FirstMonth(seats) .. LastMonth(seats)
  BY <1>1 DEF InReach
<1>4. m \in FirstMonth(seats) .. LastMonth(seats)
  <2> PICK f, l : /\ f = FirstMonth(seats) /\ l = LastMonth(seats)
                  /\ f \in Int /\ l \in Int
    BY <1>3, MonthsOfDays
  <2>1. month \in f..l /\ (m = month - 1 \/ m = month + 1)
          /\ (m < month => month > f) /\ (m > month => month < l)
    BY <1>2, <1>3
  <2> QED BY <2>1
<1> PICK q : q = CalendarOf(seats, m, d)
  OBVIOUS
<1>5. Shows(t, q)
  <2>1. Shows(t, Turned(v, m, d))
    BY <1>2 DEF Turned
  <2>2. Turned(v, m, d) = CalendarOf(v.seats, m, d)
    BY <1>1, MonthWrites
  <2>3. Turned(v, m, d) = q
    BY <2>2
  <2> QED BY <2>1, <2>3
<1>6. /\ IsCalendar(q) /\ q.page = "calendar" /\ q.seats = seats /\ q.month = m
      /\ q.selected = d
  BY CalendarParts
<1>7. LET days == BookableDays(seats) \cap DaysOfMonth(m) IN days # {} => d \in days
  <2> PICK days : days = BookableDays(seats) \cap DaysOfMonth(m)
    OBVIOUS
  <2>1. days \in SUBSET Year
    BY <1>3, SeatsOfYear
  <2> QED BY <2>1, DayBounds DEF FirstBookable
<1>8. InReach(q)
  BY <1>3, <1>4, <1>6, <1>7 DEF InReach
<1> QED BY <1>1, <1>5, <1>6, <1>8, ShowsInv, TabShapes

LEMMA SelectDayInv ==
  ASSUME TabsInv, NEW t \in Tabs, SelectDay(t),
         UNCHANGED <<mode, req, captcha, tries, booking, accepted, open>>
  PROVE  TabsInv'
<1> PICK v : v = view[t]
  OBVIOUS
<1>1. v.page = "calendar" /\ IsCalendar(v) /\ InReach(v) /\ req[t] = NoRequest
  BY CalendarPage, TabShapes, NoRequestThere DEF SelectDay
<1>2. PICK day \in BookableDays(v.seats) \cap DaysOfMonth(v.month) :
         Shows(t, [v EXCEPT !.selected = day])
  BY DEF SelectDay
<1> PICK q : q = CalendarOf(v.seats, v.month, day)
  OBVIOUS
<1>3. Shows(t, q)
  BY <1>1, <1>2, DayWrites
<1>4. /\ IsCalendar(q) /\ q.page = "calendar" /\ q.seats = v.seats
      /\ q.month = v.month /\ q.selected = day
  BY CalendarParts
<1>5. InReach(q)
  BY <1>1, <1>2, <1>4 DEF InReach
<1> QED BY <1>1, <1>3, <1>4, <1>5, ShowsInv, TabShapes

LEMMA OpenCheckoutInv ==
  ASSUME TabsInv, NEW t \in Tabs, OpenCheckout(t),
         UNCHANGED <<mode, req, captcha, tries, booking, accepted, open>>
  PROVE  TabsInv'
<1>1. req[t] = NoRequest
  BY NoRequestThere DEF OpenCheckout
<1>2. (\E text : Shows(t, Notice(text))) \/ (\E d, p : Shows(t, Form(d, p)))
  BY DEF OpenCheckout, CheckoutPages
<1>3. \A text : Notice(text).page = "notice"
  BY DEF Notice
<1>4. \A d, p : IsForm(Form(d, p)) /\ ~Form(d, p).privacy
  BY DEF Form, IsForm
<1>5. PICK v : Shows(t, v) /\ (v.page = "notice" \/ (IsForm(v) /\ ~v.privacy))
  <2>1. CASE \E text : Shows(t, Notice(text))
    <3> PICK v : Shows(t, v) /\ v.page = "notice"
      BY <1>3, <2>1
    <3> QED OBVIOUS
  <2>2. CASE \E d, p : Shows(t, Form(d, p))
    <3>1. PICK v : Shows(t, v) /\ IsForm(v) /\ ~v.privacy
      <4> PICK d, p : Shows(t, Form(d, p))
        BY <2>2
      <4> PICK v : v = Form(d, p)
        OBVIOUS
      <4> QED BY <1>4
    <3> QED BY <3>1
  <2> QED BY <1>2, <2>1, <2>2
<1> QED BY <1>1, <1>5, ShowsInv, TabShapes

-----------------------------------------------------------------------------
(* The theorems.                                                           *)

LEMMA TabsStart == TabsInit => TabsInv
<1> SUFFICES ASSUME TabsInit PROVE TabsInv
  OBVIOUS
<1>1. \A a \in Submissions : booking[a] = Nothing /\ accepted[a] = Nothing
  BY DEF TabsInit
<1>2. ASSUME NEW t \in Tabs PROVE TabOK(t)
  <2>1. view[t] = Away /\ req[t] = NoRequest /\ Away.page = "away"
    BY DEF TabsInit, SiteInit, Away
  <2> QED BY <2>1 DEF TabOK, ViewOK, ReqOK, TokenOK
<1>3. Shapes
  BY NoCaptchas, CheckoutTabsAssumption DEF Shapes, TabsInit, SiteInit, Widgets
<1> QED BY <1>1, <1>2, <1>3 DEF TabsInv, BookOK

LEMMA TabsStep == TabsInv /\ [TabsNext]_tabVars => TabsInv'
<1> SUFFICES ASSUME TabsInv, [TabsNext]_tabVars PROVE TabsInv'
  OBVIOUS
<1>1. ASSUME NEW t \in Tabs, ActionStep(t) PROVE TabsInv'
  BY <1>1, PassGatesInv, VerifyCaptchaInv, PriceInv, CreateHoldInv, ReadHoldInv,
     CheckCardInv, CreateDeferredInv DEF ActionStep
<1>2. ASSUME NEW t \in Tabs, Browse(t), UNCHANGED <<mode, req, captcha, session>>
      PROVE  TabsInv'
  <2>1. UNCHANGED <<mode, req, captcha, tries, booking, accepted, open>>
    BY <1>2 DEF Browse, site, session
  <2> QED BY <1>2, <2>1, OpenTourInv, GoToInv, SelectDayInv, OpenCheckoutInv DEF Browse
<1>3. ASSUME NEW t \in Tabs, TabStep(t) PROVE TabsInv'
  BY <1>2, <1>3, PickTicketsInv, AcceptPrivacyInv, TokenEventInv, SubmitInv,
     ReceiveFirstInv, RefuseCardInv, SubmitCardInv, ReceiveSecondInv, LoseAnswerInv,
     RestartInv, WidgetEndsInv, LeaveInv DEF TabStep
<1>4. ASSUME NEW a \in Submissions, HoldExpires(a) PROVE TabsInv'
  BY <1>4, MeanwhileInv DEF HoldExpires, site
<1>5. CASE CookieExpires
  BY <1>5, MeanwhileInv DEF CookieExpires, site
<1>6. CASE Meanwhile /\ UNCHANGED <<mode, req, captcha, session>>
  BY <1>6, MeanwhileInv
     DEF Meanwhile, Edit, OtherBuys, CancelOuting, HourPasses, session
<1>7. CASE UNCHANGED tabVars
  BY <1>7, MeanwhileInv DEF tabVars, site, session
<1> QED BY <1>1, <1>3, <1>4, <1>5, <1>6, <1>7, BookingEndsInv DEF TabsNext

\* What every tab shows and asks for, and every booking and acceptance, go
\* together: a request asks for what its form showed, the card form is of a
\* submission of its own tab, a token is spent only under way.
THEOREM TabsInvariant == TabsSpec => []TabsInv
  BY TabsStart, TabsStep, PTL DEF TabsSpec

\* A booking is of the departure, the tickets and the amount that its tourist
\* accepted on the screen: checkoutAction and completeDeferredCheckoutAction
\* compare the amount of the database with the one that was shown, whatever
\* the panel, another tab or a lost answer do meanwhile.
THEOREM BookedIsAsShown == TabsSpec => []BookedAsShown
<1>1. ASSUME TabsInv, NEW a \in Submissions, booking[a].status # "none"
      PROVE  /\ booking[a].dep = accepted[a].dep
             /\ booking[a].cart = accepted[a].cart
             /\ booking[a].amount = accepted[a].amount
  <2>1. booking[a] # Nothing
    BY <1>1 DEF Nothing
  <2>2. BookOK(a)
    BY <1>1 DEF TabsInv
  <2>3. Agreed(a, booking[a])
    BY <2>1, <2>2 DEF BookOK
  <2> PICK b, c : b = booking[a] /\ c = accepted[a]
    OBVIOUS
  <2>4. c = [status |-> "accepted", dep |-> b.dep, cart |-> b.cart, amount |-> b.amount]
    BY <2>3 DEF Agreed
  <2> QED BY <2>4
<1>2. TabsInv => BookedAsShown
  BY <1>1 DEF BookedAsShown
<1> QED BY <1>2, TabsInvariant, PTL

\* The button of the form never sends a captcha that is missing or was
\* verified before: every answer after verifyCaptcha is a new object, at
\* which the widget asks for another token.
THEOREM TokenStaysFresh == TabsSpec => []TokenIsFresh
<1>1. TabsInv => TokenIsFresh
  BY FreshToken DEF TokenIsFresh, CanSubmit, OnForm
<1> QED BY <1>1, TabsInvariant, PTL

\* Every day with seats is reached with the buttons of the calendar (goTo and
\* the days of MonthGrid), also over months that have none.
THEOREM DaysInReach == TabsSpec => []NoDayOutOfReach
<1>1. ASSUME TabsInv, NEW t \in Tabs, view[t].page = "calendar",
             NEW day \in BookableDays(view[t].seats)
      PROVE  LET v == view[t]
             IN  \/ MonthOf(day) < v.month /\ CanGoBack(v)
                 \/ MonthOf(day) > v.month /\ CanGoForward(v)
                 \/ MonthOf(day) = v.month /\ Linked(v) # {}
  <2> PICK v : v = view[t]
    OBVIOUS
  <2> PICK seats, month, selected :
         seats = v.seats /\ month = v.month /\ selected = v.selected
    OBVIOUS
  <2>1. InReach(v)
    BY <1>1, TabShapes, CalendarPage
  <2>2. DOMAIN seats \subseteq Outings /\ BookableDays(seats) # {}
          /\ day \in BookableDays(seats)
    BY <1>1, <2>1 DEF InReach
  <2> PICK first, last, m :
         first = FirstMonth(seats) /\ last = LastMonth(seats) /\ m = MonthOf(day)
    OBVIOUS
  <2>3. /\ first \in Int /\ last \in Int /\ m \in Int /\ first <= m /\ m <= last
        /\ month \in first..last
    BY <2>1, <2>2, MonthsOfDays DEF InReach
  <2>4. m < month => CanGoBack(v)
    <3>1. m < month => month > first
      BY <2>3
    <3> QED BY <3>1 DEF CanGoBack
  <2>5. m > month => CanGoForward(v)
    <3>1. m > month => month < last
      BY <2>3
    <3> QED BY <3>1 DEF CanGoForward
  <2>6. m = month => Linked(v) # {}
    <3> SUFFICES ASSUME m = month PROVE Linked(v) # {}
      OBVIOUS
    <3>1. day \in Year
      BY <2>2, SeatsOfYear
    <3>2. selected \in BookableDays(seats) /\ selected \in DaysOfMonth(month)
      BY <2>1, <2>2, <3>1 DEF InReach, DaysOfMonth
    <3>3. PICK d \in DOMAIN seats : seats[d] > 0 /\ DayOf[d] = selected
      BY <3>2 DEF BookableDays
    <3>4. selected # None /\ MonthOf(selected) = month
      BY <3>2 DEF DaysOfMonth, Year, None
    <3>5. d \in Linked(v)
      BY <3>3, <3>4 DEF Linked
    <3> QED BY <3>5
  <2>7. m < month \/ m > month \/ m = month
    BY <2>3
  <2> QED BY <2>4, <2>5, <2>6, <2>7
<1>2. TabsInv => NoDayOutOfReach
  <2> SUFFICES ASSUME TabsInv, NEW t \in Tabs, view[t].page = "calendar"
               PROVE  view[t].month \in
                        FirstMonth(view[t].seats) .. LastMonth(view[t].seats)
    BY <1>1 DEF NoDayOutOfReach
  <2> QED BY TabShapes, CalendarPage DEF InReach
<1> QED BY <1>2, TabsInvariant, PTL
===============================================================================
