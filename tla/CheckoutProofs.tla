--------------------------- MODULE CheckoutProofs ---------------------------
(***************************************************************************)
(* Proofs about Checkout: whatever the requests, their tickets and the     *)
(* departure, the seats sold are those of the confirmed bookings and fit   *)
(* in it, what was promised is held, and, unless a request outlives its    *)
(* own hold, there is a seat for everybody who pays in time.               *)
(***************************************************************************)
EXTENDS Checkout, SumTheorems

-----------------------------------------------------------------------------
(* The inductive invariant.                                                *)

Confirmed == {r \in Requests : booking[r] = "confirmed"}

\* The calls of a request of the immediate checkout that holds its seats.
Building == {"booking", "intent", "row", "promote"}

\* Where a request is, against what it has made so far.
Stages ==
    \A r \in Requests :
        /\ r \in deferred => pc[r] \in {"idle", "hold", "customer", "link",
                                        "card", "undo", "refused"}
        /\ r \notin deferred => pc[r] \notin {"customer", "link", "card"}
        /\ pc[r] \in {"idle", "hold"} => hold[r] = "none"
        /\ pc[r] \in {"idle", "hold", "booking", "customer", "link"} =>
              booking[r] = "none"
        /\ r \in deferred /\ pc[r] # "card" => booking[r] = "none"
        /\ pc[r] \in {"intent", "row", "promote", "done"} => booking[r] # "none"
        /\ booking[r] = "pending_minimum" => r \in deferred
        /\ booking[r] = "pending_payment" => r \notin deferred

\* The second step of a deferred checkout is submitted when the first one
\* answered.
Second ==
    \A k \in Requests \X {1, 2} :
        step2[k] # "idle" => pc[k[1]] = "card"

\* Money moves only after the widget is mounted, and the reconciler visits
\* bookings that are old.
Widget ==
    \A r \in Requests :
        /\ r \notin deferred
           /\ intent[r] \in {"processing", "succeeded", "succeeded_other"} =>
              pc[r] = "done"
        /\ cycle[r] # "idle" => r \in old
        /\ cycle[r] = "paid" => intent[r] = "succeeded" /\ r \notin deferred
        /\ r \in old => booking[r] # "none"
        /\ r \in lapsed => hold[r] # "none"

\* What a request that did not outlive its hold still has.
Kept ==
    \A r \in Requests :
        /\ hold[r] \in {"active", "paying"} =>
              booking[r] \in Unpaid \cup {"none"}
        /\ hold[r] = "paying" => booking[r] \in Unpaid
        /\ r \in deferred /\ booking[r] \in Unpaid => hold[r] = "paying"
        /\ r \notin outlived /\ pc[r] \in Building =>
              /\ hold[r] = "active" /\ r \notin lapsed
              /\ r \notin old
              /\ booking[r] \in {"none", "pending_payment"}
        /\ r \notin outlived /\ pc[r] = "done" /\ booking[r] \in Unpaid =>
              hold[r] = "paying"

\* The seats sold and the seats held fit together while no request outlived
\* its hold.
HeldFit == outlived = {} => reserved + SeatsOf(Holding) <= capacity

LocalInv == TypeOK /\ Stages /\ Second /\ Widget /\ Kept

IInv == LocalInv /\ NeverOversold /\ HeldFit

-----------------------------------------------------------------------------
(* Seats.                                                                  *)

LEMMA SeatsOfIsSum ==
  ASSUME NEW R
  PROVE  SeatsOf(R) = Sum(Seats, R)
  BY DEF SeatsOf, Sum

LEMMA SeatsAssumed ==
  /\ IsFiniteSet(Requests)
  /\ Seats \in [Requests -> Nat]
  /\ \A r \in Requests : Seats[r] \in Nat /\ Seats[r] > 0
  BY CheckoutAssumption

LEMMA SeatsNat ==
  ASSUME NEW R \in SUBSET Requests
  PROVE  SeatsOf(R) \in Nat
  BY SeatsOfIsSum, SeatsAssumed, SumType

LEMMA SeatsLess ==
  ASSUME NEW R \in SUBSET Requests, NEW T \in SUBSET R
  PROVE  SeatsOf(T) <= SeatsOf(R)
  BY SeatsOfIsSum, SeatsAssumed, SumMonotone

LEMMA SeatsWith ==
  ASSUME NEW R \in SUBSET Requests, NEW r \in Requests, r \notin R
  PROVE  SeatsOf(R \cup {r}) = SeatsOf(R) + Seats[r]
  BY SeatsOfIsSum, SeatsAssumed, SumAdd

LEMMA SeatsWithout ==
  ASSUME NEW R \in SUBSET Requests, NEW r \in R
  PROVE  /\ SeatsOf(R) = Seats[r] + SeatsOf(R \ {r})
         /\ SeatsOf(R \ {r}) \in Nat
<1>1. R \ {r} \in SUBSET Requests
  OBVIOUS
<1> QED BY <1>1, SeatsNat, SeatsOfIsSum, SeatsAssumed, SumRemove

\* A step that confirms nothing and cancels nothing confirmed.
LEMMA SameConfirmed ==
  ASSUME NeverOversold,
         reserved' = reserved, capacity' = capacity,
         \A q \in Requests : booking'[q] = "confirmed" <=> booking[q] = "confirmed"
  PROVE  NeverOversold'
<1>1. {q \in Requests : booking[q] = "confirmed"}' =
         {q \in Requests : booking[q] = "confirmed"}
  OBVIOUS
<1>2. SeatsOf({q \in Requests : booking[q] = "confirmed"})' =
         SeatsOf({q \in Requests : booking[q] = "confirmed"})
  BY <1>1
<1> QED BY <1>2 DEF NeverOversold

\* A step that holds no seat more.
LEMMA FewerHeld ==
  ASSUME TypeOK, HeldFit, reserved' \in Nat,
         reserved' <= reserved, capacity' = capacity,
         outlived \subseteq outlived', outlived' = {} => Holding' \subseteq Holding
  PROVE  HeldFit'
<1>1. Holding \in SUBSET Requests
  BY DEF Holding
<1>2. SUFFICES ASSUME outlived' = {} PROVE reserved' + SeatsOf(Holding') <= capacity'
  BY DEF HeldFit
<1>3. SeatsOf(Holding') <= SeatsOf(Holding)
  BY <1>1, <1>2, SeatsLess
<1>4. SeatsOf(Holding') \in Nat /\ SeatsOf(Holding) \in Nat
  BY <1>1, <1>2, SeatsNat
<1>5. outlived = {}
  BY <1>2
<1> QED BY <1>3, <1>4, <1>5 DEF HeldFit, TypeOK

-----------------------------------------------------------------------------
(* One lemma per action.                                                   *)

LEMMA SubmitKeeps ==
  ASSUME IInv, NEW r \in Requests, Submit(r)
  PROVE  IInv'
<1> USE DEF IInv, LocalInv
<1>1. NeverOversold'
  <2>1. /\ reserved' = reserved /\ capacity' = capacity
        /\ \A q \in Requests :
              booking'[q] = "confirmed" <=> booking[q] = "confirmed"
    BY DEF Submit, TypeOK, Stages, seats, money, Unpaid
  <2> QED BY <2>1, SameConfirmed
<1>2. TypeOK'
  BY DEF Submit, TypeOK, seats, money, Steps, Unpaid
<1>3. Stages'
  BY DEF Submit, TypeOK, Stages, seats, money, Unpaid
<1>4. Second'
  BY DEF Submit, TypeOK, Second, seats, money
<1>5. Widget'
  BY DEF Submit, TypeOK, Stages, Widget, seats, money, Unpaid
<1>6. Kept'
  BY DEF Submit, TypeOK, Stages, Second, Widget, Kept, seats, money, Unpaid,
       Building
<1>7. HeldFit'
  <2>1. /\ reserved' \in Nat /\ reserved' <= reserved /\ capacity' = capacity
        /\ outlived \subseteq outlived'
        /\ outlived' = {} => Holding' \subseteq Holding
    BY DEF Submit, TypeOK, Holding, seats, money
  <2> QED BY <2>1, FewerHeld
<1> QED BY <1>1, <1>2, <1>3, <1>5, <1>6, <1>7, <1>4

LEMMA UndoKeeps ==
  ASSUME IInv, NEW r \in Requests, Undo(r)
  PROVE  IInv'
<1> USE DEF IInv, LocalInv
<1>1. NeverOversold'
  <2>1. /\ reserved' = reserved /\ capacity' = capacity
        /\ \A q \in Requests :
              booking'[q] = "confirmed" <=> booking[q] = "confirmed"
    BY DEF Undo, Goto, Released, HoldIf, TypeOK, Stages, money, Unpaid
  <2> QED BY <2>1, SameConfirmed
<1>2. TypeOK'
  BY DEF Undo, Goto, Released, HoldIf, TypeOK, money, Steps, Unpaid
<1>3. Stages'
  BY DEF Undo, Goto, Released, HoldIf, TypeOK, Stages, money, Unpaid
<1>4. Second'
  BY DEF Undo, Goto, Released, HoldIf, TypeOK, Second, money
<1>5. Widget'
  BY DEF Undo, Goto, Released, HoldIf, TypeOK, Stages, Widget, money, Unpaid
<1>6. Kept'
  BY DEF Undo, Goto, Released, HoldIf, TypeOK, Stages, Second, Widget, Kept,
       money, Unpaid, Building
<1>7. HeldFit'
  <2>1. /\ reserved' \in Nat /\ reserved' <= reserved /\ capacity' = capacity
        /\ outlived \subseteq outlived'
        /\ outlived' = {} => Holding' \subseteq Holding
    BY DEF Undo, Goto, Released, HoldIf, TypeOK, Holding, money
  <2> QED BY <2>1, FewerHeld
<1> QED BY <1>1, <1>2, <1>3, <1>5, <1>6, <1>7, <1>4

LEMMA HoldLapsesKeeps ==
  ASSUME IInv, NEW r \in Requests, HoldLapses(r)
  PROVE  IInv'
<1> USE DEF IInv, LocalInv
<1>1. NeverOversold'
  <2>1. /\ reserved' = reserved /\ capacity' = capacity
        /\ \A q \in Requests :
              booking'[q] = "confirmed" <=> booking[q] = "confirmed"
    BY DEF HoldLapses, TypeOK, Stages, request, money, Unpaid
  <2> QED BY <2>1, SameConfirmed
<1>2. TypeOK'
  BY DEF HoldLapses, TypeOK, request, money, Steps, Unpaid
<1>3. Stages'
  BY DEF HoldLapses, TypeOK, Stages, request, money, Unpaid
<1>4. Second'
  BY DEF HoldLapses, TypeOK, Second, request, money
<1>5. Widget'
  BY DEF HoldLapses, TypeOK, Stages, Widget, request, money, Unpaid
<1>6. Kept'
  BY DEF HoldLapses, TypeOK, Stages, Second, Widget, Kept, request, money,
       Unpaid, Building
<1>7. HeldFit'
  <2>1. /\ reserved' \in Nat /\ reserved' <= reserved /\ capacity' = capacity
        /\ outlived \subseteq outlived'
        /\ outlived' = {} => Holding' \subseteq Holding
    BY DEF HoldLapses, TypeOK, Holding, request, money
  <2> QED BY <2>1, FewerHeld
<1> QED BY <1>1, <1>2, <1>3, <1>5, <1>6, <1>7, <1>4

LEMMA InsertBookingKeeps ==
  ASSUME IInv, NEW r \in Requests, r \notin deferred, InsertBooking(r)
  PROVE  IInv'
<1> USE DEF IInv, LocalInv
<1>1. NeverOversold'
  <2>1. /\ reserved' = reserved /\ capacity' = capacity
        /\ \A q \in Requests :
              booking'[q] = "confirmed" <=> booking[q] = "confirmed"
    BY DEF InsertBooking, Call, Goto, TypeOK, Stages, seats, money, Unpaid
  <2> QED BY <2>1, SameConfirmed
<1>2. TypeOK'
  BY DEF InsertBooking, Call, Goto, TypeOK, seats, money, Steps, Unpaid
<1>3. Stages'
  BY DEF InsertBooking, Call, Goto, TypeOK, Stages, seats, money, Unpaid
<1>4. Second'
  BY DEF InsertBooking, Call, Goto, TypeOK, Second, seats, money
<1>5. Widget'
  BY DEF InsertBooking, Call, Goto, TypeOK, Stages, Widget, seats, money,
       Unpaid
<1>6. Kept'
  BY DEF InsertBooking, Call, Goto, TypeOK, Stages, Second, Widget, Kept,
       seats, money, Unpaid, Building
<1>7. HeldFit'
  <2>1. /\ reserved' \in Nat /\ reserved' <= reserved /\ capacity' = capacity
        /\ outlived \subseteq outlived'
        /\ outlived' = {} => Holding' \subseteq Holding
    BY DEF InsertBooking, Call, Goto, TypeOK, Holding, seats, money
  <2> QED BY <2>1, FewerHeld
<1> QED BY <1>1, <1>2, <1>3, <1>5, <1>6, <1>7, <1>4

LEMMA CreatePaymentSessionKeeps ==
  ASSUME IInv, NEW r \in Requests, r \notin deferred, CreatePaymentSession(r)
  PROVE  IInv'
<1> USE DEF IInv, LocalInv
<1>1. NeverOversold'
  <2>1. /\ reserved' = reserved /\ capacity' = capacity
        /\ \A q \in Requests :
              booking'[q] = "confirmed" <=> booking[q] = "confirmed"
    BY DEF CreatePaymentSession, Call, Goto, TypeOK, Stages, seats, Unpaid
  <2> QED BY <2>1, SameConfirmed
<1>2. TypeOK'
  BY DEF CreatePaymentSession, Call, Goto, TypeOK, seats, Steps, Unpaid
<1>3. Stages'
  BY DEF CreatePaymentSession, Call, Goto, TypeOK, Stages, seats, Unpaid
<1>4. Second'
  BY DEF CreatePaymentSession, Call, Goto, TypeOK, Second, seats
<1>5. Widget'
  BY DEF CreatePaymentSession, Call, Goto, TypeOK, Stages, Widget, seats,
       Unpaid
<1>6. Kept'
  BY DEF CreatePaymentSession, Call, Goto, TypeOK, Stages, Second, Widget,
       Kept, seats, Unpaid, Building
<1>7. HeldFit'
  <2>1. /\ reserved' \in Nat /\ reserved' <= reserved /\ capacity' = capacity
        /\ outlived \subseteq outlived'
        /\ outlived' = {} => Holding' \subseteq Holding
    BY DEF CreatePaymentSession, Call, Goto, TypeOK, Holding, seats
  <2> QED BY <2>1, FewerHeld
<1> QED BY <1>1, <1>2, <1>3, <1>5, <1>6, <1>7, <1>4

LEMMA InsertPaymentKeeps ==
  ASSUME IInv, NEW r \in Requests, r \notin deferred, InsertPayment(r)
  PROVE  IInv'
<1> USE DEF IInv, LocalInv
<1>1. NeverOversold'
  <2>1. /\ reserved' = reserved /\ capacity' = capacity
        /\ \A q \in Requests :
              booking'[q] = "confirmed" <=> booking[q] = "confirmed"
    BY DEF InsertPayment, Goto, TypeOK, Stages, seats, Unpaid
  <2> QED BY <2>1, SameConfirmed
<1>2. TypeOK'
  BY DEF InsertPayment, Goto, TypeOK, seats, Steps, Unpaid
<1>3. Stages'
  BY DEF InsertPayment, Goto, TypeOK, Stages, seats, Unpaid
<1>4. Second'
  BY DEF InsertPayment, Goto, TypeOK, Second, seats
<1>5. Widget'
  BY DEF InsertPayment, Goto, TypeOK, Stages, Widget, seats, Unpaid
<1>6. Kept'
  BY DEF InsertPayment, Goto, TypeOK, Stages, Second, Widget, Kept, seats,
       Unpaid, Building
<1>7. HeldFit'
  <2>1. /\ reserved' \in Nat /\ reserved' <= reserved /\ capacity' = capacity
        /\ outlived \subseteq outlived'
        /\ outlived' = {} => Holding' \subseteq Holding
    BY DEF InsertPayment, Goto, TypeOK, Holding, seats
  <2> QED BY <2>1, FewerHeld
<1> QED BY <1>1, <1>2, <1>3, <1>5, <1>6, <1>7, <1>4

LEMMA PayKeeps ==
  ASSUME IInv, NEW r \in Requests, r \notin deferred, Pay(r)
  PROVE  IInv'
<1> USE DEF IInv, LocalInv
<1>1. NeverOversold'
  <2>1. /\ reserved' = reserved /\ capacity' = capacity
        /\ \A q \in Requests :
              booking'[q] = "confirmed" <=> booking[q] = "confirmed"
    BY DEF Pay, TypeOK, Stages, request, seats, Unpaid
  <2> QED BY <2>1, SameConfirmed
<1>2. TypeOK'
  BY DEF Pay, TypeOK, request, seats, Steps, Unpaid
<1>3. Stages'
  BY DEF Pay, TypeOK, Stages, request, seats, Unpaid
<1>4. Second'
  BY DEF Pay, TypeOK, Second, request, seats
<1>5. Widget'
  BY DEF Pay, TypeOK, Stages, Widget, request, seats, Unpaid
<1>6. Kept'
  BY DEF Pay, TypeOK, Stages, Second, Widget, Kept, request, seats, Unpaid,
       Building
<1>7. HeldFit'
  <2>1. /\ reserved' \in Nat /\ reserved' <= reserved /\ capacity' = capacity
        /\ outlived \subseteq outlived'
        /\ outlived' = {} => Holding' \subseteq Holding
    BY DEF Pay, TypeOK, Holding, request, seats
  <2> QED BY <2>1, FewerHeld
<1> QED BY <1>1, <1>2, <1>3, <1>5, <1>6, <1>7, <1>4

LEMMA GatewaySettlesKeeps ==
  ASSUME IInv, NEW r \in Requests, r \notin deferred, GatewaySettles(r)
  PROVE  IInv'
<1> USE DEF IInv, LocalInv
<1>1. NeverOversold'
  <2>1. /\ reserved' = reserved /\ capacity' = capacity
        /\ \A q \in Requests :
              booking'[q] = "confirmed" <=> booking[q] = "confirmed"
    BY DEF GatewaySettles, TypeOK, Stages, request, seats, Unpaid
  <2> QED BY <2>1, SameConfirmed
<1>2. TypeOK'
  BY DEF GatewaySettles, TypeOK, request, seats, Steps, Unpaid
<1>3. Stages'
  BY DEF GatewaySettles, TypeOK, Stages, request, seats, Unpaid
<1>4. Second'
  BY DEF GatewaySettles, TypeOK, Second, request, seats
<1>5. Widget'
  BY DEF GatewaySettles, TypeOK, Stages, Widget, request, seats, Unpaid
<1>6. Kept'
  BY DEF GatewaySettles, TypeOK, Stages, Second, Widget, Kept, request, seats,
       Unpaid, Building
<1>7. HeldFit'
  <2>1. /\ reserved' \in Nat /\ reserved' <= reserved /\ capacity' = capacity
        /\ outlived \subseteq outlived'
        /\ outlived' = {} => Holding' \subseteq Holding
    BY DEF GatewaySettles, TypeOK, Holding, request, seats
  <2> QED BY <2>1, FewerHeld
<1> QED BY <1>1, <1>2, <1>3, <1>5, <1>6, <1>7, <1>4

LEMMA BookingAgesKeeps ==
  ASSUME IInv, NEW r \in Requests, r \notin deferred, BookingAges(r)
  PROVE  IInv'
<1> USE DEF IInv, LocalInv
<1>1. NeverOversold'
  <2>1. /\ reserved' = reserved /\ capacity' = capacity
        /\ \A q \in Requests :
              booking'[q] = "confirmed" <=> booking[q] = "confirmed"
    BY DEF BookingAges, TypeOK, Stages, request, seats, money, Unpaid
  <2> QED BY <2>1, SameConfirmed
<1>2. TypeOK'
  BY DEF BookingAges, TypeOK, request, seats, money, Steps, Unpaid
<1>3. Stages'
  BY DEF BookingAges, TypeOK, Stages, request, seats, money, Unpaid
<1>4. Second'
  BY DEF BookingAges, TypeOK, Second, request, seats, money
<1>5. Widget'
  BY DEF BookingAges, TypeOK, Stages, Widget, request, seats, money, Unpaid
<1>6. Kept'
  BY DEF BookingAges, TypeOK, Stages, Second, Widget, Kept, request, seats,
       money, Unpaid, Building
<1>7. HeldFit'
  <2>1. /\ reserved' \in Nat /\ reserved' <= reserved /\ capacity' = capacity
        /\ outlived \subseteq outlived'
        /\ outlived' = {} => Holding' \subseteq Holding
    BY DEF BookingAges, TypeOK, Holding, request, seats, money
  <2> QED BY <2>1, FewerHeld
<1> QED BY <1>1, <1>2, <1>3, <1>5, <1>6, <1>7, <1>4

LEMMA GetPaymentIntentKeeps ==
  ASSUME IInv, NEW r \in Requests, r \notin deferred, GetPaymentIntent(r)
  PROVE  IInv'
<1> USE DEF IInv, LocalInv
<1>1. NeverOversold'
  <2>1. /\ reserved' = reserved /\ capacity' = capacity
        /\ \A q \in Requests :
              booking'[q] = "confirmed" <=> booking[q] = "confirmed"
    BY DEF GetPaymentIntent, TypeOK, Stages, request, seats, money, Unpaid
  <2> QED BY <2>1, SameConfirmed
<1>2. TypeOK'
  BY DEF GetPaymentIntent, TypeOK, request, seats, money, Steps, Unpaid
<1>3. Stages'
  BY DEF GetPaymentIntent, TypeOK, Stages, request, seats, money, Unpaid
<1>4. Second'
  BY DEF GetPaymentIntent, TypeOK, Second, request, seats, money
<1>5. Widget'
  BY DEF GetPaymentIntent, TypeOK, Stages, Widget, request, seats, money,
       Unpaid
<1>6. Kept'
  BY DEF GetPaymentIntent, TypeOK, Stages, Second, Widget, Kept, request,
       seats, money, Unpaid, Building
<1>7. HeldFit'
  <2>1. /\ reserved' \in Nat /\ reserved' <= reserved /\ capacity' = capacity
        /\ outlived \subseteq outlived'
        /\ outlived' = {} => Holding' \subseteq Holding
    BY DEF GetPaymentIntent, TypeOK, Holding, request, seats, money
  <2> QED BY <2>1, FewerHeld
<1> QED BY <1>1, <1>2, <1>3, <1>5, <1>6, <1>7, <1>4

LEMMA SkipBookingKeeps ==
  ASSUME IInv, NEW r \in Requests, r \notin deferred, SkipBooking(r)
  PROVE  IInv'
<1> USE DEF IInv, LocalInv
<1>1. NeverOversold'
  <2>1. /\ reserved' = reserved /\ capacity' = capacity
        /\ \A q \in Requests :
              booking'[q] = "confirmed" <=> booking[q] = "confirmed"
    BY DEF SkipBooking, TypeOK, Stages, request, seats, money, Unpaid
  <2> QED BY <2>1, SameConfirmed
<1>2. TypeOK'
  BY DEF SkipBooking, TypeOK, request, seats, money, Steps, Unpaid
<1>3. Stages'
  BY DEF SkipBooking, TypeOK, Stages, request, seats, money, Unpaid
<1>4. Second'
  BY DEF SkipBooking, TypeOK, Second, request, seats, money
<1>5. Widget'
  BY DEF SkipBooking, TypeOK, Stages, Widget, request, seats, money, Unpaid
<1>6. Kept'
  BY DEF SkipBooking, TypeOK, Stages, Second, Widget, Kept, request, seats,
       money, Unpaid, Building
<1>7. HeldFit'
  <2>1. /\ reserved' \in Nat /\ reserved' <= reserved /\ capacity' = capacity
        /\ outlived \subseteq outlived'
        /\ outlived' = {} => Holding' \subseteq Holding
    BY DEF SkipBooking, TypeOK, Holding, request, seats, money
  <2> QED BY <2>1, FewerHeld
<1> QED BY <1>1, <1>2, <1>3, <1>5, <1>6, <1>7, <1>4

LEMMA CreateCustomerKeeps ==
  ASSUME IInv, NEW r \in Requests, r \in deferred, CreateCustomer(r)
  PROVE  IInv'
<1> USE DEF IInv, LocalInv
<1>1. NeverOversold'
  <2>1. /\ reserved' = reserved /\ capacity' = capacity
        /\ \A q \in Requests :
              booking'[q] = "confirmed" <=> booking[q] = "confirmed"
    BY DEF CreateCustomer, TypeOK, Stages, seats, money, Unpaid
  <2> QED BY <2>1, SameConfirmed
<1>2. TypeOK'
  BY DEF CreateCustomer, TypeOK, seats, money, Steps, Unpaid
<1>3. Stages'
  BY DEF CreateCustomer, TypeOK, Stages, seats, money, Unpaid
<1>4. Second'
  BY DEF CreateCustomer, TypeOK, Second, seats, money
<1>5. Widget'
  BY DEF CreateCustomer, TypeOK, Stages, Widget, seats, money, Unpaid
<1>6. Kept'
  BY DEF CreateCustomer, TypeOK, Stages, Second, Widget, Kept, seats, money,
       Unpaid, Building
<1>7. HeldFit'
  <2>1. /\ reserved' \in Nat /\ reserved' <= reserved /\ capacity' = capacity
        /\ outlived \subseteq outlived'
        /\ outlived' = {} => Holding' \subseteq Holding
    BY DEF CreateCustomer, TypeOK, Holding, seats, money
  <2> QED BY <2>1, FewerHeld
<1> QED BY <1>1, <1>2, <1>3, <1>5, <1>6, <1>7, <1>4

LEMMA LinkCustomerKeeps ==
  ASSUME IInv, NEW r \in Requests, r \in deferred, LinkCustomer(r)
  PROVE  IInv'
<1> USE DEF IInv, LocalInv
<1>1. NeverOversold'
  <2>1. /\ reserved' = reserved /\ capacity' = capacity
        /\ \A q \in Requests :
              booking'[q] = "confirmed" <=> booking[q] = "confirmed"
    BY DEF LinkCustomer, Goto, TypeOK, Stages, seats, money, Unpaid
  <2> QED BY <2>1, SameConfirmed
<1>2. TypeOK'
  BY DEF LinkCustomer, Goto, TypeOK, seats, money, Steps, Unpaid
<1>3. Stages'
  BY DEF LinkCustomer, Goto, TypeOK, Stages, seats, money, Unpaid
<1>4. Second'
  BY DEF LinkCustomer, Goto, TypeOK, Second, seats, money
<1>5. Widget'
  BY DEF LinkCustomer, Goto, TypeOK, Stages, Widget, seats, money, Unpaid
<1>6. Kept'
  BY DEF LinkCustomer, Goto, TypeOK, Stages, Second, Widget, Kept, seats,
       money, Unpaid, Building
<1>7. HeldFit'
  <2>1. /\ reserved' \in Nat /\ reserved' <= reserved /\ capacity' = capacity
        /\ outlived \subseteq outlived'
        /\ outlived' = {} => Holding' \subseteq Holding
    BY DEF LinkCustomer, Goto, TypeOK, Holding, seats, money
  <2> QED BY <2>1, FewerHeld
<1> QED BY <1>1, <1>2, <1>3, <1>5, <1>6, <1>7, <1>4

LEMMA ChargeGivesUpKeeps ==
  ASSUME IInv, NEW r \in Requests, r \in deferred, ChargeGivesUp(r)
  PROVE  IInv'
<1> USE DEF IInv, LocalInv
<1>1. NeverOversold'
  <2>1. /\ reserved' = reserved /\ capacity' = capacity
        /\ \A q \in Requests :
              booking'[q] = "confirmed" <=> booking[q] = "confirmed"
    BY DEF ChargeGivesUp, Booked, Released, HoldIf, TypeOK, Stages, request,
         money, Unpaid
  <2> QED BY <2>1, SameConfirmed
<1>2. TypeOK'
  BY DEF ChargeGivesUp, Booked, Released, HoldIf, TypeOK, request, money,
       Steps, Unpaid
<1>3. Stages'
  BY DEF ChargeGivesUp, Booked, Released, HoldIf, TypeOK, Stages, request,
       money, Unpaid
<1>4. Second'
  BY DEF ChargeGivesUp, Booked, Released, HoldIf, TypeOK, Second, request,
       money
<1>5. Widget'
  BY DEF ChargeGivesUp, Booked, Released, HoldIf, TypeOK, Stages, Widget,
       request, money, Unpaid
<1>6. Kept'
  BY DEF ChargeGivesUp, Booked, Released, HoldIf, TypeOK, Stages, Second,
       Widget, Kept, request, money, Unpaid, Building
<1>7. HeldFit'
  <2>1. /\ reserved' \in Nat /\ reserved' <= reserved /\ capacity' = capacity
        /\ outlived \subseteq outlived'
        /\ outlived' = {} => Holding' \subseteq Holding
    BY DEF ChargeGivesUp, Booked, Released, HoldIf, TypeOK, Holding, request,
         money
  <2> QED BY <2>1, FewerHeld
<1> QED BY <1>1, <1>2, <1>3, <1>5, <1>6, <1>7, <1>4

LEMMA ReadHoldKeeps ==
  ASSUME IInv, NEW r \in Requests, NEW c \in {1, 2}, r \in deferred,
         ReadHold(r, c)
  PROVE  IInv'
<1> USE DEF IInv, LocalInv
<1>1. NeverOversold'
  <2>1. /\ reserved' = reserved /\ capacity' = capacity
        /\ \A q \in Requests :
              booking'[q] = "confirmed" <=> booking[q] = "confirmed"
    BY DEF ReadHold, TypeOK, Stages, seats, money, Unpaid
  <2> QED BY <2>1, SameConfirmed
<1>2. TypeOK'
  BY DEF ReadHold, TypeOK, seats, money, Steps, Unpaid
<1>3. Stages'
  BY DEF ReadHold, TypeOK, Stages, seats, money, Unpaid
<1>4. Second'
  BY DEF ReadHold, TypeOK, Second, seats, money
<1>5. Widget'
  BY DEF ReadHold, TypeOK, Stages, Widget, seats, money, Unpaid
<1>6. Kept'
  BY DEF ReadHold, TypeOK, Stages, Second, Widget, Kept, seats, money, Unpaid,
       Building
<1>7. HeldFit'
  <2>1. /\ reserved' \in Nat /\ reserved' <= reserved /\ capacity' = capacity
        /\ outlived \subseteq outlived'
        /\ outlived' = {} => Holding' \subseteq Holding
    BY DEF ReadHold, TypeOK, Holding, seats, money
  <2> QED BY <2>1, FewerHeld
<1> QED BY <1>1, <1>2, <1>3, <1>5, <1>6, <1>7, <1>4

LEMMA RefuseCardKeeps ==
  ASSUME IInv, NEW r \in Requests, NEW c \in {1, 2}, r \in deferred,
         RefuseCard(r, c)
  PROVE  IInv'
<1> USE DEF IInv, LocalInv
<1>1. NeverOversold'
  <2>1. /\ reserved' = reserved /\ capacity' = capacity
        /\ \A q \in Requests :
              booking'[q] = "confirmed" <=> booking[q] = "confirmed"
    BY DEF RefuseCard, TypeOK, Stages, seats, money, Unpaid
  <2> QED BY <2>1, SameConfirmed
<1>2. TypeOK'
  BY DEF RefuseCard, TypeOK, seats, money, Steps, Unpaid
<1>3. Stages'
  BY DEF RefuseCard, TypeOK, Stages, seats, money, Unpaid
<1>4. Second'
  BY DEF RefuseCard, TypeOK, Second, seats, money
<1>5. Widget'
  BY DEF RefuseCard, TypeOK, Stages, Widget, seats, money, Unpaid
<1>6. Kept'
  BY DEF RefuseCard, TypeOK, Stages, Second, Widget, Kept, seats, money,
       Unpaid, Building
<1>7. HeldFit'
  <2>1. /\ reserved' \in Nat /\ reserved' <= reserved /\ capacity' = capacity
        /\ outlived \subseteq outlived'
        /\ outlived' = {} => Holding' \subseteq Holding
    BY DEF RefuseCard, TypeOK, Holding, seats, money
  <2> QED BY <2>1, FewerHeld
<1> QED BY <1>1, <1>2, <1>3, <1>5, <1>6, <1>7, <1>4

LEMMA RefuseDeferredBookingKeeps ==
  ASSUME IInv, NEW r \in Requests, NEW c \in {1, 2}, r \in deferred,
         RefuseDeferredBooking(r, c)
  PROVE  IInv'
<1> USE DEF IInv, LocalInv
<1>1. NeverOversold'
  <2>1. /\ reserved' = reserved /\ capacity' = capacity
        /\ \A q \in Requests :
              booking'[q] = "confirmed" <=> booking[q] = "confirmed"
    BY DEF RefuseDeferredBooking, TypeOK, Stages, seats, money, Unpaid
  <2> QED BY <2>1, SameConfirmed
<1>2. TypeOK'
  BY DEF RefuseDeferredBooking, TypeOK, seats, money, Steps, Unpaid
<1>3. Stages'
  BY DEF RefuseDeferredBooking, TypeOK, Stages, seats, money, Unpaid
<1>4. Second'
  BY DEF RefuseDeferredBooking, TypeOK, Second, seats, money
<1>5. Widget'
  BY DEF RefuseDeferredBooking, TypeOK, Stages, Widget, seats, money, Unpaid
<1>6. Kept'
  BY DEF RefuseDeferredBooking, TypeOK, Stages, Second, Widget, Kept, seats,
       money, Unpaid, Building
<1>7. HeldFit'
  <2>1. /\ reserved' \in Nat /\ reserved' <= reserved /\ capacity' = capacity
        /\ outlived \subseteq outlived'
        /\ outlived' = {} => Holding' \subseteq Holding
    BY DEF RefuseDeferredBooking, TypeOK, Holding, seats, money
  <2> QED BY <2>1, FewerHeld
<1> QED BY <1>1, <1>2, <1>3, <1>5, <1>6, <1>7, <1>4

LEMMA ReleaseHoldOverCapKeeps ==
  ASSUME IInv, NEW r \in Requests, NEW c \in {1, 2}, r \in deferred,
         ReleaseHoldOverCap(r, c)
  PROVE  IInv'
<1> USE DEF IInv, LocalInv
<1>1. NeverOversold'
  <2>1. /\ reserved' = reserved /\ capacity' = capacity
        /\ \A q \in Requests :
              booking'[q] = "confirmed" <=> booking[q] = "confirmed"
    BY DEF ReleaseHoldOverCap, ReleasedOverCap, HoldIf, TypeOK, Stages, money,
         Unpaid
  <2> QED BY <2>1, SameConfirmed
<1>2. TypeOK'
  BY DEF ReleaseHoldOverCap, ReleasedOverCap, HoldIf, TypeOK, money, Steps,
       Unpaid
<1>3. Stages'
  BY DEF ReleaseHoldOverCap, ReleasedOverCap, HoldIf, TypeOK, Stages, money,
       Unpaid
<1>4. Second'
  BY DEF ReleaseHoldOverCap, ReleasedOverCap, HoldIf, TypeOK, Second, money
<1>5. Widget'
  BY DEF ReleaseHoldOverCap, ReleasedOverCap, HoldIf, TypeOK, Stages, Widget,
       money, Unpaid
<1>6. Kept'
  BY DEF ReleaseHoldOverCap, ReleasedOverCap, HoldIf, TypeOK, Stages, Second,
       Widget, Kept, money, Unpaid, Building
<1>7. HeldFit'
  <2>1. /\ reserved' \in Nat /\ reserved' <= reserved /\ capacity' = capacity
        /\ outlived \subseteq outlived'
        /\ outlived' = {} => Holding' \subseteq Holding
    BY DEF ReleaseHoldOverCap, ReleasedOverCap, HoldIf, TypeOK, Holding, money
  <2> QED BY <2>1, FewerHeld
<1> QED BY <1>1, <1>2, <1>3, <1>5, <1>6, <1>7, <1>4

LEMMA PromoteHoldKeeps ==
  ASSUME IInv, NEW r \in Requests, r \notin deferred, PromoteHold(r)
  PROVE  IInv'
<1> USE DEF IInv, LocalInv
<1>1. NeverOversold'
  <2>1. /\ reserved' = reserved /\ capacity' = capacity
        /\ \A q \in Requests :
              booking'[q] = "confirmed" <=> booking[q] = "confirmed"
    BY DEF PromoteHold, Call, Goto, HoldIf, TypeOK, Stages, money, Unpaid
  <2> QED BY <2>1, SameConfirmed
<1>2. TypeOK'
  BY DEF PromoteHold, Call, Goto, HoldIf, TypeOK, money, Steps, Unpaid
<1>3. Stages'
  BY DEF PromoteHold, Call, Goto, HoldIf, TypeOK, Stages, money, Unpaid
<1>4. Second'
  BY DEF PromoteHold, Call, Goto, HoldIf, TypeOK, Second, money
<1>5. Widget'
  BY DEF PromoteHold, Call, Goto, HoldIf, TypeOK, Stages, Widget, money, Unpaid
<1>6. Kept'
  BY DEF PromoteHold, Call, Goto, HoldIf, TypeOK, Stages, Second, Widget,
       Kept, money, Unpaid, Building
<1>7. HeldFit'
  <2>1. /\ reserved' \in Nat /\ reserved' <= reserved /\ capacity' = capacity
        /\ outlived \subseteq outlived'
        /\ outlived' = {} => Holding' \subseteq Holding
    BY DEF PromoteHold, Call, Goto, HoldIf, TypeOK, Kept, Building, Holding,
         money
  <2> QED BY <2>1, FewerHeld
<1> QED BY <1>1, <1>2, <1>3, <1>5, <1>6, <1>7, <1>4

LEMMA CreateDeferredBookingKeeps ==
  ASSUME IInv, NEW r \in Requests, NEW c \in {1, 2}, r \in deferred,
         CreateDeferredBooking(r, c)
  PROVE  IInv'
<1> USE DEF IInv, LocalInv
<1>1. pc[r] = "card"
  <2>1. <<r, c>> \in Requests \X {1, 2} /\ step2[<<r, c>>] = "create"
    BY DEF CreateDeferredBooking
  <2>2. \A k \in Requests \X {1, 2} : step2[k] # "idle" => pc[k[1]] = "card"
    BY DEF Second
  <2> QED BY <2>1, <2>2
<1>2. booking[r] \in Unpaid \cup {"none"}
  BY DEF CreateDeferredBooking, CanCreateDeferred, Kept
<1>3. NeverOversold'
  <2>1. /\ reserved' = reserved /\ capacity' = capacity
        /\ \A q \in Requests :
              booking'[q] = "confirmed" <=> booking[q] = "confirmed"
    BY <1>2 DEF CreateDeferredBooking, CanCreateDeferred, TypeOK, Stages,
         money, Unpaid
  <2> QED BY <2>1, SameConfirmed
<1>4. TypeOK'
  BY DEF CreateDeferredBooking, CanCreateDeferred, TypeOK, money, Steps, Unpaid
<1>5. Stages'
  BY <1>1 DEF CreateDeferredBooking, CanCreateDeferred, TypeOK, Stages, money,
       Unpaid
<1>6. Second'
  BY DEF CreateDeferredBooking, CanCreateDeferred, TypeOK, Second, money
<1>7. Widget'
  BY DEF CreateDeferredBooking, CanCreateDeferred, TypeOK, Stages, Widget,
       money, Unpaid
<1>8. Kept'
  BY DEF CreateDeferredBooking, CanCreateDeferred, TypeOK, Stages, Second,
       Widget, Kept, money, Unpaid, Building
<1>9. HeldFit'
  <2>1. /\ reserved' \in Nat /\ reserved' <= reserved /\ capacity' = capacity
        /\ outlived \subseteq outlived'
        /\ outlived' = {} => Holding' \subseteq Holding
    BY DEF CreateDeferredBooking, CanCreateDeferred, TypeOK, Holding, money
  <2> QED BY <2>1, FewerHeld
<1> QED BY <1>3, <1>4, <1>5, <1>7, <1>8, <1>9, <1>6

LEMMA ReleaseExpiredHoldsKeeps ==
  ASSUME IInv, ReleaseExpiredHolds
  PROVE  IInv'
<1> USE DEF IInv, LocalInv
<1>1. NeverOversold'
  <2>1. /\ reserved' = reserved /\ capacity' = capacity
        /\ \A q \in Requests :
              booking'[q] = "confirmed" <=> booking[q] = "confirmed"
    BY DEF ReleaseExpiredHolds, TypeOK, Stages, request, money, Unpaid
  <2> QED BY <2>1, SameConfirmed
<1>2. TypeOK'
  BY DEF ReleaseExpiredHolds, TypeOK, request, money, Steps, Unpaid
<1>3. Stages'
  BY DEF ReleaseExpiredHolds, TypeOK, Stages, request, money, Unpaid
<1>4. Second'
  BY DEF ReleaseExpiredHolds, TypeOK, Second, request, money
<1>5. Widget'
  BY DEF ReleaseExpiredHolds, TypeOK, Stages, Widget, request, money, Unpaid
<1>6. Kept'
  BY DEF ReleaseExpiredHolds, TypeOK, Stages, Second, Widget, Kept, request,
       money, Unpaid, Building
<1>7. HeldFit'
  <2>1. /\ reserved' \in Nat /\ reserved' <= reserved /\ capacity' = capacity
        /\ outlived \subseteq outlived'
        /\ outlived' = {} => Holding' \subseteq Holding
    BY DEF ReleaseExpiredHolds, TypeOK, Holding, request, money
  <2> QED BY <2>1, FewerHeld
<1> QED BY <1>1, <1>2, <1>3, <1>5, <1>6, <1>7, <1>4

LEMMA FetchStaleKeeps ==
  ASSUME IInv, FetchStale
  PROVE  IInv'
<1> USE DEF IInv, LocalInv
<1>1. NeverOversold'
  <2>1. /\ reserved' = reserved /\ capacity' = capacity
        /\ \A q \in Requests :
              booking'[q] = "confirmed" <=> booking[q] = "confirmed"
    BY DEF FetchStale, TypeOK, Stages, request, seats, money, Unpaid
  <2> QED BY <2>1, SameConfirmed
<1>2. TypeOK'
  BY DEF FetchStale, TypeOK, request, seats, money, Steps, Unpaid
<1>3. Stages'
  BY DEF FetchStale, TypeOK, Stages, request, seats, money, Unpaid
<1>4. Second'
  BY DEF FetchStale, TypeOK, Second, request, seats, money
<1>5. Widget'
  BY DEF FetchStale, TypeOK, Stages, Widget, request, seats, money, Unpaid
<1>6. Kept'
  BY DEF FetchStale, TypeOK, Stages, Second, Widget, Kept, request, seats,
       money, Unpaid, Building
<1>7. HeldFit'
  <2>1. /\ reserved' \in Nat /\ reserved' <= reserved /\ capacity' = capacity
        /\ outlived \subseteq outlived'
        /\ outlived' = {} => Holding' \subseteq Holding
    BY DEF FetchStale, TypeOK, Holding, request, seats, money
  <2> QED BY <2>1, FewerHeld
<1> QED BY <1>1, <1>2, <1>3, <1>5, <1>6, <1>7, <1>4

LEMMA CreateHoldKeeps ==
  ASSUME IInv, NEW r \in Requests, CreateHold(r)
  PROVE  IInv'
<1> USE DEF IInv, LocalInv
<1>1. NeverOversold'
  <2>1. /\ reserved' = reserved /\ capacity' = capacity
        /\ \A q \in Requests :
              booking'[q] = "confirmed" <=> booking[q] = "confirmed"
    BY DEF CreateHold, CanHold, Available, Goto, TypeOK, Stages, money, Unpaid
  <2> QED BY <2>1, SameConfirmed
<1>2. TypeOK'
  BY DEF CreateHold, CanHold, Available, Goto, TypeOK, money, Steps, Unpaid
<1>3. Stages'
  BY DEF CreateHold, CanHold, Available, Goto, TypeOK, Stages, money, Unpaid
<1>4. Second'
  BY DEF CreateHold, CanHold, Available, Goto, TypeOK, Second, money
<1>5. Widget'
  BY DEF CreateHold, CanHold, Available, Goto, TypeOK, Stages, Widget, money,
       Unpaid
<1>6. Kept'
  BY DEF CreateHold, CanHold, Available, Goto, TypeOK, Stages, Second, Widget,
       Kept, money, Unpaid, Building
<1>7. HeldFit'
  <2>1. CASE Holding' \subseteq Holding
    <3>1. /\ reserved' \in Nat /\ reserved' <= reserved
          /\ capacity' = capacity /\ outlived' = outlived
      BY DEF CreateHold, seats, TypeOK
    <3> QED BY <2>1, <3>1, FewerHeld
  <2>2. CASE ~(Holding' \subseteq Holding)
    <3>1. /\ CanHold(r) /\ reserved' = reserved /\ capacity' = capacity
          /\ Holding' = Holding \cup {r} /\ r \notin Holding
      BY <2>2 DEF CreateHold, seats, Holding, TypeOK, Goto, Stages
    <3>2. SeatsOf(Holding \cup {r}) = SeatsOf(Holding) + Seats[r]
      BY <3>1, SeatsWith DEF Holding
    <3>3. SeatsOf(Holding) \in Nat
      BY SeatsNat DEF Holding
    <3>4. SeatsOf(Holding') = SeatsOf(Holding) + Seats[r]
      BY <3>1, <3>2
    <3>5. reserved + (SeatsOf(Holding) + Seats[r]) <= capacity
      BY <3>1, <3>3, SeatsAssumed DEF CanHold, Available, TypeOK
    <3> QED BY <3>1, <3>4, <3>5 DEF HeldFit
  <2> QED BY <2>1, <2>2
<1> QED BY <1>1, <1>2, <1>3, <1>5, <1>6, <1>7, <1>4

LEMMA CancelConfirmedKeeps ==
  ASSUME IInv, NEW r \in Requests, CancelConfirmed(r)
  PROVE  IInv'
<1> USE DEF IInv, LocalInv
<1> DEFINE C == {q \in Requests : booking[q] = "confirmed"}
<1>1. /\ r \in C /\ C' = C \ {r}
      /\ reserved' = reserved - Seats[r] /\ capacity' = capacity
  BY DEF CancelConfirmed, StillConfirmed, Booked, request, TypeOK
<1>2. SeatsOf(C) = Seats[r] + SeatsOf(C \ {r}) /\ SeatsOf(C \ {r}) \in Nat
  BY <1>1, SeatsWithout
<1>3. reserved = SeatsOf(C) /\ reserved <= capacity
  BY DEF NeverOversold
<1>4. /\ reserved' = SeatsOf(C \ {r})
       /\ reserved' \in Nat /\ reserved' <= reserved /\ reserved' <= capacity
  BY <1>1, <1>2, <1>3, SeatsAssumed DEF TypeOK
<1>5. SeatsOf(C)' = SeatsOf(C \ {r})
  BY <1>1
<1>6. NeverOversold'
  BY <1>1, <1>4, <1>5 DEF NeverOversold
<1>7. TypeOK'
  BY <1>4 DEF CancelConfirmed, StillConfirmed, Booked, TypeOK, request,
       Steps, Unpaid
<1>8. Stages'
  BY DEF CancelConfirmed, StillConfirmed, Booked, TypeOK, Stages, request,
       Unpaid
<1>9. Second'
  BY DEF CancelConfirmed, StillConfirmed, Booked, TypeOK, Second, request
<1>10. Widget'
  BY DEF CancelConfirmed, StillConfirmed, Booked, TypeOK, Stages, Widget,
       request, Unpaid
<1>11. Kept'
  BY DEF CancelConfirmed, StillConfirmed, Booked, TypeOK, Stages, Second,
       Widget, Kept, request, Unpaid, Building
<1>12. HeldFit'
  <2>1. /\ reserved' \in Nat /\ reserved' <= reserved /\ capacity' = capacity
        /\ outlived \subseteq outlived'
        /\ outlived' = {} => Holding' \subseteq Holding
    BY <1>4 DEF CancelConfirmed, StillConfirmed, Booked, TypeOK, Holding,
         request
  <2> QED BY <2>1, FewerHeld
<1> QED BY <1>6, <1>7, <1>8, <1>10, <1>11, <1>12, <1>9

LEMMA CancelDepartureKeeps ==
  ASSUME IInv, CancelDeparture
  PROVE  IInv'
<1> USE DEF IInv, LocalInv
<1> DEFINE C == {q \in Requests : booking[q] = "confirmed"}
<1>1. C' = {} /\ reserved' = 0 /\ capacity' = capacity
  BY DEF CancelDeparture, request, TypeOK
<1>2. SeatsOf(C)' = 0
  BY <1>1, SeatsOfIsSum, SumEmpty
<1>3. NeverOversold'
  BY <1>1, <1>2 DEF NeverOversold, TypeOK
<1>4. TypeOK'
  BY DEF CancelDeparture, TypeOK, request, Steps, Unpaid
<1>5. Stages'
  BY DEF CancelDeparture, TypeOK, Stages, request, Unpaid
<1>6. Second'
  BY DEF CancelDeparture, TypeOK, Second, request
<1>7. Widget'
  BY DEF CancelDeparture, TypeOK, Stages, Widget, request, Unpaid
<1>8. Kept'
  BY DEF CancelDeparture, TypeOK, Stages, Second, Widget, Kept, request,
       Unpaid, Building
<1>9. HeldFit'
  <2>1. /\ reserved' \in Nat /\ reserved' <= reserved /\ capacity' = capacity
        /\ outlived \subseteq outlived'
        /\ outlived' = {} => Holding' \subseteq Holding
    BY DEF CancelDeparture, TypeOK, Holding, request
  <2> QED BY <2>1, FewerHeld
<1> QED BY <1>3, <1>4, <1>5, <1>7, <1>8, <1>9, <1>6

-----------------------------------------------------------------------------
(* A payment that settles.                                                 *)

\* What confirm_booking of the agreed amount may do: nothing to a booking that
\* is not unpaid; otherwise it ends the hold, and seats are only taken when
\* they are there.
Taken(r) == booking[r] # "confirmed" /\ booking'[r] = "confirmed"

Settled(r) ==
    /\ booking' \in [Requests -> Unpaid \cup
          {"none", "confirmed", "cancelled", "payment_mismatch",
           "overbooked_refunded"}]
    /\ hold' \in [Requests -> {"none", "active", "paying", "converted",
                               "released", "expired"}]
    /\ row' \in [Requests -> {"none", "pending", "failed", "succeeded"}]
    /\ refund' \in [Requests -> {"none", "late_payment", "overbooked_refunded",
                                 "requested_by_customer", "not_due"}]
    /\ reserved' \in Nat
    /\ \A q \in Requests \ {r} :
          booking'[q] = booking[q] /\ hold'[q] = hold[q]
    /\ booking[r] \notin Unpaid => booking'[r] = booking[r] /\ hold'[r] = hold[r]
    /\ booking[r] \in Unpaid =>
          /\ booking'[r] \in {"cancelled", "confirmed", "overbooked_refunded"}
          /\ hold'[r] \in {"converted", "released", hold[r]}
          /\ hold'[r] \notin {"active", "paying"}
    /\ Taken(r) => /\ booking[r] \in Unpaid
                   /\ reserved' = reserved + Seats[r] /\ reserved' <= capacity
    /\ ~Taken(r) => reserved' = reserved

LEMMA ConfirmSettles ==
  ASSUME TypeOK, NEW r \in Requests, ConfirmBooking(r, FALSE)
  PROVE  Settled(r)
<1>1. Seats[r] \in Nat /\ reserved \in Nat /\ capacity \in Nat
  BY SeatsAssumed DEF TypeOK
<1>2. booking[r] \in Unpaid =>
         booking[r] \notin {"cancelled", "confirmed", "overbooked_refunded"}
  BY DEF Unpaid
<1>3. \/ /\ booking[r] \notin Unpaid
         /\ booking' = [booking EXCEPT ![r] = @] /\ hold' = hold
         /\ reserved' = reserved
      \/ /\ booking[r] \in Unpaid
         /\ booking' = [booking EXCEPT ![r] = "cancelled"]
         /\ hold' = Released(r) /\ reserved' = reserved
      \/ /\ booking[r] \in Unpaid
         /\ booking' = [booking EXCEPT ![r] = "overbooked_refunded"]
         /\ hold' = [hold EXCEPT ![r] = "released"] /\ reserved' = reserved
      \/ /\ booking[r] \in Unpaid /\ reserved + Seats[r] <= capacity
         /\ booking' = [booking EXCEPT ![r] = "confirmed"]
         /\ hold' = [hold EXCEPT ![r] = "converted"]
         /\ reserved' = reserved + Seats[r]
  <2>1. CASE booking[r] \notin Unpaid
    <3>1. reserved' = reserved
      BY <2>1 DEF ConfirmBooking
    <3>2. hold' = hold
      BY <2>1 DEF ConfirmBooking
    <3>3. booking' = [booking EXCEPT ![r] = @]
      BY <2>1 DEF ConfirmBooking, TypeOK
    <3> QED BY <2>1, <3>1, <3>2, <3>3
  <2>2. CASE booking[r] \in Unpaid /\ dep = "cancelled"
    <3>1. reserved' = reserved
      BY <2>2 DEF ConfirmBooking
    <3>2. hold' = Released(r)
      BY <2>2 DEF ConfirmBooking
    <3>3. booking' = [booking EXCEPT ![r] = "cancelled"]
      BY <2>2 DEF ConfirmBooking
    <3> QED BY <2>2, <3>1, <3>2, <3>3
  <2>3. CASE booking[r] \in Unpaid /\ dep # "cancelled" /\ Overbooked(r)
    <3>1. reserved' = reserved
      BY <2>3 DEF ConfirmBooking
    <3>2. hold' = [hold EXCEPT ![r] = "released"]
      BY <2>3 DEF ConfirmBooking
    <3>3. booking' = [booking EXCEPT ![r] = "overbooked_refunded"]
      BY <2>3 DEF ConfirmBooking
    <3> QED BY <2>3, <3>1, <3>2, <3>3
  <2>4. CASE booking[r] \in Unpaid /\ dep # "cancelled" /\ ~Overbooked(r)
    <3>1. reserved' = reserved + Seats[r]
      BY <2>4 DEF ConfirmBooking
    <3>2. hold' = [hold EXCEPT ![r] = "converted"]
      BY <2>4 DEF ConfirmBooking
    <3>3. booking' = [booking EXCEPT ![r] = "confirmed"]
      BY <2>4 DEF ConfirmBooking
    <3>4. reserved + Seats[r] <= capacity
      BY <1>1, <2>4 DEF Overbooked
    <3> QED BY <2>4, <3>1, <3>2, <3>3, <3>4
  <2> QED BY <2>1, <2>2, <2>3, <2>4
<1>4. /\ row' \in [Requests -> {"none", "pending", "failed", "succeeded"}]
      /\ refund' \in [Requests -> {"none", "late_payment", "overbooked_refunded",
                                   "requested_by_customer", "not_due"}]
  BY DEF ConfirmBooking, TypeOK
<1>5. /\ booking' \in [Requests -> Unpaid \cup
            {"none", "confirmed", "cancelled", "payment_mismatch",
             "overbooked_refunded"}]
      /\ hold' \in [Requests -> {"none", "active", "paying", "converted",
                                 "released", "expired"}]
      /\ reserved' \in Nat
  BY <1>1, <1>3 DEF TypeOK, Released, HoldIf
<1>6. \A q \in Requests \ {r} :
         booking'[q] = booking[q] /\ hold'[q] = hold[q]
  BY <1>3 DEF TypeOK, Released, HoldIf
<1>7. booking[r] \notin Unpaid => booking'[r] = booking[r] /\ hold'[r] = hold[r]
  BY <1>3 DEF TypeOK
<1>8. booking[r] \in Unpaid =>
         /\ booking'[r] \in {"cancelled", "confirmed", "overbooked_refunded"}
         /\ hold'[r] \in {"converted", "released", hold[r]}
         /\ hold'[r] \notin {"active", "paying"}
  BY <1>3 DEF TypeOK, Released, HoldIf
<1>9. Taken(r) => /\ booking[r] \in Unpaid
                  /\ reserved' = reserved + Seats[r] /\ reserved' <= capacity
  BY <1>3 DEF TypeOK, Taken
<1>10. ~Taken(r) => reserved' = reserved
  BY <1>2, <1>3 DEF TypeOK, Taken
<1> QED BY <1>4, <1>5, <1>6, <1>7, <1>8, <1>9, <1>10 DEF Settled

\* The seats are counted before they are taken, and the booking that takes
\* them gives its own hold up for them.
LEMMA SettledFits ==
  ASSUME TypeOK, NeverOversold, HeldFit, NEW r \in Requests, Settled(r),
         capacity' = capacity, lapsed' = lapsed, outlived' = outlived,
         outlived = {} /\ booking[r] \in Unpaid => hold[r] = "paying"
  PROVE  NeverOversold' /\ HeldFit'
<1> DEFINE C == {q \in Requests : booking[q] = "confirmed"}
<1>1. CASE ~Taken(r)
  <2>1. reserved' = reserved
    BY <1>1 DEF Settled
  <2>2. \A q \in Requests : booking'[q] = "confirmed" <=> booking[q] = "confirmed"
    BY <1>1 DEF Settled, Taken, Unpaid
  <2>3. Holding' \subseteq Holding
    BY DEF Settled, Holding
  <2>4. reserved' \in Nat /\ reserved' <= reserved
    BY <2>1 DEF TypeOK
  <2> QED BY <2>1, <2>2, <2>3, <2>4, SameConfirmed, FewerHeld
<1>2. CASE Taken(r)
  <2>1. /\ booking[r] \in Unpaid
        /\ reserved' = reserved + Seats[r] /\ reserved' <= capacity
        /\ r \notin C /\ C' = C \cup {r}
    BY <1>2 DEF Settled, Taken
  <2>2. NeverOversold'
    <3>1. SeatsOf(C \cup {r}) = SeatsOf(C) + Seats[r]
      BY <2>1, SeatsWith
    <3>2. SeatsOf(C)' = SeatsOf(C) + Seats[r]
      BY <2>1, <3>1
    <3>3. reserved = SeatsOf(C)
      BY DEF NeverOversold
    <3>4. SeatsOf(C)' = reserved'
      BY <2>1, <3>2, <3>3
    <3> QED BY <2>1, <3>4 DEF NeverOversold
  <2>3. ASSUME outlived = {}
        PROVE  reserved' + SeatsOf(Holding') <= capacity
    <3>1. r \in Holding /\ Holding' = Holding \ {r}
      BY <2>1, <2>3 DEF Settled, Holding
    <3>2. /\ SeatsOf(Holding) = Seats[r] + SeatsOf(Holding \ {r})
          /\ SeatsOf(Holding \ {r}) \in Nat
      BY <3>1, SeatsWithout DEF Holding
    <3>3. reserved + SeatsOf(Holding) <= capacity
      BY <2>3 DEF HeldFit
    <3>4. Seats[r] \in Nat /\ reserved \in Nat /\ capacity \in Nat
      BY SeatsAssumed DEF TypeOK
    <3>5. (reserved + Seats[r]) + SeatsOf(Holding \ {r}) <= capacity
      BY <3>2, <3>3, <3>4
    <3> QED BY <2>1, <3>1, <3>5
  <2> QED BY <2>2, <2>3 DEF HeldFit
<1> QED BY <1>1, <1>2

\* The webhook and the reconciler, by what they found at the gateway.
PaidWebhook(r) ==
    /\ intent[r] = "succeeded" /\ r \notin event
    /\ ConfirmBooking(r, FALSE)
    /\ event' = event \cup {r}
    /\ UNCHANGED <<request, lapsed, outlived, dep, old, intent, cycle>>

FlaggedWebhook(r) ==
    /\ intent[r] = "succeeded_other"
    /\ FlagMismatch(r)
    /\ UNCHANGED <<request, lapsed, outlived, dep, old, intent, cycle,
                   reserved, row, refund, event>>

UnpaidOutcome(r) ==
    /\ cycle[r] \in {"no_payment", "not_paid"}
    /\ CancelStalePending(r)
    /\ cycle' = [cycle EXCEPT ![r] = "idle"]
    /\ UNCHANGED <<request, lapsed, outlived, dep, old, intent, event,
                   reserved, refund>>

PaidOutcome(r) ==
    /\ cycle[r] = "paid"
    /\ ConfirmBooking(r, FALSE)
    /\ cycle' = [cycle EXCEPT ![r] = "idle"]
    /\ UNCHANGED <<request, lapsed, outlived, dep, old, intent, event>>

FlaggedOutcome(r) ==
    /\ cycle[r] = "paid_other"
    /\ FlagMismatch(r)
    /\ cycle' = [cycle EXCEPT ![r] = "idle"]
    /\ UNCHANGED <<request, lapsed, outlived, dep, old, intent, event,
                   reserved, row, refund>>

LEMMA ByOutcome ==
  ASSUME NEW r \in Requests
  PROVE  /\ Webhook(r) => PaidWebhook(r) \/ FlaggedWebhook(r)
         /\ ApplyOutcome(r) =>
               UnpaidOutcome(r) \/ PaidOutcome(r) \/ FlaggedOutcome(r)
<1>1. Webhook(r) => PaidWebhook(r) \/ FlaggedWebhook(r)
  BY DEF Webhook, PaidWebhook, FlaggedWebhook
<1>2. ApplyOutcome(r) =>
         UnpaidOutcome(r) \/ PaidOutcome(r) \/ FlaggedOutcome(r)
  BY DEF ApplyOutcome, UnpaidOutcome, PaidOutcome, FlaggedOutcome
<1> QED BY <1>1, <1>2

LEMMA PaidWebhookKeeps ==
  ASSUME IInv, NEW r \in Requests, r \notin deferred, PaidWebhook(r)
  PROVE  IInv'
<1> USE DEF IInv, LocalInv
<1>1. Settled(r)
  BY ConfirmSettles DEF PaidWebhook
<1>2. UNCHANGED <<capacity, deferred, pc, step2, lapsed, outlived, dep, old>>
  BY DEF PaidWebhook, request
<1>3. r \notin deferred /\ pc[r] = "done"
  BY DEF PaidWebhook, Widget
<1>4. outlived = {} /\ booking[r] \in Unpaid => hold[r] = "paying"
  BY <1>3 DEF Kept, TypeOK
<1>5. NeverOversold' /\ HeldFit'
  BY <1>1, <1>2, <1>4, SettledFits
<1>6. /\ intent' \in [Requests -> {"none", "requires_payment_method",
            "processing", "succeeded", "succeeded_other", "canceled"}]
      /\ cycle' \in [Requests -> {"idle", "no_payment", "ask", "paid",
                                  "paid_other", "not_paid"}]
      /\ event' \subseteq Requests
      /\ \A q \in Requests : /\ cycle'[q] \in {cycle[q], "idle"}
                             /\ intent'[q] \in {intent[q], "succeeded"}
                             /\ q \notin deferred => intent'[q] = intent[q]
  BY DEF PaidWebhook, TypeOK
<1>7. TypeOK'
  BY <1>1, <1>2, <1>6 DEF Settled, TypeOK
<1>8. Stages'
  BY <1>1, <1>2 DEF Settled, Stages, TypeOK, Unpaid
<1>9. Second'
  BY <1>2 DEF Second
<1>10. Widget'
  BY <1>1, <1>2, <1>6 DEF Settled, Widget, TypeOK, Unpaid
<1>11. Kept'
  BY <1>1, <1>2, <1>3 DEF Settled, Kept, Stages, Building, TypeOK, Unpaid
<1> QED BY <1>5, <1>7, <1>8, <1>9, <1>10, <1>11

LEMMA PaidOutcomeKeeps ==
  ASSUME IInv, NEW r \in Requests, r \notin deferred, PaidOutcome(r)
  PROVE  IInv'
<1> USE DEF IInv, LocalInv
<1>1. Settled(r)
  BY ConfirmSettles DEF PaidOutcome
<1>2. UNCHANGED <<capacity, deferred, pc, step2, lapsed, outlived, dep, old>>
  BY DEF PaidOutcome, request
<1>3. r \notin deferred /\ pc[r] = "done"
  BY DEF PaidOutcome, Widget
<1>4. outlived = {} /\ booking[r] \in Unpaid => hold[r] = "paying"
  BY <1>3 DEF Kept, TypeOK
<1>5. NeverOversold' /\ HeldFit'
  BY <1>1, <1>2, <1>4, SettledFits
<1>6. /\ intent' \in [Requests -> {"none", "requires_payment_method",
            "processing", "succeeded", "succeeded_other", "canceled"}]
      /\ cycle' \in [Requests -> {"idle", "no_payment", "ask", "paid",
                                  "paid_other", "not_paid"}]
      /\ event' \subseteq Requests
      /\ \A q \in Requests : /\ cycle'[q] \in {cycle[q], "idle"}
                             /\ intent'[q] \in {intent[q], "succeeded"}
                             /\ q \notin deferred => intent'[q] = intent[q]
  BY DEF PaidOutcome, TypeOK
<1>7. TypeOK'
  BY <1>1, <1>2, <1>6 DEF Settled, TypeOK
<1>8. Stages'
  BY <1>1, <1>2 DEF Settled, Stages, TypeOK, Unpaid
<1>9. Second'
  BY <1>2 DEF Second
<1>10. Widget'
  BY <1>1, <1>2, <1>6 DEF Settled, Widget, TypeOK, Unpaid
<1>11. Kept'
  BY <1>1, <1>2, <1>3 DEF Settled, Kept, Stages, Building, TypeOK, Unpaid
<1> QED BY <1>5, <1>7, <1>8, <1>9, <1>10, <1>11

LEMMA ChargeSettlesKeeps ==
  ASSUME IInv, NEW r \in Requests, r \in deferred, ChargeSettles(r)
  PROVE  IInv'
<1> USE DEF IInv, LocalInv
<1>1. Settled(r)
  BY ConfirmSettles DEF ChargeSettles
<1>2. UNCHANGED <<capacity, deferred, pc, step2, lapsed, outlived, dep, old>>
  BY DEF ChargeSettles, request
<1>3. r \in deferred
  BY DEF ChargeSettles, Widget
<1>4. outlived = {} /\ booking[r] \in Unpaid => hold[r] = "paying"
  BY <1>3 DEF Kept, TypeOK
<1>5. NeverOversold' /\ HeldFit'
  BY <1>1, <1>2, <1>4, SettledFits
<1>6. /\ intent' \in [Requests -> {"none", "requires_payment_method",
            "processing", "succeeded", "succeeded_other", "canceled"}]
      /\ cycle' \in [Requests -> {"idle", "no_payment", "ask", "paid",
                                  "paid_other", "not_paid"}]
      /\ event' \subseteq Requests
      /\ \A q \in Requests : /\ cycle'[q] \in {cycle[q], "idle"}
                             /\ intent'[q] \in {intent[q], "succeeded"}
                             /\ q \notin deferred => intent'[q] = intent[q]
  BY DEF ChargeSettles, TypeOK
<1>7. TypeOK'
  BY <1>1, <1>2, <1>6 DEF Settled, TypeOK
<1>8. Stages'
  BY <1>1, <1>2 DEF Settled, Stages, TypeOK, Unpaid
<1>9. Second'
  BY <1>2 DEF Second
<1>10. Widget'
  BY <1>1, <1>2, <1>6 DEF Settled, Widget, TypeOK, Unpaid
<1>11. Kept'
  BY <1>1, <1>2, <1>3 DEF Settled, Kept, Stages, Building, TypeOK, Unpaid
<1> QED BY <1>5, <1>7, <1>8, <1>9, <1>10, <1>11

LEMMA FlaggedWebhookKeeps ==
  ASSUME IInv, NEW r \in Requests, r \notin deferred, FlaggedWebhook(r)
  PROVE  IInv'
<1> USE DEF IInv, LocalInv
<1>1. NeverOversold'
  <2>1. /\ reserved' = reserved /\ capacity' = capacity
        /\ \A q \in Requests :
              booking'[q] = "confirmed" <=> booking[q] = "confirmed"
    BY DEF FlaggedWebhook, FlagMismatch, Booked, Released, HoldIf, TypeOK,
         Stages, request, Unpaid
  <2> QED BY <2>1, SameConfirmed
<1>2. TypeOK'
  BY DEF FlaggedWebhook, FlagMismatch, Booked, Released, HoldIf, TypeOK,
       request, Steps, Unpaid
<1>3. Stages'
  BY DEF FlaggedWebhook, FlagMismatch, Booked, Released, HoldIf, TypeOK,
       Stages, request, Unpaid
<1>4. Second'
  BY DEF FlaggedWebhook, FlagMismatch, Booked, Released, HoldIf, TypeOK,
       Second, request
<1>5. Widget'
  BY DEF FlaggedWebhook, FlagMismatch, Booked, Released, HoldIf, TypeOK,
       Stages, Widget, request, Unpaid
<1>6. Kept'
  BY DEF FlaggedWebhook, FlagMismatch, Booked, Released, HoldIf, TypeOK,
       Stages, Second, Widget, Kept, request, Unpaid, Building
<1>7. HeldFit'
  <2>1. /\ reserved' \in Nat /\ reserved' <= reserved /\ capacity' = capacity
        /\ outlived \subseteq outlived'
        /\ outlived' = {} => Holding' \subseteq Holding
    BY DEF FlaggedWebhook, FlagMismatch, Booked, Released, HoldIf, TypeOK,
         Holding, request
  <2> QED BY <2>1, FewerHeld
<1> QED BY <1>1, <1>2, <1>3, <1>5, <1>6, <1>7, <1>4

LEMMA FlaggedOutcomeKeeps ==
  ASSUME IInv, NEW r \in Requests, r \notin deferred, FlaggedOutcome(r)
  PROVE  IInv'
<1> USE DEF IInv, LocalInv
<1>1. /\ booking' \in [Requests -> Unpaid \cup
            {"none", "confirmed", "cancelled", "payment_mismatch",
             "overbooked_refunded"}]
      /\ hold' \in [Requests -> {"none", "active", "paying", "converted",
                                 "released", "expired"}]
  BY DEF FlaggedOutcome, FlagMismatch, Booked, Released, HoldIf, TypeOK
<1>2. cycle' \in [Requests -> {"idle", "no_payment", "ask", "paid",
                              "paid_other", "not_paid"}]
  BY DEF FlaggedOutcome, TypeOK
<1>3. NeverOversold'
  <2>1. /\ reserved' = reserved /\ capacity' = capacity
        /\ \A q \in Requests :
              booking'[q] = "confirmed" <=> booking[q] = "confirmed"
    BY DEF FlaggedOutcome, FlagMismatch, Booked, Released, HoldIf, TypeOK,
         Stages, request, Unpaid
  <2> QED BY <2>1, SameConfirmed
<1>4. TypeOK'
  BY <1>1, <1>2 DEF FlaggedOutcome, FlagMismatch, Booked, Released, HoldIf,
       TypeOK, request, Steps, Unpaid
<1>5. Stages'
  BY DEF FlaggedOutcome, FlagMismatch, Booked, Released, HoldIf, TypeOK,
       Stages, request, Unpaid
<1>6. Second'
  BY DEF FlaggedOutcome, FlagMismatch, Booked, Released, HoldIf, TypeOK,
       Second, request
<1>7. Widget'
  BY DEF FlaggedOutcome, FlagMismatch, Booked, Released, HoldIf, TypeOK,
       Stages, Widget, request, Unpaid
<1>8. Kept'
  BY DEF FlaggedOutcome, FlagMismatch, Booked, Released, HoldIf, TypeOK,
       Stages, Second, Widget, Kept, request, Unpaid, Building
<1>9. HeldFit'
  <2>1. /\ reserved' \in Nat /\ reserved' <= reserved /\ capacity' = capacity
        /\ outlived \subseteq outlived'
        /\ outlived' = {} => Holding' \subseteq Holding
    BY DEF FlaggedOutcome, FlagMismatch, Booked, Released, HoldIf, TypeOK,
         Holding, request
  <2> QED BY <2>1, FewerHeld
<1> QED BY <1>3, <1>4, <1>5, <1>7, <1>8, <1>9, <1>6

LEMMA UnpaidOutcomeKeeps ==
  ASSUME IInv, NEW r \in Requests, r \notin deferred, UnpaidOutcome(r)
  PROVE  IInv'
<1> USE DEF IInv, LocalInv
<1>1. NeverOversold'
  <2>1. /\ reserved' = reserved /\ capacity' = capacity
        /\ \A q \in Requests :
              booking'[q] = "confirmed" <=> booking[q] = "confirmed"
    BY DEF UnpaidOutcome, CancelStalePending, StaleCancels, Booked,
         ExpiredHold, HoldIf, TypeOK, Stages, request, Unpaid
  <2> QED BY <2>1, SameConfirmed
<1>2. TypeOK'
  BY DEF UnpaidOutcome, CancelStalePending, StaleCancels, Booked, ExpiredHold,
       HoldIf, TypeOK, request, Steps, Unpaid
<1>3. Stages'
  BY DEF UnpaidOutcome, CancelStalePending, StaleCancels, Booked, ExpiredHold,
       HoldIf, TypeOK, Stages, request, Unpaid
<1>4. Second'
  BY DEF UnpaidOutcome, CancelStalePending, StaleCancels, Booked, ExpiredHold,
       HoldIf, TypeOK, Second, request
<1>5. Widget'
  BY DEF UnpaidOutcome, CancelStalePending, StaleCancels, Booked, ExpiredHold,
       HoldIf, TypeOK, Stages, Widget, request, Unpaid
<1>6. Kept'
  BY DEF UnpaidOutcome, CancelStalePending, StaleCancels, Booked, ExpiredHold,
       HoldIf, TypeOK, Stages, Second, Widget, Kept, request, Unpaid, Building
<1>7. HeldFit'
  <2>1. /\ reserved' \in Nat /\ reserved' <= reserved /\ capacity' = capacity
        /\ outlived \subseteq outlived'
        /\ outlived' = {} => Holding' \subseteq Holding
    BY DEF UnpaidOutcome, CancelStalePending, StaleCancels, Booked,
         ExpiredHold, HoldIf, TypeOK, Holding, request
  <2> QED BY <2>1, FewerHeld
<1> QED BY <1>1, <1>2, <1>3, <1>5, <1>6, <1>7, <1>4

-----------------------------------------------------------------------------
(* The theorems.                                                           *)

LEMMA StutterKeeps ==
  ASSUME IInv, UNCHANGED vars
  PROVE  IInv'
<1> USE DEF vars, request, seats, money
<1>1. Holding' = Holding
  BY DEF Holding
<1>2. NeverOversold' /\ HeldFit'
  BY <1>1 DEF IInv, NeverOversold, HeldFit
<1>3. TypeOK' /\ Stages' /\ Second'
  BY DEF IInv, LocalInv, TypeOK, Stages, Second
<1>4. Widget' /\ Kept'
  BY DEF IInv, LocalInv, Widget, Kept
<1> QED BY <1>2, <1>3, <1>4 DEF IInv, LocalInv

LEMMA InitHolds ==
  ASSUME Init
  PROVE  IInv
<1>1. capacity \in Nat /\ deferred \subseteq Requests
  BY CheckoutAssumption DEF Init
<1>2. TypeOK
  BY <1>1 DEF Init, TypeOK
<1>3. Stages /\ Second /\ Widget /\ Kept
  BY DEF Init, Stages, Second, Widget, Kept, Unpaid, Building
<1>4. {q \in Requests : booking[q] = "confirmed"} = {} /\ Holding = {}
  BY DEF Init, Holding
<1>5. SeatsOf({}) = 0
  BY SeatsOfIsSum, SumEmpty
<1>6. NeverOversold
  BY <1>1, <1>4, <1>5 DEF NeverOversold, Init
<1>7. HeldFit
  BY <1>1, <1>4, <1>5 DEF HeldFit, Init
<1> QED BY <1>2, <1>3, <1>6, <1>7 DEF IInv, LocalInv

LEMMA ImmediateKeeps ==
  ASSUME IInv, NEW r \in Requests, ImmediateStep(r)
  PROVE  IInv'
<1>1. r \notin deferred
  BY DEF ImmediateStep
<1>2. CASE Webhook(r)
  BY <1>1, <1>2, ByOutcome, PaidWebhookKeeps, FlaggedWebhookKeeps
<1>3. CASE ApplyOutcome(r)
  BY <1>1, <1>3, ByOutcome, UnpaidOutcomeKeeps, PaidOutcomeKeeps,
     FlaggedOutcomeKeeps
<1>4. CASE InsertBooking(r) \/ CreatePaymentSession(r) \/ InsertPayment(r)
  BY <1>1, <1>4, InsertBookingKeeps, CreatePaymentSessionKeeps,
     InsertPaymentKeeps
<1>5. CASE PromoteHold(r) \/ Pay(r) \/ GatewaySettles(r) \/ BookingAges(r)
  BY <1>1, <1>5, PromoteHoldKeeps, PayKeeps, GatewaySettlesKeeps,
     BookingAgesKeeps
<1>6. CASE GetPaymentIntent(r) \/ SkipBooking(r)
  BY <1>1, <1>6, GetPaymentIntentKeeps, SkipBookingKeeps
<1> QED BY <1>2, <1>3, <1>4, <1>5, <1>6 DEF ImmediateStep

LEMMA DeferredKeeps ==
  ASSUME IInv, NEW r \in Requests, DeferredStep(r)
  PROVE  IInv'
<1>1. r \in deferred
  BY DEF DeferredStep
<1>2. CASE CreateCustomer(r) \/ LinkCustomer(r)
  BY <1>1, <1>2, CreateCustomerKeeps, LinkCustomerKeeps
<1>3. CASE ChargeSettles(r) \/ ChargeGivesUp(r)
  BY <1>1, <1>3, ChargeSettlesKeeps, ChargeGivesUpKeeps
<1>4. ASSUME NEW c \in Calls(r),
             \/ ReadHold(r, c) \/ RefuseCard(r, c)
             \/ CreateDeferredBooking(r, c) \/ RefuseDeferredBooking(r, c)
             \/ ReleaseHoldOverCap(r, c)
      PROVE  IInv'
  <2>1. c \in {1, 2}
    BY DEF Calls
  <2> QED BY <1>1, <1>4, <2>1, ReadHoldKeeps, RefuseCardKeeps,
             CreateDeferredBookingKeeps, RefuseDeferredBookingKeeps,
             ReleaseHoldOverCapKeeps
<1> QED BY <1>2, <1>3, <1>4 DEF DeferredStep

LEMMA NextKeeps ==
  ASSUME IInv, [Next]_vars
  PROVE  IInv'
<1>1. ASSUME NEW r \in Requests,
             \/ Submit(r) \/ CreateHold(r) \/ Undo(r)
             \/ CancelConfirmed(r) \/ HoldLapses(r)
             \/ ImmediateStep(r) \/ DeferredStep(r)
      PROVE  IInv'
  BY <1>1, SubmitKeeps, CreateHoldKeeps, UndoKeeps, CancelConfirmedKeeps,
     HoldLapsesKeeps, ImmediateKeeps, DeferredKeeps
<1>2. CASE CancelDeparture \/ ReleaseExpiredHolds \/ FetchStale
  BY <1>2, CancelDepartureKeeps, ReleaseExpiredHoldsKeeps, FetchStaleKeeps
<1>3. CASE UNCHANGED vars
  BY <1>3, StutterKeeps
<1> QED BY <1>1, <1>2, <1>3 DEF Next

\* The inductive invariant holds in every behaviour of the checkout.
THEOREM CheckoutInvariant == Spec => []IInv
<1>1. Init => IInv
  BY InitHolds
<1>2. IInv /\ [Next]_vars => IInv'
  BY NextKeeps
<1> QED BY <1>1, <1>2, PTL DEF Spec

\* Every variable keeps its type; capacity_reserved never goes below zero.
THEOREM CheckoutTypeOK == Spec => []TypeOK
<1>1. IInv => TypeOK
  BY DEF IInv, LocalInv
<1> QED BY <1>1, CheckoutInvariant, PTL

\* The seats counted on the departure are those of its confirmed bookings and
\* fit in it, for any requests, tickets and capacity (confirm_booking,
\* cancel_booking, cancel_departure).
THEOREM CheckoutNeverOversold == Spec => []NeverOversold
<1>1. IInv => NeverOversold
  BY DEF IInv
<1> QED BY <1>1, CheckoutInvariant, PTL

\* A booking that waits for its payment keeps its seats from the moment its
\* checkout answered, and no seats are kept for a booking that ended.
THEOREM CheckoutPromisedIsHeld == Spec => []PromisedIsHeld
<1>1. IInv => PromisedIsHeld
  BY DEF IInv, LocalInv, TypeOK, Kept, Stages, PromisedIsHeld
<1> QED BY <1>1, CheckoutInvariant, PTL

\* While no request outlives its own hold, the seats sold and the seats of the
\* bookings that wait for their payment fit in the departure together, so
\* that nobody who pays in time is turned away (create_hold_atomic counts the
\* holds in payment).
THEOREM CheckoutPromisesFit == Spec => []PromisesFit
<1>1. IInv => PromisesFit
  <2> SUFFICES ASSUME IInv, outlived = {}
               PROVE  reserved + SeatsOf(Promised) <= capacity
    BY DEF PromisesFit
  <2>1. Promised \subseteq Holding
    BY DEF IInv, LocalInv, Kept, Stages, TypeOK, Promised, Holding
  <2>2. Holding \in SUBSET Requests
    BY DEF Holding
  <2>3. SeatsOf(Promised) <= SeatsOf(Holding)
    BY <2>1, <2>2, SeatsLess
  <2>4. SeatsOf(Promised) \in Nat /\ SeatsOf(Holding) \in Nat
    BY <2>1, <2>2, SeatsNat
  <2>5. reserved + SeatsOf(Holding) <= capacity
    BY DEF IInv, HeldFit
  <2>6. reserved \in Nat /\ capacity \in Nat
    BY DEF IInv, LocalInv, TypeOK
  <2> QED BY <2>3, <2>4, <2>5, <2>6
<1> QED BY <1>1, CheckoutInvariant, PTL

=============================================================================
