-------------------------- MODULE DeparturesProofs --------------------------
(***************************************************************************)
(* Proofs about Departures and DepartureBoard: whatever the departures,    *)
(* the bookings and the notices that are followed, the seats of every      *)
(* departure are those of its confirmed bookings, a change of date that is *)
(* recorded as told was told as it stands, no mail says of the money what  *)
(* is not so, and the panel offers what the database accepts.              *)
(***************************************************************************)
EXTENDS DepartureBoard, SumTheorems

-----------------------------------------------------------------------------
(* The inductive invariant.                                                *)

Texts == [mail : {"none"}] \cup
         [mail : {"written"}, date : Departures,
          money : {"nothing", "review", "refund", "no charge", "closed",
                   "no refund"}]

\* The row the job is at, and the last mail of every row.
QueueOK ==
    /\ told \in [Keys -> [gen : Nat \cup {-1}, about : Texts]]
    /\ \/ job = Idle
       \/ /\ job.at \in {"read", "send", "sent", "failed", "retry", "cancel"}
          /\ job \in [at : {"read", "send", "sent", "failed", "retry", "cancel"},
                      key : Keys, gen : Nat, attempts : Nat, about : Texts]

\* A mail that left is of a generation the row has or had, and so is the one
\* the job is at.
Generations ==
    /\ \A k \in Keys : /\ told[k].gen <= notif[k].gen
                       /\ notif[k].status = "none" => told[k].gen = -1
                       /\ told[k].gen = -1 => told[k].about = NotNow
    /\ job # Idle =>
          /\ notif[job.key].status # "none"
          /\ job.gen <= notif[job.key].gen
          /\ told[job.key].gen <= job.gen
          /\ job.at = "sent" => told[job.key].gen = job.gen

\* A booking that moves makes its notice one generation newer: a text of the
\* row's own generation has the date the booking has.
Dates ==
    \A k \in Keys :
        k[2] = "booking_rescheduled" =>
            /\ told[k].gen = notif[k].gen => told[k].about.date = at[k[1]]
            /\ notif[k].status = "sent" => told[k].gen = notif[k].gen
            /\ /\ job # Idle /\ job.key = k /\ job.at = "send"
               /\ job.gen = notif[k].gen
               => job.about.date = at[k[1]]

\* What the notices about money rest on, and that the team decides only of the
\* bookings of a cancelled departure
Ended ==
    /\ \A b \in Bookings : /\ status[b] = "confirmed" => b \in paid
                           /\ b \in review => status[b] = "confirmed"
                           /\ b \in review => dep[at[b]] # "available"
    /\ \A k \in Keys :
          notif[k].status # "none" =>
              /\ k[2] = "cancellation_confirmation" =>
                    status[k[1]] = "cancelled" /\ k[1] \in paid
              /\ k[2] = "overbooked_refunded" => k[1] \in refunded

\* A text that is true of a booking.
TrueOf(about, k) ==
    about # NotNow =>
        /\ about.money = "refund" => k[1] \in refunded
        /\ about.money \in {"closed", "no refund"} =>
              /\ k[1] \in paid \ refunded
              /\ k[2] = "cancellation_confirmation"

Texted ==
    /\ \A k \in Keys : TrueOf(told[k].about, k)
    /\ job # Idle => TrueOf(job.about, job.key)

IInv == /\ TypeOK /\ QueueOK /\ SeatsMatch
        /\ Generations /\ Dates /\ Ended /\ Texted

-----------------------------------------------------------------------------
(* Rows.                                                                   *)

Row == [status : {"none", "pending", "sent", "failed", "cancelled"},
        gen : Nat, attempts : Nat, due : Departures \cup {Now}]

\* What an operation may do to a row: the generation never goes back, and only
\* the job says that a mail was sent.
Later(old, new) ==
    /\ old.status # "none" => new.gen >= old.gen
    /\ new.status = "none" => old.status = "none"
    /\ new.status = "sent" => new = old

LEMMA RowOperations ==
  ASSUME NEW row \in Row, NEW due \in Departures \cup {Now}
  PROVE  /\ Enqueued(row, due) \in Row
         /\ Inserted(row, due) \in Row
         /\ Withdrawn(row) \in Row
         /\ Later(row, row)
         /\ Later(row, Enqueued(row, due))
         /\ Later(row, Inserted(row, due))
         /\ Later(row, Withdrawn(row))
<1>1. Enqueued(row, due) \in Row
  BY DEF Row, Enqueued
<1>2. Later(row, Enqueued(row, due)) /\ Later(row, row)
  BY DEF Row, Enqueued, Later
<1>3. Withdrawn(row) \in Row /\ Later(row, Withdrawn(row))
  BY DEF Row, Withdrawn, Later
<1> QED BY <1>1, <1>2, <1>3 DEF Inserted

LEMMA RowTwice ==
  ASSUME NEW row \in Row
  PROVE  /\ Withdrawn(Inserted(row, Now)) \in Row
         /\ Later(row, Withdrawn(Inserted(row, Now)))
<1>1. Inserted(row, Now) \in Row /\ Later(row, Inserted(row, Now))
  BY RowOperations
<1>2. Withdrawn(Inserted(row, Now)) \in Row
  BY <1>1, RowOperations
<1>3. Later(Inserted(row, Now), Withdrawn(Inserted(row, Now)))
  BY <1>1, RowOperations
<1> QED BY <1>1, <1>2, <1>3 DEF Later, Row

\* What every operation of the panel, of the jobs and of the tourist does to
\* the notices, whose job and whose mails it leaves alone.
OpStep ==
    /\ UNCHANGED <<job, told>>
    /\ notif' \in [Keys -> Row]
    /\ \A k \in Keys : Later(notif[k], notif'[k])
    /\ \A k \in Keys :
          k[2] = "booking_rescheduled" =>
              \/ notif'[k] = notif[k] /\ at'[k[1]] = at[k[1]]
              \/ notif'[k] = Enqueued(notif[k], Now)
    /\ refunded \subseteq refunded' /\ paid \subseteq paid'
    /\ \A b \in Bookings :
          status[b] = "cancelled" /\ b \notin refunded => b \notin refunded'

LEMMA KeysTyped ==
  ASSUME TypeOK, NEW k \in Keys
  PROVE  /\ k[1] \in Bookings /\ k[2] \in Kinds /\ k = <<k[1], k[2]>>
         /\ notif[k] \in Row
  BY DEF TypeOK, Row

LEMMA KeysStay ==
  ASSUME notif' \in [Keys -> Row]
  PROVE  Keys' = Keys
  BY DEF Keys

LEMMA OpGenerations ==
  ASSUME TypeOK, QueueOK, Generations, OpStep
  PROVE  Generations'
<1>1. Keys' = Keys
  BY KeysStay DEF OpStep
<1>2. \A k \in Keys : /\ notif[k] \in Row /\ notif'[k] \in Row
                      /\ Later(notif[k], notif'[k])
  BY KeysTyped DEF OpStep
<1>3. told' = told /\ job' = job
  BY DEF OpStep
<1>4. \A k \in Keys : told[k].gen \in Nat \cup {-1}
  BY DEF QueueOK
<1>5. \A k \in Keys : /\ told[k].gen <= notif'[k].gen
                      /\ notif'[k].status = "none" => told[k].gen = -1
                      /\ told[k].gen = -1 => told[k].about = NotNow
  BY <1>2, <1>4 DEF Generations, Later, Row
<1>6. job # Idle =>
         /\ notif'[job.key].status # "none"
         /\ job.gen <= notif'[job.key].gen
         /\ told[job.key].gen <= job.gen
         /\ job.at = "sent" => told[job.key].gen = job.gen
  <2>1. SUFFICES ASSUME job # Idle
                 PROVE  /\ notif'[job.key].status # "none"
                        /\ job.gen <= notif'[job.key].gen
    BY DEF Generations
  <2>2. job.key \in Keys /\ job.gen \in Nat
    BY <2>1 DEF QueueOK
  <2> QED BY <1>2, <2>1, <2>2 DEF Generations, Later, Row
<1> QED BY <1>1, <1>3, <1>5, <1>6 DEF Generations

LEMMA OpDates ==
  ASSUME TypeOK, QueueOK, Generations, Dates, OpStep
  PROVE  Dates'
<1>1. Keys' = Keys /\ told' = told /\ job' = job
  BY KeysStay DEF OpStep
<1>2. SUFFICES ASSUME NEW k \in Keys, k[2] = "booking_rescheduled"
               PROVE  /\ told[k].gen = notif'[k].gen =>
                            told[k].about.date = at'[k[1]]
                      /\ notif'[k].status = "sent" =>
                            told[k].gen = notif'[k].gen
                      /\ /\ job # Idle /\ job.key = k /\ job.at = "send"
                         /\ job.gen = notif'[k].gen
                         => job.about.date = at'[k[1]]
  BY <1>1 DEF Dates
<1>3. CASE notif'[k] = notif[k] /\ at'[k[1]] = at[k[1]]
  BY <1>2, <1>3 DEF Dates
<1>4. CASE notif'[k] = Enqueued(notif[k], Now)
  <2>1. notif[k] \in Row /\ told[k].gen \in Nat \cup {-1}
    BY KeysTyped DEF QueueOK
  <2>2. /\ notif'[k].status = "pending"
        /\ notif'[k].gen = IF notif[k].status = "none" THEN 0
                           ELSE notif[k].gen + 1
    BY <1>4 DEF Enqueued
  <2>3. told[k].gen # notif'[k].gen
    BY <2>1, <2>2 DEF Generations, Row
  <2>4. job # Idle /\ job.key = k => job.gen # notif'[k].gen
    <3>1. SUFFICES ASSUME job # Idle, job.key = k
                   PROVE  job.gen # notif'[k].gen
      OBVIOUS
    <3>2. /\ notif[k].status # "none" /\ job.gen <= notif[k].gen
          /\ job.gen \in Nat
      BY <3>1 DEF Generations, QueueOK
    <3> QED BY <2>1, <2>2, <3>2 DEF Row
  <2> QED BY <2>2, <2>3, <2>4
<1> QED BY <1>2, <1>3, <1>4 DEF OpStep

LEMMA OpTexted ==
  ASSUME TypeOK, QueueOK, Generations, Ended, Texted, OpStep
  PROVE  Texted'
<1>1. Keys' = Keys /\ told' = told /\ job' = job
  BY KeysStay DEF OpStep
<1>2. ASSUME NEW k \in Keys, NEW about, TrueOf(about, k),
             about # NotNow => notif[k].status # "none"
      PROVE  TrueOf(about, k)'
  <2>1. SUFFICES ASSUME about # NotNow
                 PROVE  /\ about.money = "refund" => k[1] \in refunded'
                        /\ about.money \in {"closed", "no refund"} =>
                              /\ k[1] \in paid' \ refunded'
                              /\ k[2] = "cancellation_confirmation"
    BY DEF TrueOf
  <2>2. k[1] \in Bookings
    BY KeysTyped
  <2>3. about.money = "refund" => k[1] \in refunded'
    BY <1>2, <2>1 DEF TrueOf, OpStep
  <2>4. ASSUME about.money \in {"closed", "no refund"}
        PROVE  /\ k[1] \in paid' \ refunded'
               /\ k[2] = "cancellation_confirmation"
    <3>1. k[1] \in paid \ refunded /\ k[2] = "cancellation_confirmation"
      BY <1>2, <2>1, <2>4 DEF TrueOf
    <3>2. status[k[1]] = "cancelled"
      BY <1>2, <2>1, <3>1 DEF Ended
    <3> QED BY <2>2, <3>1, <3>2 DEF OpStep
  <2> QED BY <2>3, <2>4
<1>3. ASSUME NEW k \in Keys PROVE TrueOf(told[k].about, k)'
  <2>1. TrueOf(told[k].about, k)
    BY DEF Texted
  <2>2. told[k].about # NotNow => notif[k].status # "none"
    BY DEF Generations
  <2>3. \A about : about = told[k].about => TrueOf(about, k)'
    BY <1>2, <2>1, <2>2
  <2> QED BY <1>1, <2>3
<1>4. ASSUME job # Idle PROVE TrueOf(job.about, job.key)'
  <2>1. job.key \in Keys /\ notif[job.key].status # "none"
    BY <1>4 DEF QueueOK, Generations
  <2>2. TrueOf(job.about, job.key)
    BY <1>4 DEF Texted
  <2>3. \A k \in Keys : \A about :
           k = job.key /\ about = job.about => TrueOf(about, k)'
    BY <1>2, <2>1, <2>2
  <2> QED BY <1>1, <2>1, <2>3
<1> QED BY <1>1, <1>3, <1>4 DEF Texted

LEMMA OpQueue ==
  ASSUME QueueOK, OpStep
  PROVE  QueueOK'
<1>1. Keys' = Keys /\ told' = told /\ job' = job
  BY KeysStay DEF OpStep
<1> QED BY <1>1 DEF QueueOK

-----------------------------------------------------------------------------
(* Seats.                                                                  *)

Booked(d) == At(In({"confirmed"}), d)

LEMMA SeatsOfIsSum ==
  ASSUME NEW B
  PROVE  SeatsOf(B) = Sum(Seats, B)
  BY DEF SeatsOf, Sum

LEMMA SeatsAssumed ==
  /\ IsFiniteSet(Bookings)
  /\ Seats \in [Bookings -> Nat]
  /\ \A b \in Bookings : Seats[b] \in Nat /\ Seats[b] > 0
  /\ Capacity \in Nat
  BY DeparturesAssumption, OutboxAssumption

LEMMA SeatsNone == SeatsOf({}) = 0
  BY SeatsOfIsSum, SumEmpty

LEMMA SeatsNat ==
  ASSUME NEW B \in SUBSET Bookings
  PROVE  SeatsOf(B) \in Nat
  BY SeatsOfIsSum, SeatsAssumed, SumType

LEMMA SeatsWith ==
  ASSUME NEW B \in SUBSET Bookings, NEW b \in Bookings, b \notin B
  PROVE  SeatsOf(B \cup {b}) = SeatsOf(B) + Seats[b]
  BY SeatsOfIsSum, SeatsAssumed, SumAdd

LEMMA SeatsWithout ==
  ASSUME NEW B \in SUBSET Bookings, NEW b \in B
  PROVE  /\ SeatsOf(B) = Seats[b] + SeatsOf(B \ {b})
         /\ SeatsOf(B \ {b}) \in Nat
<1>1. B \ {b} \in SUBSET Bookings
  OBVIOUS
<1> QED BY <1>1, SeatsNat, SeatsOfIsSum, SeatsAssumed, SumRemove

LEMMA SeatsCounted ==
  ASSUME SeatsMatch, NEW d \in Departures
  PROVE  /\ Booked(d) \in SUBSET Bookings
         /\ reserved[d] = SeatsOf(Booked(d)) /\ reserved[d] <= Capacity
  BY DEF SeatsMatch, Booked, At, In

\* The same, of the state a step leads to.
LEMMA SeatsCountedNext ==
  ASSUME \A d \in Departures : /\ reserved'[d] = SeatsOf(Booked(d)')
                               /\ reserved'[d] <= Capacity
  PROVE  SeatsMatch'
<1>1. \A d \in Departures : At(In({"confirmed"}), d)' = Booked(d)'
  BY DEF Booked
<1> QED BY <1>1 DEF SeatsMatch

\* A step that neither confirms, ends nor moves a confirmed booking.
LEMMA SeatsKept ==
  ASSUME SeatsMatch, reserved' = reserved,
         \A b \in Bookings :
            status'[b] = "confirmed" <=> status[b] = "confirmed",
         at' = at
  PROVE  SeatsMatch'
<1>1. \A d \in Departures : Booked(d)' = Booked(d)
  BY DEF Booked, At, In
<1>2. ASSUME NEW d \in Departures
      PROVE  reserved'[d] = SeatsOf(Booked(d)') /\ reserved'[d] <= Capacity
  BY <1>1, SeatsCounted
<1> QED BY <1>2, SeatsCountedNext

\* One confirmed booking ends.
LEMMA SeatsGivenBack ==
  ASSUME TypeOK, SeatsMatch, NEW b \in Bookings, status[b] = "confirmed",
         status' = [status EXCEPT ![b] = "cancelled"], at' = at,
         reserved' = SeatsBack(at[b], Seats[b])
  PROVE  SeatsMatch' /\ reserved' \in [Departures -> Nat]
<1> DEFINE d == at[b]
<1>1. d \in Departures /\ b \in Booked(d)
  BY DEF TypeOK, Booked, At, In
<1>2. reserved' = [reserved EXCEPT ![d] = @ - Seats[b]]
  BY DEF SeatsBack
<1>3. \A e \in Departures :
         Booked(e)' = IF e = d THEN Booked(e) \ {b} ELSE Booked(e)
  BY DEF Booked, At, In, TypeOK
<1> HIDE DEF d
<1>4. /\ Booked(d) \in SUBSET Bookings
      /\ reserved[d] = SeatsOf(Booked(d)) /\ reserved[d] <= Capacity
  BY <1>1, SeatsCounted
<1>5. /\ SeatsOf(Booked(d)) = Seats[b] + SeatsOf(Booked(d) \ {b})
      /\ SeatsOf(Booked(d) \ {b}) \in Nat
  BY <1>1, <1>4, SeatsWithout
<1>6. reserved'[d] = reserved[d] - Seats[b] /\ reserved[d] \in Nat
  BY <1>1, <1>2 DEF TypeOK
<1>7. /\ reserved'[d] = SeatsOf(Booked(d) \ {b})
      /\ reserved'[d] \in Nat /\ reserved'[d] <= Capacity
  BY <1>4, <1>5, <1>6, SeatsAssumed
<1>8. \A e \in Departures \ {d} : reserved'[e] = reserved[e]
  BY <1>2 DEF TypeOK
<1>9. ASSUME NEW e \in Departures
      PROVE  reserved'[e] = SeatsOf(Booked(e)') /\ reserved'[e] <= Capacity
  <2>1. CASE e = d
    BY <1>3, <1>7, <2>1
  <2>2. CASE e # d
    BY <1>3, <1>8, <2>2, SeatsCounted
  <2> QED BY <2>1, <2>2
<1>10. reserved' \in [Departures -> Nat]
  BY <1>1, <1>2, <1>7 DEF TypeOK
<1> QED BY <1>9, <1>10, SeatsCountedNext

\* A booking is confirmed, and it fits.
LEMMA SeatsTaken ==
  ASSUME TypeOK, SeatsMatch, NEW b \in Bookings, status[b] # "confirmed",
         status' = [status EXCEPT ![b] = "confirmed"], at' = at,
         reserved' = [reserved EXCEPT ![at[b]] = @ + Seats[b]],
         reserved[at[b]] + Seats[b] <= Capacity
  PROVE  SeatsMatch' /\ reserved' \in [Departures -> Nat]
<1> DEFINE d == at[b]
<1>1. d \in Departures /\ b \notin Booked(d)
  BY DEF TypeOK, Booked, At, In
<1>2. reserved' = [reserved EXCEPT ![d] = @ + Seats[b]]
  OBVIOUS
<1>3. \A e \in Departures :
         Booked(e)' = IF e = d THEN Booked(e) \cup {b} ELSE Booked(e)
  BY DEF Booked, At, In, TypeOK
<1>4. reserved[d] + Seats[b] <= Capacity
  OBVIOUS
<1> HIDE DEF d
<1>5. /\ Booked(d) \in SUBSET Bookings
      /\ reserved[d] = SeatsOf(Booked(d))
  BY <1>1, SeatsCounted
<1>6. SeatsOf(Booked(d) \cup {b}) = SeatsOf(Booked(d)) + Seats[b]
  BY <1>1, <1>5, SeatsWith
<1>7. reserved'[d] = reserved[d] + Seats[b] /\ reserved[d] \in Nat
  BY <1>1, <1>2 DEF TypeOK
<1>8. /\ reserved'[d] = SeatsOf(Booked(d) \cup {b})
      /\ reserved'[d] \in Nat /\ reserved'[d] <= Capacity
  BY <1>4, <1>5, <1>6, <1>7, SeatsAssumed
<1>9. \A e \in Departures \ {d} : reserved'[e] = reserved[e]
  BY <1>2 DEF TypeOK
<1>10. ASSUME NEW e \in Departures
       PROVE  reserved'[e] = SeatsOf(Booked(e)') /\ reserved'[e] <= Capacity
  <2>1. CASE e = d
    BY <1>3, <1>8, <2>1
  <2>2. CASE e # d
    BY <1>3, <1>9, <2>2, SeatsCounted
  <2> QED BY <2>1, <2>2
<1>11. reserved' \in [Departures -> Nat]
  BY <1>1, <1>2, <1>8 DEF TypeOK
<1> QED BY <1>10, <1>11, SeatsCountedNext

\* A confirmed booking moves to a departure that has room for it.
LEMMA SeatsMoved ==
  ASSUME TypeOK, SeatsMatch, NEW b \in Bookings, status[b] = "confirmed",
         NEW d \in Departures, at[b] # d, Free(d) >= Seats[b],
         status' = status, at' = [at EXCEPT ![b] = d],
         reserved' = [SeatsBack(at[b], Seats[b]) EXCEPT ![d] = @ + Seats[b]]
  PROVE  SeatsMatch' /\ reserved' \in [Departures -> Nat]
<1> DEFINE o == at[b]
<1>1. o \in Departures /\ b \in Booked(o) /\ b \notin Booked(d) /\ o # d
  BY DEF TypeOK, Booked, At, In
<1>2. reserved' = [[reserved EXCEPT ![o] = @ - Seats[b]]
                     EXCEPT ![d] = @ + Seats[b]]
  BY DEF SeatsBack
<1>3. \A e \in Departures :
         Booked(e)' = IF e = o THEN Booked(e) \ {b}
                      ELSE IF e = d THEN Booked(e) \cup {b} ELSE Booked(e)
  BY DEF Booked, At, In, TypeOK
<1> HIDE DEF o
<1>4. /\ Booked(o) \in SUBSET Bookings /\ Booked(d) \in SUBSET Bookings
      /\ reserved[o] = SeatsOf(Booked(o)) /\ reserved[o] <= Capacity
      /\ reserved[d] = SeatsOf(Booked(d))
  BY <1>1, SeatsCounted
<1>5. /\ SeatsOf(Booked(o)) = Seats[b] + SeatsOf(Booked(o) \ {b})
      /\ SeatsOf(Booked(o) \ {b}) \in Nat
  BY <1>1, <1>4, SeatsWithout
<1>6. SeatsOf(Booked(d) \cup {b}) = SeatsOf(Booked(d)) + Seats[b]
  BY <1>1, <1>4, SeatsWith
<1>7. /\ reserved'[o] = reserved[o] - Seats[b] /\ reserved[o] \in Nat
      /\ reserved'[d] = reserved[d] + Seats[b] /\ reserved[d] \in Nat
  BY <1>1, <1>2 DEF TypeOK
<1>8. /\ reserved'[o] = SeatsOf(Booked(o) \ {b})
      /\ reserved'[o] \in Nat /\ reserved'[o] <= Capacity
  BY <1>4, <1>5, <1>7, SeatsAssumed
<1>9. reserved[d] + Seats[b] <= Capacity
  <2> DEFINE h == SeatsOf(Held(d))
  <2>1. Held(d) \in SUBSET Bookings
    BY DEF Held, At, In
  <2>2. h \in Nat
    BY <2>1, SeatsNat
  <2>3. Capacity - reserved[d] - h >= Seats[b]
    BY DEF Free
  <2> HIDE DEF h
  <2> QED BY <1>7, <2>2, <2>3, SeatsAssumed
<1>10. /\ reserved'[d] = SeatsOf(Booked(d) \cup {b})
       /\ reserved'[d] \in Nat /\ reserved'[d] <= Capacity
  BY <1>4, <1>6, <1>7, <1>9, SeatsAssumed
<1>11. \A e \in Departures \ {o, d} : reserved'[e] = reserved[e]
  BY <1>2 DEF TypeOK
<1>12. ASSUME NEW e \in Departures
       PROVE  reserved'[e] = SeatsOf(Booked(e)') /\ reserved'[e] <= Capacity
  <2>1. CASE e = o
    BY <1>3, <1>8, <2>1
  <2>2. CASE e = d
    BY <1>1, <1>3, <1>10, <2>2
  <2>3. CASE e # o /\ e # d
    BY <1>3, <1>11, <2>3, SeatsCounted
  <2> QED BY <2>1, <2>2, <2>3
<1>13. reserved' \in [Departures -> Nat]
  BY <1>1, <1>2, <1>8, <1>10 DEF TypeOK
<1> QED BY <1>12, <1>13, SeatsCountedNext

\* All the confirmed bookings of a departure end, or none does.
LEMMA SeatsEmptied ==
  ASSUME TypeOK, SeatsMatch, NEW d \in Departures, at' = at,
         NEW back, back \in {{}, Booked(d)},
         \A b \in Bookings :
            status'[b] = "confirmed" <=> status[b] = "confirmed" /\ b \notin back,
         reserved' = [reserved EXCEPT ![d] = @ - SeatsOf(back)]
  PROVE  SeatsMatch' /\ reserved' \in [Departures -> Nat]
<1>1. Booked(d) \in SUBSET Bookings /\ reserved[d] \in Nat
      /\ reserved[d] = SeatsOf(Booked(d)) /\ reserved[d] <= Capacity
  BY SeatsCounted DEF TypeOK
<1>2. \A e \in Departures : Booked(e)' = Booked(e) \ back
  BY DEF Booked, At, In
<1>3. \A e \in Departures \ {d} : Booked(e)' = Booked(e)
  BY DEF Booked, At, In
<1>4. reserved'[d] = reserved[d] - SeatsOf(back)
  BY DEF TypeOK
<1>5. /\ reserved'[d] = SeatsOf(Booked(d)')
      /\ reserved'[d] \in Nat /\ reserved'[d] <= Capacity
  <2>1. CASE back = {}
    <3>1. reserved'[d] = reserved[d] /\ Booked(d)' = Booked(d)
      BY <1>1, <1>2, <1>4, <2>1, SeatsNone
    <3> QED BY <1>1, <3>1
  <2>2. CASE back = Booked(d)
    <3>1. reserved'[d] = 0 /\ Booked(d)' = {}
      BY <1>1, <1>2, <1>4, <2>2
    <3> QED BY <3>1, SeatsNone, SeatsAssumed
  <2> QED BY <2>1, <2>2
<1>6. \A e \in Departures \ {d} : reserved'[e] = reserved[e]
  BY DEF TypeOK
<1>7. ASSUME NEW e \in Departures
      PROVE  reserved'[e] = SeatsOf(Booked(e)') /\ reserved'[e] <= Capacity
  <2>1. CASE e = d
    BY <1>5, <2>1
  <2>2. CASE e # d
    BY <1>3, <1>6, <2>2, SeatsCounted
  <2> QED BY <2>1, <2>2
<1>8. reserved' \in [Departures -> Nat]
  BY <1>5 DEF TypeOK
<1> QED BY <1>7, <1>8, SeatsCountedNext

-----------------------------------------------------------------------------
(* Operations.                                                             *)

RowChange(k) ==
    \/ notif'[k] = notif[k]
    \/ \E due \in Departures \cup {Now} :
          notif'[k] \in {Enqueued(notif[k], due), Inserted(notif[k], due)}
    \/ notif'[k] = Withdrawn(notif[k])
    \/ notif'[k] = Withdrawn(Inserted(notif[k], Now))

LEMMA RowChanges ==
  ASSUME TypeOK, notif' = [k \in Keys |-> notif'[k]],
         \A k \in Keys : RowChange(k)
  PROVE  /\ notif' \in [Keys -> Row]
         /\ \A k \in Keys : Later(notif[k], notif'[k])
<1>1. ASSUME NEW k \in Keys PROVE notif'[k] \in Row /\ Later(notif[k], notif'[k])
  <2>1. notif[k] \in Row
    BY KeysTyped
  <2> QED BY <2>1, RowOperations, RowTwice DEF RowChange
<1> QED BY <1>1

\* An operation that leaves the rows as they are.
LEMMA QuietRows ==
  ASSUME TypeOK, UNCHANGED <<queue, at>>
  PROVE  /\ notif' \in [Keys -> Row]
         /\ \A k \in Keys : notif'[k] = notif[k] /\ Later(notif[k], notif'[k])
         /\ UNCHANGED <<job, told>>
         /\ \A k \in Keys :
               k[2] = "booking_rescheduled" =>
                   notif'[k] = notif[k] /\ at'[k[1]] = at[k[1]]
<1>1. notif' = notif /\ job' = job /\ told' = told /\ at' = at
  BY DEF queue
<1>2. notif \in [Keys -> Row]
  BY DEF TypeOK, Row
<1>3. \A k \in Keys : Later(notif[k], notif[k])
  BY <1>2, RowOperations
<1> QED BY <1>1, <1>2, <1>3

OpOK == TypeOK' /\ SeatsMatch' /\ Ended' /\ OpStep

\* TypeOK, but for the rows.
OpsTyped ==
    /\ policy \in Policies
    /\ phase \in [Departures -> Far..Started]
    /\ dep \in [Departures -> Reasons \cup {"available"}]
    /\ resolved \in [Departures -> {"none", "reached", "staff_confirmed",
                                    "auto_cancelled", "staff_cancelled"}]
    /\ reserved \in [Departures -> Nat]
    /\ status \in [Bookings -> Live \cup {"holding", "expired", "cancelled",
                      "overbooked_refunded", "payment_mismatch"}]
    /\ at \in [Bookings -> Departures]
    /\ {review, paid, refunded} \subseteq SUBSET Bookings
    /\ moves \in Nat

LEMMA TypedNext ==
  ASSUME TypeOK, OpsTyped', notif' \in [Keys -> Row]
  PROVE  TypeOK'
<1>1. Keys' = Keys
  BY KeysStay
<1>2. Keys \subseteq Bookings \X Kinds
  BY DEF TypeOK
<1> QED BY <1>1, <1>2 DEF TypeOK, OpsTyped, Row

LEMMA ResolveOp ==
  ASSUME IInv, NEW d \in Departures, Resolve(d, "reached") \/ Resolve(d, "staff_confirmed")
  PROVE  OpOK
<1> USE DEF Resolve, queue
<1>1. UNCHANGED <<queue, at>>
  OBVIOUS
<1>2. /\ notif' \in [Keys -> Row]
      /\ \A k \in Keys : notif'[k] = notif[k] /\ Later(notif[k], notif'[k])
      /\ UNCHANGED <<job, told>>
      /\ \A k \in Keys :
            k[2] = "booking_rescheduled" =>
                notif'[k] = notif[k] /\ at'[k[1]] = at[k[1]]
  BY <1>1, QuietRows DEF IInv
<1>3. OpsTyped'
  BY DEF IInv, TypeOK, OpsTyped, Live, Unpaid
<1>4. TypeOK'
  BY <1>2, <1>3, TypedNext DEF IInv
<1>5. SeatsMatch'
  <2>1. /\ reserved' = reserved /\ at' = at
        /\ \A c \in Bookings :
              status'[c] = "confirmed" <=> status[c] = "confirmed"
    BY DEF IInv, TypeOK, Unpaid
  <2> QED BY <2>1, SeatsKept DEF IInv
<1>6. Keys' = Keys
  BY <1>2, KeysStay
<1>7. /\ paid' = paid /\ refunded' = refunded /\ review' = review
      /\ dep' = dep /\ at' = at
      /\ \A c \in Bookings : /\ status'[c] = "confirmed" <=> status[c] = "confirmed"
                             /\ status[c] = "cancelled" => status'[c] = "cancelled"
  BY DEF IInv, TypeOK, Unpaid
<1>8. \A k \in Keys : k[1] \in Bookings
  BY KeysTyped DEF IInv
<1>9. Ended'
  BY <1>2, <1>6, <1>7, <1>8 DEF IInv, Ended
<1>10. OpStep
  BY <1>2, <1>7 DEF OpStep
<1> QED BY <1>4, <1>5, <1>9, <1>10 DEF OpOK

LEMMA LeaveHoldOp ==
  ASSUME IInv, NEW b \in Bookings, LeaveHold(b)
  PROVE  OpOK
<1> USE DEF LeaveHold, queue
<1>1. UNCHANGED <<queue, at>>
  OBVIOUS
<1>2. /\ notif' \in [Keys -> Row]
      /\ \A k \in Keys : notif'[k] = notif[k] /\ Later(notif[k], notif'[k])
      /\ UNCHANGED <<job, told>>
      /\ \A k \in Keys :
            k[2] = "booking_rescheduled" =>
                notif'[k] = notif[k] /\ at'[k[1]] = at[k[1]]
  BY <1>1, QuietRows DEF IInv
<1>3. OpsTyped'
  BY DEF IInv, TypeOK, OpsTyped, Live, Unpaid
<1>4. TypeOK'
  BY <1>2, <1>3, TypedNext DEF IInv
<1>5. SeatsMatch'
  <2>1. /\ reserved' = reserved /\ at' = at
        /\ \A c \in Bookings :
              status'[c] = "confirmed" <=> status[c] = "confirmed"
    BY DEF IInv, TypeOK, Unpaid
  <2> QED BY <2>1, SeatsKept DEF IInv
<1>6. Keys' = Keys
  BY <1>2, KeysStay
<1>7. /\ paid' = paid /\ refunded' = refunded /\ review' = review
      /\ dep' = dep /\ at' = at
      /\ \A c \in Bookings : /\ status'[c] = "confirmed" <=> status[c] = "confirmed"
                             /\ status[c] = "cancelled" => status'[c] = "cancelled"
  BY DEF IInv, TypeOK, Unpaid
<1>8. \A k \in Keys : k[1] \in Bookings
  BY KeysTyped DEF IInv
<1>9. Ended'
  BY <1>2, <1>6, <1>7, <1>8 DEF IInv, Ended
<1>10. OpStep
  BY <1>2, <1>7 DEF OpStep
<1> QED BY <1>4, <1>5, <1>9, <1>10 DEF OpOK

LEMMA GiveUpOp ==
  ASSUME IInv, NEW b \in Bookings, GiveUp(b)
  PROVE  OpOK
<1> USE DEF GiveUp, queue
<1>1. UNCHANGED <<queue, at>>
  OBVIOUS
<1>2. /\ notif' \in [Keys -> Row]
      /\ \A k \in Keys : notif'[k] = notif[k] /\ Later(notif[k], notif'[k])
      /\ UNCHANGED <<job, told>>
      /\ \A k \in Keys :
            k[2] = "booking_rescheduled" =>
                notif'[k] = notif[k] /\ at'[k[1]] = at[k[1]]
  BY <1>1, QuietRows DEF IInv
<1>3. OpsTyped'
  BY DEF IInv, TypeOK, OpsTyped, Live, Unpaid
<1>4. TypeOK'
  BY <1>2, <1>3, TypedNext DEF IInv
<1>5. SeatsMatch'
  <2>1. /\ reserved' = reserved /\ at' = at
        /\ \A c \in Bookings :
              status'[c] = "confirmed" <=> status[c] = "confirmed"
    BY DEF IInv, TypeOK, Unpaid
  <2> QED BY <2>1, SeatsKept DEF IInv
<1>6. Keys' = Keys
  BY <1>2, KeysStay
<1>7. /\ paid' = paid /\ refunded' = refunded /\ review' = review
      /\ dep' = dep /\ at' = at
      /\ \A c \in Bookings : /\ status'[c] = "confirmed" <=> status[c] = "confirmed"
                             /\ status[c] = "cancelled" => status'[c] = "cancelled"
  BY DEF IInv, TypeOK, Unpaid
<1>8. \A k \in Keys : k[1] \in Bookings
  BY KeysTyped DEF IInv
<1>9. Ended'
  BY <1>2, <1>6, <1>7, <1>8 DEF IInv, Ended
<1>10. OpStep
  BY <1>2, <1>7 DEF OpStep
<1> QED BY <1>4, <1>5, <1>9, <1>10 DEF OpOK

LEMMA TickOp ==
  ASSUME IInv, NEW d \in Departures, Tick(d)
  PROVE  OpOK
<1> USE DEF Tick, queue, Far, Started
<1>1. UNCHANGED <<queue, at>>
  OBVIOUS
<1>2. /\ notif' \in [Keys -> Row]
      /\ \A k \in Keys : notif'[k] = notif[k] /\ Later(notif[k], notif'[k])
      /\ UNCHANGED <<job, told>>
      /\ \A k \in Keys :
            k[2] = "booking_rescheduled" =>
                notif'[k] = notif[k] /\ at'[k[1]] = at[k[1]]
  BY <1>1, QuietRows DEF IInv
<1>3. OpsTyped'
  BY DEF IInv, TypeOK, OpsTyped, Live, Unpaid
<1>4. TypeOK'
  BY <1>2, <1>3, TypedNext DEF IInv
<1>5. SeatsMatch'
  <2>1. /\ reserved' = reserved /\ at' = at
        /\ \A c \in Bookings :
              status'[c] = "confirmed" <=> status[c] = "confirmed"
    BY DEF IInv, TypeOK, Unpaid
  <2> QED BY <2>1, SeatsKept DEF IInv
<1>6. Keys' = Keys
  BY <1>2, KeysStay
<1>7. /\ paid' = paid /\ refunded' = refunded /\ review' = review
      /\ dep' = dep /\ at' = at
      /\ \A c \in Bookings : /\ status'[c] = "confirmed" <=> status[c] = "confirmed"
                             /\ status[c] = "cancelled" => status'[c] = "cancelled"
  BY DEF IInv, TypeOK, Unpaid
<1>8. \A k \in Keys : k[1] \in Bookings
  BY KeysTyped DEF IInv
<1>9. Ended'
  BY <1>2, <1>6, <1>7, <1>8 DEF IInv, Ended
<1>10. OpStep
  BY <1>2, <1>7 DEF OpStep
<1> QED BY <1>4, <1>5, <1>9, <1>10 DEF OpOK

LEMMA CancelBookingOp ==
  ASSUME IInv, NEW b \in Bookings, CancelBooking(b)
  PROVE  OpOK
<1>1. /\ notif' \in [Keys -> Row]
      /\ \A k \in Keys : Later(notif[k], notif'[k])
  <2>1. notif' = [k \in Keys |-> notif'[k]]
    BY DEF CancelBooking
  <2>2. ASSUME NEW k \in Keys PROVE RowChange(k)
    BY DEF CancelBooking, RowChange
  <2> QED BY <2>1, <2>2, RowChanges DEF IInv
<1>2. SeatsMatch' /\ reserved' \in [Departures -> Nat]
  <2>1. /\ status[b] = "confirmed" /\ at' = at
        /\ status' = [status EXCEPT ![b] = "cancelled"]
        /\ reserved' = SeatsBack(at[b], Seats[b])
    BY DEF CancelBooking
  <2> QED BY <2>1, SeatsGivenBack DEF IInv
<1>3. OpsTyped'
  BY <1>2 DEF IInv, TypeOK, OpsTyped, Live, Unpaid, CancelBooking
<1>4. TypeOK'
  BY <1>1, <1>3, TypedNext DEF IInv
<1>5. Keys' = Keys
  BY <1>1, KeysStay
<1>6. \A c \in Bookings : /\ status'[c] = "confirmed" => c \in paid'
                          /\ c \in review' => status'[c] = "confirmed"
                          /\ c \in review' => dep'[at'[c]] # "available"
  BY DEF IInv, TypeOK, Ended, Unpaid, CancelBooking
<1>7. \A k \in Keys :
         notif'[k].status # "none" =>
             /\ k[2] = "cancellation_confirmation" =>
                   status'[k[1]] = "cancelled" /\ k[1] \in paid'
             /\ k[2] = "overbooked_refunded" => k[1] \in refunded'
  <2>0. SUFFICES ASSUME NEW k \in Keys, notif'[k].status # "none"
                 PROVE  /\ k[2] = "cancellation_confirmation" =>
                              status'[k[1]] = "cancelled" /\ k[1] \in paid'
                        /\ k[2] = "overbooked_refunded" => k[1] \in refunded'
    OBVIOUS
  <2>1. /\ k[1] \in Bookings /\ k[2] \in Kinds /\ k = <<k[1], k[2]>>
        /\ notif[k] \in Row
    BY KeysTyped DEF IInv
  <2>2. k[2] = "cancellation_confirmation" =>
           status'[k[1]] = "cancelled" /\ k[1] \in paid'
    BY <2>0, <2>1 DEF IInv, Ended, TypeOK, CancelBooking
  <2>3. k[2] = "overbooked_refunded" => k[1] \in refunded'
    BY <2>0, <2>1 DEF IInv, Ended, TypeOK, CancelBooking
  <2> QED BY <2>2, <2>3
<1>8. Ended'
  BY <1>5, <1>6, <1>7 DEF Ended
<1>9. OpStep
  <2>1. \A k \in Keys :
           k[2] = "booking_rescheduled" =>
               \/ notif'[k] = notif[k] /\ at'[k[1]] = at[k[1]]
               \/ notif'[k] = Enqueued(notif[k], Now)
    <3>1. \A k \in Keys : k = <<k[1], k[2]>> /\ k[1] \in Bookings
      BY KeysTyped DEF IInv
    <3> QED BY <3>1 DEF IInv, TypeOK, CancelBooking
  <2>2. /\ refunded \subseteq refunded' /\ paid \subseteq paid'
        /\ \A c \in Bookings :
              status[c] = "cancelled" /\ c \notin refunded => c \notin refunded'
    BY DEF IInv, TypeOK, Unpaid, CancelBooking
  <2>3. UNCHANGED <<job, told>>
    BY DEF CancelBooking
  <2> QED BY <1>1, <2>1, <2>2, <2>3 DEF OpStep
<1> QED BY <1>2, <1>4, <1>8, <1>9 DEF OpOK

LEMMA DecideReviewOp ==
  ASSUME IInv, NEW b \in Bookings, NEW refund \in BOOLEAN,
         DecideReview(b, refund)
  PROVE  OpOK
<1>1. /\ notif' \in [Keys -> Row]
      /\ \A k \in Keys : Later(notif[k], notif'[k])
  <2>1. notif' = [k \in Keys |-> notif'[k]]
    BY DEF DecideReview
  <2>2. ASSUME NEW k \in Keys PROVE RowChange(k)
    BY DEF DecideReview, RowChange
  <2> QED BY <2>1, <2>2, RowChanges DEF IInv
<1>2. SeatsMatch' /\ reserved' \in [Departures -> Nat]
  <2>1. /\ status[b] = "confirmed" /\ at' = at
        /\ status' = [status EXCEPT ![b] = "cancelled"]
        /\ reserved' = SeatsBack(at[b], Seats[b])
    BY DEF DecideReview
  <2> QED BY <2>1, SeatsGivenBack DEF IInv
<1>3. OpsTyped'
  BY <1>2 DEF IInv, TypeOK, OpsTyped, Live, Unpaid, DecideReview
<1>4. TypeOK'
  BY <1>1, <1>3, TypedNext DEF IInv
<1>5. Keys' = Keys
  BY <1>1, KeysStay
<1>6. \A c \in Bookings : /\ status'[c] = "confirmed" => c \in paid'
                          /\ c \in review' => status'[c] = "confirmed"
                          /\ c \in review' => dep'[at'[c]] # "available"
  BY DEF IInv, TypeOK, Ended, Unpaid, DecideReview
<1>7. \A k \in Keys :
         notif'[k].status # "none" =>
             /\ k[2] = "cancellation_confirmation" =>
                   status'[k[1]] = "cancelled" /\ k[1] \in paid'
             /\ k[2] = "overbooked_refunded" => k[1] \in refunded'
  <2>0. SUFFICES ASSUME NEW k \in Keys, notif'[k].status # "none"
                 PROVE  /\ k[2] = "cancellation_confirmation" =>
                              status'[k[1]] = "cancelled" /\ k[1] \in paid'
                        /\ k[2] = "overbooked_refunded" => k[1] \in refunded'
    OBVIOUS
  <2>1. /\ k[1] \in Bookings /\ k[2] \in Kinds /\ k = <<k[1], k[2]>>
        /\ notif[k] \in Row
    BY KeysTyped DEF IInv
  <2>2. k[2] = "cancellation_confirmation" =>
           status'[k[1]] = "cancelled" /\ k[1] \in paid'
    BY <2>0, <2>1 DEF IInv, Ended, TypeOK, DecideReview
  <2>3. k[2] = "overbooked_refunded" => k[1] \in refunded'
    BY <2>0, <2>1 DEF IInv, Ended, TypeOK, DecideReview
  <2> QED BY <2>2, <2>3
<1>8. Ended'
  BY <1>5, <1>6, <1>7 DEF Ended
<1>9. OpStep
  <2>1. \A k \in Keys :
           k[2] = "booking_rescheduled" =>
               \/ notif'[k] = notif[k] /\ at'[k[1]] = at[k[1]]
               \/ notif'[k] = Enqueued(notif[k], Now)
    <3>1. \A k \in Keys : k = <<k[1], k[2]>> /\ k[1] \in Bookings
      BY KeysTyped DEF IInv
    <3> QED BY <3>1 DEF IInv, TypeOK, DecideReview
  <2>2. /\ refunded \subseteq refunded' /\ paid \subseteq paid'
        /\ \A c \in Bookings :
              status[c] = "cancelled" /\ c \notin refunded => c \notin refunded'
    BY DEF IInv, TypeOK, Unpaid, DecideReview
  <2>3. UNCHANGED <<job, told>>
    BY DEF DecideReview
  <2> QED BY <1>1, <2>1, <2>2, <2>3 DEF OpStep
<1> QED BY <1>2, <1>4, <1>8, <1>9 DEF OpOK

LEMMA RescheduleOp ==
  ASSUME IInv, NEW b \in Bookings, NEW d \in Departures,
         Reschedule(b, d)
  PROVE  OpOK
<1>1. /\ notif' \in [Keys -> Row]
      /\ \A k \in Keys : Later(notif[k], notif'[k])
  <2>1. notif' = [k \in Keys |-> notif'[k]]
    BY DEF Reschedule, ReminderMoved
  <2>2. ASSUME NEW k \in Keys PROVE RowChange(k)
    BY DEF Reschedule, ReminderMoved, RowChange
  <2> QED BY <2>1, <2>2, RowChanges DEF IInv
<1>2. SeatsMatch' /\ reserved' \in [Departures -> Nat]
  <2>1. /\ status[b] = "confirmed" /\ at[b] # d /\ Free(d) >= Seats[b]
        /\ status' = status /\ at' = [at EXCEPT ![b] = d]
        /\ reserved' = [SeatsBack(at[b], Seats[b]) EXCEPT ![d] = @ + Seats[b]]
    BY DEF Reschedule
  <2> QED BY <2>1, SeatsMoved DEF IInv
<1>3. OpsTyped'
  BY <1>2 DEF IInv, TypeOK, OpsTyped, Live, Unpaid, Reschedule, ReviewCleared
<1>4. TypeOK'
  BY <1>1, <1>3, TypedNext DEF IInv
<1>5. Keys' = Keys
  BY <1>1, KeysStay
<1>6. \A c \in Bookings : /\ status'[c] = "confirmed" => c \in paid'
                          /\ c \in review' => status'[c] = "confirmed"
                          /\ c \in review' => dep'[at'[c]] # "available"
  BY DEF IInv, TypeOK, Ended, Unpaid, Reschedule, ReviewCleared
<1>7. \A k \in Keys :
         notif'[k].status # "none" =>
             /\ k[2] = "cancellation_confirmation" =>
                   status'[k[1]] = "cancelled" /\ k[1] \in paid'
             /\ k[2] = "overbooked_refunded" => k[1] \in refunded'
  <2>0. SUFFICES ASSUME NEW k \in Keys, notif'[k].status # "none"
                 PROVE  /\ k[2] = "cancellation_confirmation" =>
                              status'[k[1]] = "cancelled" /\ k[1] \in paid'
                        /\ k[2] = "overbooked_refunded" => k[1] \in refunded'
    OBVIOUS
  <2>1. /\ k[1] \in Bookings /\ k[2] \in Kinds /\ k = <<k[1], k[2]>>
        /\ notif[k] \in Row
    BY KeysTyped DEF IInv
  <2>2. k[2] = "cancellation_confirmation" =>
           status'[k[1]] = "cancelled" /\ k[1] \in paid'
    BY <2>0, <2>1 DEF IInv, Ended, TypeOK, Reschedule
  <2>3. k[2] = "overbooked_refunded" => k[1] \in refunded'
    BY <2>0, <2>1 DEF IInv, Ended, TypeOK, Reschedule
  <2> QED BY <2>2, <2>3
<1>8. Ended'
  BY <1>5, <1>6, <1>7 DEF Ended
<1>9. OpStep
  <2>1. \A k \in Keys :
           k[2] = "booking_rescheduled" =>
               \/ notif'[k] = notif[k] /\ at'[k[1]] = at[k[1]]
               \/ notif'[k] = Enqueued(notif[k], Now)
    <3>1. \A k \in Keys : k = <<k[1], k[2]>> /\ k[1] \in Bookings
      BY KeysTyped DEF IInv
    <3> QED BY <3>1 DEF IInv, TypeOK, Reschedule, ReviewCleared
  <2>2. /\ refunded \subseteq refunded' /\ paid \subseteq paid'
        /\ \A c \in Bookings :
              status[c] = "cancelled" /\ c \notin refunded => c \notin refunded'
    BY DEF IInv, TypeOK, Unpaid, Reschedule, ReviewCleared
  <2>3. UNCHANGED <<job, told>>
    BY DEF Reschedule
  <2> QED BY <1>1, <2>1, <2>2, <2>3 DEF OpStep
<1> QED BY <1>2, <1>4, <1>8, <1>9 DEF OpOK

LEMMA CancelOp ==
  ASSUME IInv, NEW d \in Departures, NEW why \in Reasons,
         NEW who \in {"auto_cancelled", "staff_cancelled"},
         Cancel(d, why, who)
  PROVE  OpOK
<1>1. /\ notif' \in [Keys -> Row]
      /\ \A k \in Keys : Later(notif[k], notif'[k])
  <2>1. notif' = [k \in Keys |-> notif'[k]]
    BY DEF Cancel
  <2>2. ASSUME NEW k \in Keys PROVE RowChange(k)
    BY DEF Cancel, RowChange
  <2> QED BY <2>1, <2>2, RowChanges DEF IInv
<1>2. SeatsMatch' /\ reserved' \in [Departures -> Nat]
  <2> DEFINE back == IF why \in OwnRisk THEN {} ELSE Booked(d)
  <2>1. back \in {{}, Booked(d)}
    OBVIOUS
  <2>2. /\ at' = at
        /\ reserved' = [reserved EXCEPT ![d] = @ - SeatsOf(back)]
    BY DEF Cancel, Booked
  <2>3. \A b \in Bookings :
           status'[b] = "confirmed" <=> status[b] = "confirmed" /\ b \notin back
    BY DEF Cancel, Booked, At, In, Unpaid
  <2> HIDE DEF back
  <2> QED BY <2>1, <2>2, <2>3, SeatsEmptied DEF IInv
<1>3. OpsTyped'
  BY <1>2 DEF IInv, TypeOK, OpsTyped, Live, Unpaid, Cancel, At, In, Reasons, OwnRisk
<1>4. TypeOK'
  BY <1>1, <1>3, TypedNext DEF IInv
<1>5. Keys' = Keys
  BY <1>1, KeysStay
<1>6. \A c \in Bookings : /\ status'[c] = "confirmed" => c \in paid'
                          /\ c \in review' => status'[c] = "confirmed"
                          /\ c \in review' => dep'[at'[c]] # "available"
  BY DEF IInv, TypeOK, Ended, Unpaid, Cancel, At, In, Reasons, OwnRisk
<1>7. \A k \in Keys :
         notif'[k].status # "none" =>
             /\ k[2] = "cancellation_confirmation" =>
                   status'[k[1]] = "cancelled" /\ k[1] \in paid'
             /\ k[2] = "overbooked_refunded" => k[1] \in refunded'
  <2>0. SUFFICES ASSUME NEW k \in Keys, notif'[k].status # "none"
                 PROVE  /\ k[2] = "cancellation_confirmation" =>
                              status'[k[1]] = "cancelled" /\ k[1] \in paid'
                        /\ k[2] = "overbooked_refunded" => k[1] \in refunded'
    OBVIOUS
  <2>1. /\ k[1] \in Bookings /\ k[2] \in Kinds /\ k = <<k[1], k[2]>>
        /\ notif[k] \in Row
    BY KeysTyped DEF IInv
  <2>2. k[2] = "cancellation_confirmation" =>
           status'[k[1]] = "cancelled" /\ k[1] \in paid'
    BY <2>0, <2>1 DEF IInv, Ended, TypeOK, Cancel, At, In
  <2>3. k[2] = "overbooked_refunded" => k[1] \in refunded'
    BY <2>0, <2>1 DEF IInv, Ended, TypeOK, Cancel, At, In
  <2> QED BY <2>2, <2>3
<1>8. Ended'
  BY <1>5, <1>6, <1>7 DEF Ended
<1>9. OpStep
  <2>1. \A k \in Keys :
           k[2] = "booking_rescheduled" =>
               \/ notif'[k] = notif[k] /\ at'[k[1]] = at[k[1]]
               \/ notif'[k] = Enqueued(notif[k], Now)
    <3>1. \A k \in Keys : k = <<k[1], k[2]>> /\ k[1] \in Bookings
      BY KeysTyped DEF IInv
    <3> QED BY <3>1 DEF IInv, TypeOK, Cancel, At, In, Reasons, OwnRisk
  <2>2. /\ refunded \subseteq refunded' /\ paid \subseteq paid'
        /\ \A c \in Bookings :
              status[c] = "cancelled" /\ c \notin refunded => c \notin refunded'
    BY DEF IInv, TypeOK, Unpaid, Cancel, At, In, Reasons, OwnRisk
  <2>3. UNCHANGED <<job, told>>
    BY DEF Cancel
  <2> QED BY <1>1, <2>1, <2>2, <2>3 DEF OpStep
<1> QED BY <1>2, <1>4, <1>8, <1>9 DEF OpOK

LEMMA ConfirmOp ==
  ASSUME IInv, NEW b \in Bookings, Confirm(b)
  PROVE  OpOK
<1>1. /\ notif' \in [Keys -> Row]
      /\ \A k \in Keys : Later(notif[k], notif'[k])
  <2>1. notif' = [k \in Keys |-> notif'[k]]
    BY DEF Confirm, IInv, TypeOK
  <2>2. ASSUME NEW k \in Keys PROVE RowChange(k)
    BY DEF Confirm, IInv, TypeOK, RowChange
  <2> QED BY <2>1, <2>2, RowChanges DEF IInv
<1>2. SeatsMatch' /\ reserved' \in [Departures -> Nat]
  <2>1. CASE dep[at[b]] = "available" /\ reserved[at[b]] + Seats[b] <= Capacity
    <3>1. /\ status[b] # "confirmed" /\ at' = at
          /\ status' = [status EXCEPT ![b] = "confirmed"]
          /\ reserved' = [reserved EXCEPT ![at[b]] = @ + Seats[b]]
      BY <2>1 DEF Confirm, Unpaid
    <3> QED BY <2>1, <3>1, SeatsTaken DEF IInv
  <2>2. CASE ~(dep[at[b]] = "available" /\ reserved[at[b]] + Seats[b] <= Capacity)
    <3>1. /\ reserved' = reserved /\ at' = at
          /\ \A c \in Bookings :
                status'[c] = "confirmed" <=> status[c] = "confirmed"
      BY <2>2 DEF Confirm, Unpaid, IInv, TypeOK
    <3>2. SeatsMatch'
      BY <3>1, SeatsKept DEF IInv
    <3> QED BY <3>1, <3>2 DEF IInv, TypeOK
  <2> QED BY <2>1, <2>2
<1>3. OpsTyped'
  <2>1. /\ {policy} \subseteq Policies /\ UNCHANGED <<policy, phase, dep, resolved, at, review, moves>>
        /\ paid' = paid \cup {b}
        /\ refunded' \in {refunded, refunded \cup {b}}
        /\ \E s \in {"confirmed", "overbooked_refunded", "cancelled"} :
              status' = [status EXCEPT ![b] = s]
    BY DEF Confirm, IInv, TypeOK
  <2>2. status' \in [Bookings -> Live \cup {"holding", "expired", "cancelled",
                      "overbooked_refunded", "payment_mismatch"}]
    BY <2>1 DEF IInv, TypeOK, Live
  <2>3. {review', paid', refunded'} \subseteq SUBSET Bookings
    BY <2>1 DEF IInv, TypeOK
  <2> QED BY <1>2, <2>1, <2>2, <2>3 DEF IInv, TypeOK, OpsTyped
<1>4. TypeOK'
  BY <1>1, <1>3, TypedNext DEF IInv
<1>5. Keys' = Keys
  BY <1>1, KeysStay
<1>6. \A c \in Bookings : /\ status'[c] = "confirmed" => c \in paid'
                          /\ c \in review' => status'[c] = "confirmed"
                          /\ c \in review' => dep'[at'[c]] # "available"
  BY DEF IInv, TypeOK, Ended, Unpaid, Confirm
<1>7. \A k \in Keys :
         notif'[k].status # "none" =>
             /\ k[2] = "cancellation_confirmation" =>
                   status'[k[1]] = "cancelled" /\ k[1] \in paid'
             /\ k[2] = "overbooked_refunded" => k[1] \in refunded'
  <2>0. SUFFICES ASSUME NEW k \in Keys, notif'[k].status # "none"
                 PROVE  /\ k[2] = "cancellation_confirmation" =>
                              status'[k[1]] = "cancelled" /\ k[1] \in paid'
                        /\ k[2] = "overbooked_refunded" => k[1] \in refunded'
    OBVIOUS
  <2>1. /\ k[1] \in Bookings /\ k[2] \in Kinds /\ k = <<k[1], k[2]>>
        /\ notif[k] \in Row
    BY KeysTyped DEF IInv
  <2>2. k[2] = "cancellation_confirmation" =>
           status'[k[1]] = "cancelled" /\ k[1] \in paid'
    BY <2>0, <2>1 DEF IInv, Ended, TypeOK, Confirm, Unpaid
  <2>3. k[2] = "overbooked_refunded" => k[1] \in refunded'
    BY <2>0, <2>1 DEF IInv, Ended, TypeOK, Confirm, Unpaid
  <2> QED BY <2>2, <2>3
<1>8. Ended'
  BY <1>5, <1>6, <1>7 DEF Ended
<1>9. OpStep
  <2>1. \A k \in Keys :
           k[2] = "booking_rescheduled" =>
               \/ notif'[k] = notif[k] /\ at'[k[1]] = at[k[1]]
               \/ notif'[k] = Enqueued(notif[k], Now)
    <3>1. \A k \in Keys : k = <<k[1], k[2]>> /\ k[1] \in Bookings
      BY KeysTyped DEF IInv
    <3> QED BY <3>1 DEF IInv, TypeOK, Confirm
  <2>2. /\ refunded \subseteq refunded' /\ paid \subseteq paid'
        /\ \A c \in Bookings :
              status[c] = "cancelled" /\ c \notin refunded => c \notin refunded'
    BY DEF IInv, TypeOK, Unpaid, Confirm
  <2>3. UNCHANGED <<job, told>>
    BY DEF Confirm
  <2> QED BY <1>1, <2>1, <2>2, <2>3 DEF OpStep
<1> QED BY <1>2, <1>4, <1>8, <1>9 DEF OpOK

-----------------------------------------------------------------------------
(* The job.                                                                *)

JobStages == {"read", "send", "sent", "failed", "retry", "cancel"}
Turns == [at : JobStages, key : Keys, gen : Nat, attempts : Nat, about : Texts]

\* What the job may write on the rows: no generation, and no row of its own.
JobWrites ==
    /\ UNCHANGED ops
    /\ notif' \in [Keys -> Row]
    /\ \A k \in Keys : /\ notif'[k].gen = notif[k].gen
                       /\ notif[k].status = "none" <=> notif'[k].status = "none"

LEMMA JobKeeps ==
  ASSUME IInv, JobWrites
  PROVE  /\ Keys' = Keys
         /\ TypeOK' /\ SeatsMatch' /\ Ended'
<1>1. Keys' = Keys
  BY KeysStay DEF JobWrites
<1>2. OpsTyped'
  BY DEF IInv, TypeOK, OpsTyped, JobWrites, ops
<1>3. TypeOK'
  BY <1>2, TypedNext DEF IInv, JobWrites
<1>4. SeatsMatch'
  <2>1. /\ reserved' = reserved /\ at' = at
        /\ \A b \in Bookings : status'[b] = "confirmed" <=> status[b] = "confirmed"
    BY DEF JobWrites, ops
  <2> QED BY <2>1, SeatsKept DEF IInv
<1>5. Ended'
  BY <1>1 DEF IInv, Ended, JobWrites, ops
<1> QED BY <1>1, <1>3, <1>4, <1>5

\* The job writes the result of a row, if at all, and is done with it or tries
\* again.
LEMMA JobResult ==
  ASSUME IInv, JobWrites, told' = told,
         job # Idle, job' \in {Idle, [job EXCEPT !.at = "retry"]},
         \A k \in Keys :
            notif'[k].status = "sent" =>
                notif[k].status = "sent" \/ told[k].gen = notif[k].gen
  PROVE  IInv'
<1>1. Keys' = Keys /\ TypeOK' /\ SeatsMatch' /\ Ended'
  BY JobKeeps
<1>2. /\ job \in Turns
      /\ job' = Idle \/ /\ job' # Idle /\ job' \in Turns /\ job'.at = "retry"
                        /\ job'.key = job.key /\ job'.gen = job.gen
                        /\ job'.about = job.about
  <2>1. job \in Turns
    BY DEF IInv, QueueOK, Turns, JobStages
  <2>2. CASE job' = [job EXCEPT !.at = "retry"]
    BY <2>1, <2>2 DEF Turns, JobStages, Idle
  <2> QED BY <2>1, <2>2
<1>3. QueueOK'
  BY <1>1, <1>2 DEF IInv, QueueOK, Turns, JobStages
<1>4. Generations'
  BY <1>1, <1>2 DEF IInv, Generations, JobWrites, Turns
<1>5. Dates'
  <2>1. at' = at
    BY DEF JobWrites, ops
  <2>2. \A k \in Keys : k[2] = "booking_rescheduled" =>
            /\ told[k].gen = notif'[k].gen => told[k].about.date = at[k[1]]
            /\ notif'[k].status = "sent" => told[k].gen = notif'[k].gen
    BY DEF IInv, Dates, JobWrites
  <2>3. job' # Idle => job'.at # "send"
    BY <1>2
  <2> QED BY <1>1, <2>1, <2>2, <2>3 DEF Dates
<1>6. Texted'
  <2>1. \A k \in Keys : \A about : TrueOf(about, k) => TrueOf(about, k)'
    BY DEF JobWrites, ops, TrueOf
  <2>2. \A k \in Keys : TrueOf(told[k].about, k)
    BY DEF IInv, Texted
  <2>3. \A k \in Keys : TrueOf(told[k].about, k)'
    <3>1. \A k \in Keys : \A about : about = told[k].about => TrueOf(about, k)'
      BY <2>1, <2>2
    <3> QED BY <3>1
  <2>4. job' # Idle => TrueOf(job.about, job.key)'
    <3>1. job.key \in Keys /\ TrueOf(job.about, job.key)
      BY <1>2 DEF IInv, Texted, Turns
    <3>2. \A k \in Keys : \A about :
              k = job.key /\ about = job.about => TrueOf(about, k)'
      BY <2>1, <3>1
    <3> QED BY <1>2, <3>1, <3>2
  <2> QED BY <1>1, <2>3, <2>4 DEF Texted
<1> QED BY <1>1, <1>3, <1>4, <1>5, <1>6 DEF IInv

LEMMA RowsTyped ==
  ASSUME TypeOK
  PROVE  notif \in [Keys -> Row]
  BY DEF TypeOK, Row

LEMMA RowTried ==
  ASSUME NEW row \in Row, NEW n \in Nat
  PROVE  /\ [row EXCEPT !.attempts = n] \in Row
         /\ [row EXCEPT !.attempts = n].gen = row.gen
         /\ [row EXCEPT !.attempts = n].status = row.status
         /\ [row EXCEPT !.status = "failed"] \in Row
         /\ [row EXCEPT !.status = "failed"].gen = row.gen
         /\ [row EXCEPT !.status = "failed"].status = "failed"
         /\ [row EXCEPT !.status = "failed", !.attempts = n] \in Row
         /\ [row EXCEPT !.status = "failed", !.attempts = n].gen = row.gen
         /\ [row EXCEPT !.status = "failed", !.attempts = n].status = "failed"
  BY DEF Row

LEMMA MarkSentStep ==
  ASSUME IInv, MarkSent, UNCHANGED ops
  PROVE  IInv'
<1> DEFINE row == [notif[job.key] EXCEPT !.status = "sent"]
<1>1. notif \in [Keys -> Row] /\ job # Idle
  BY RowsTyped DEF IInv, MarkSent, Idle
<1>2. job \in Turns /\ notif[job.key].status # "none"
  BY <1>1 DEF IInv, QueueOK, Turns, JobStages, Generations
<1>3. row \in Row /\ row.gen = notif[job.key].gen /\ row.status = "sent"
  BY <1>1, <1>2 DEF Turns, Row
<1>4. \/ notif' = notif
      \/ notif' = [notif EXCEPT ![job.key] = row] /\ notif[job.key].gen = job.gen
  BY DEF MarkSent, Result, SameGeneration
<1> HIDE DEF row
<1>5. JobWrites
  BY <1>1, <1>2, <1>3, <1>4 DEF JobWrites, Turns
<1>6. told[job.key].gen = job.gen
  BY <1>1 DEF IInv, Generations, MarkSent
<1>7. \A k \in Keys :
         notif'[k].status = "sent" =>
             notif[k].status = "sent" \/ told[k].gen = notif[k].gen
  BY <1>1, <1>2, <1>3, <1>4, <1>6 DEF Turns
<1>8. told' = told /\ job' = Idle
  BY DEF MarkSent
<1> QED BY <1>1, <1>5, <1>7, <1>8, JobResult

LEMMA MarkFailedStep ==
  ASSUME IInv, MarkFailed, UNCHANGED ops
  PROVE  IInv'
<1> DEFINE row == [notif[job.key] EXCEPT !.status = "failed",
                                         !.attempts = job.attempts + 1]
<1>1. notif \in [Keys -> Row] /\ job # Idle
  BY RowsTyped DEF IInv, MarkFailed, Idle
<1>2. job \in Turns /\ notif[job.key].status # "none"
  BY <1>1 DEF IInv, QueueOK, Turns, JobStages, Generations
<1>3. row \in Row /\ row.gen = notif[job.key].gen /\ row.status = "failed"
  <2>1. notif[job.key] \in Row /\ job.attempts + 1 \in Nat
    BY <1>1, <1>2 DEF Turns
  <2> QED BY <2>1, RowTried
<1>4. notif' = notif \/ notif' = [notif EXCEPT ![job.key] = row]
  BY DEF MarkFailed, Result
<1> HIDE DEF row
<1>5. JobWrites
  BY <1>1, <1>2, <1>3, <1>4 DEF JobWrites, Turns
<1>6. \A k \in Keys : notif'[k].status = "sent" => notif[k].status = "sent"
  BY <1>1, <1>2, <1>3, <1>4 DEF Turns
<1>7. told' = told /\ job' \in {Idle, [job EXCEPT !.at = "retry"]}
  BY DEF MarkFailed
<1> QED BY <1>1, <1>5, <1>6, <1>7, JobResult

LEMMA HandleTransientStep ==
  ASSUME IInv, HandleTransient, UNCHANGED ops
  PROVE  IInv'
<1> DEFINE tried == [notif[job.key] EXCEPT !.attempts = job.attempts + 1]
           row == IF IsTerminal(tried.attempts)
                  THEN [tried EXCEPT !.status = "failed"] ELSE tried
<1>1. notif \in [Keys -> Row] /\ job # Idle
  BY RowsTyped DEF IInv, HandleTransient, Idle
<1>2. job \in Turns /\ notif[job.key].status # "none"
  BY <1>1 DEF IInv, QueueOK, Turns, JobStages, Generations
<1>3. /\ row \in Row /\ row.gen = notif[job.key].gen
      /\ row.status \in {"failed", notif[job.key].status}
  <2>1. notif[job.key] \in Row /\ job.attempts + 1 \in Nat
    BY <1>1, <1>2 DEF Turns
  <2>2. /\ tried \in Row /\ tried.gen = notif[job.key].gen
        /\ tried.status = notif[job.key].status
    BY <2>1, RowTried
  <2> HIDE DEF tried
  <2>3. [tried EXCEPT !.status = "failed"] \in Row
        /\ [tried EXCEPT !.status = "failed"].gen = tried.gen
        /\ [tried EXCEPT !.status = "failed"].status = "failed"
    BY <2>2, RowTried
  <2> QED BY <2>2, <2>3
<1>4. notif' = notif \/ notif' = [notif EXCEPT ![job.key] = row]
  BY DEF HandleTransient, Result
<1> HIDE DEF row
<1>5. JobWrites
  BY <1>1, <1>2, <1>3, <1>4 DEF JobWrites, Turns
<1>6. \A k \in Keys : notif'[k].status = "sent" => notif[k].status = "sent"
  BY <1>1, <1>2, <1>3, <1>4 DEF Turns
<1>7. told' = told /\ job' = Idle
  BY DEF HandleTransient
<1> QED BY <1>1, <1>5, <1>6, <1>7, JobResult

LEMMA CancelNotificationStep ==
  ASSUME IInv, CancelNotification, UNCHANGED ops
  PROVE  IInv'
<1> DEFINE row == Withdrawn(notif[job.key])
<1>1. notif \in [Keys -> Row] /\ job # Idle
  BY RowsTyped DEF IInv, CancelNotification, Idle
<1>2. job \in Turns /\ notif[job.key].status # "none"
  BY <1>1 DEF IInv, QueueOK, Turns, JobStages, Generations
<1>3. /\ row \in Row /\ row.gen = notif[job.key].gen
      /\ row.status \in {"cancelled", notif[job.key].status}
  BY <1>1, <1>2 DEF Turns, Row, Withdrawn
<1>4. notif' = notif \/ notif' = [notif EXCEPT ![job.key] = row]
  BY DEF CancelNotification
<1> HIDE DEF row
<1>5. JobWrites
  BY <1>1, <1>2, <1>3, <1>4 DEF JobWrites, Turns
<1>6. \A k \in Keys : notif'[k].status = "sent" => notif[k].status = "sent"
  BY <1>1, <1>2, <1>3, <1>4 DEF Turns
<1>7. told' = told /\ job' \in {Idle, [job EXCEPT !.at = "retry"]}
  BY DEF CancelNotification
<1> QED BY <1>1, <1>5, <1>6, <1>7, JobResult

LEMMA RestartStep ==
  ASSUME IInv, Restart, UNCHANGED ops
  PROVE  IInv'
<1>1. notif \in [Keys -> Row] /\ notif' = notif
  BY RowsTyped DEF IInv, Restart
<1>2. JobWrites
  BY <1>1 DEF JobWrites
<1>3. told' = told /\ job # Idle /\ job' = Idle
  BY DEF Restart
<1> QED BY <1>1, <1>2, <1>3, JobResult

\* The job takes up a row, or goes on with the one it is at; no row is written
\* and no mail leaves.
LEMMA JobTurns ==
  ASSUME IInv, UNCHANGED ops, UNCHANGED <<notif, told>>,
         job' \in Turns, job' # Idle, job'.at \notin {"sent"},
         notif[job'.key].status # "none",
         job'.gen <= notif[job'.key].gen, told[job'.key].gen <= job'.gen,
         TrueOf(job'.about, job'.key),
         /\ job'.key[2] = "booking_rescheduled" /\ job'.at = "send"
         => job'.about.date = at[job'.key[1]]
  PROVE  IInv'
<1>1. JobWrites
  BY RowsTyped DEF IInv, JobWrites
<1>2. Keys' = Keys /\ TypeOK' /\ SeatsMatch' /\ Ended'
  BY <1>1, JobKeeps
<1>3. QueueOK'
  BY <1>2 DEF IInv, QueueOK, Turns, JobStages
<1>4. Generations'
  BY <1>2 DEF IInv, Generations
<1>5. Dates'
  BY <1>2 DEF IInv, Dates, ops
<1>6. Texted'
  BY <1>2 DEF IInv, Texted, TrueOf, ops
<1> QED BY <1>2, <1>3, <1>4, <1>5, <1>6 DEF IInv


LEMMA FetchStep ==
  ASSUME IInv, NEW k \in Keys, Fetch(k), UNCHANGED ops
  PROVE  IInv'
<1>1. /\ notif[k] \in Row /\ notif[k].status # "none" /\ k \in Keys
  BY KeysTyped DEF IInv, Fetch
<1>2. NotNow \in Texts /\ TrueOf(NotNow, k)
  BY DEF Texts, NotNow, TrueOf
<1>3. job' = [at |-> "read", key |-> k, gen |-> notif[k].gen,
              attempts |-> notif[k].attempts, about |-> NotNow]
  BY DEF Fetch, Turn
<1>4. /\ job' \in Turns /\ job' # Idle /\ job'.at = "read" /\ job'.key = k
      /\ job'.gen = notif[k].gen /\ job'.about = NotNow
  BY <1>1, <1>2, <1>3 DEF Turns, JobStages, Row, Idle
<1>5. told[k].gen <= notif[k].gen /\ notif[k].gen <= notif[k].gen
  BY <1>1 DEF IInv, Generations, Row
<1>6. UNCHANGED <<notif, told>>
  BY DEF Fetch
<1>7. TrueOf(job'.about, job'.key)
  <2>1. \A about, l : about = NotNow /\ l = k => TrueOf(about, l)
    BY <1>2
  <2> QED BY <1>4, <2>1
<1> QED BY <1>1, <1>4, <1>5, <1>6, <1>7, JobTurns

\* What each preparer writes is true when it is written.
LEMMA FindingsTrue ==
  ASSUME IInv, NEW k \in Keys, notif[k].status # "none",
         NEW about \in Findings(k)
  PROVE  /\ about \in Texts /\ TrueOf(about, k)
         /\ k[2] = "booking_rescheduled" /\ about # NotNow =>
               about.date = at[k[1]]
<1>1. k[1] \in Bookings /\ k[2] \in Kinds
  BY KeysTyped DEF IInv
<1>2. at[k[1]] \in Departures
  BY <1>1 DEF IInv, TypeOK
<1>3. NotNow \in Texts /\ TrueOf(NotNow, k)
  BY DEF Texts, NotNow, TrueOf
<1>4. ASSUME NEW d \in Departures,
             NEW m \in {"nothing", "review", "refund", "no charge", "closed",
                        "no refund"}
      PROVE  /\ Says(d, m) \in Texts /\ Says(d, m).date = d
             /\ Says(d, m).money = m
  BY DEF Says, Texts
<1>5. CASE k[2] \in {"booking_confirmation", "reminder_24h"}
  <2>1. about \in {Says(at[k[1]], "nothing"), NotNow}
    BY <1>5 DEF Findings, BookingEmail
  <2>3. CASE about = NotNow
    BY <1>3, <1>5, <2>3 DEF TrueOf
  <2>4. CASE about = Says(at[k[1]], "nothing")
    <3>1. /\ about \in Texts /\ about.date = at[k[1]]
          /\ about.money = "nothing"
      BY <1>2, <1>4, <2>4
    <3> QED BY <3>1, <1>5 DEF TrueOf
  <2> QED BY <2>1, <2>3, <2>4
<1>6. CASE k[2] = "booking_rescheduled"
  <2>1. about \in {Says(at[k[1]], "nothing"), NotNow}
    BY <1>6 DEF Findings, RescheduledEmail
  <2>3. CASE about = NotNow
    BY <1>3, <1>6, <2>3 DEF TrueOf
  <2>4. CASE about = Says(at[k[1]], "nothing")
    <3>1. /\ about \in Texts /\ about.date = at[k[1]]
          /\ about.money = "nothing"
      BY <1>2, <1>4, <2>4
    <3> QED BY <3>1, <1>6 DEF TrueOf
  <2> QED BY <2>1, <2>3, <2>4
<1>7. CASE k[2] = "departure_cancelled"
  <2> DEFINE m == DepartureOutcome(k[1])
  <2>1. about \in {Says(at[k[1]], m), NotNow}
    BY <1>7 DEF Findings, DepartureNotice
  <2>2. /\ m \in {"review", "refund", "no charge"}
        /\ m = "refund" => k[1] \in refunded
    BY DEF DepartureOutcome
  <2> HIDE DEF m
  <2>3. CASE about = NotNow
    BY <1>3, <1>7, <2>3 DEF TrueOf
  <2>4. CASE about = Says(at[k[1]], m)
    <3>1. /\ about \in Texts /\ about.date = at[k[1]]
          /\ about.money = m
      <4>1. m \in {"nothing", "review", "refund", "no charge", "closed",
                  "no refund"}
        BY <2>2
      <4>2. /\ Says(at[k[1]], m) \in Texts /\ Says(at[k[1]], m).date = at[k[1]]
            /\ Says(at[k[1]], m).money = m
        BY <1>2, <1>4, <4>1
      <4> QED BY <2>4, <4>2
    <3> QED BY <3>1, <1>7, <2>2 DEF TrueOf
  <2> QED BY <2>1, <2>3, <2>4
<1>8. CASE k[2] = "cancellation_confirmation"
  <2> DEFINE m == RefundLine(k[1])
  <2>1. about = Says(at[k[1]], m)
    BY <1>8 DEF Findings, CancellationEmail
  <2>2. /\ m \in {"refund", "closed", "no charge", "no refund"}
        /\ m = "refund" <=> k[1] \in refunded
    BY DEF RefundLine
  <2>3. k[1] \in paid
    BY <1>8 DEF IInv, Ended
  <2> HIDE DEF m
  <2>4. TrueOf(Says(at[k[1]], m), k)
    BY <1>2, <1>4, <1>8, <2>2, <2>3 DEF TrueOf
  <2> QED BY <1>2, <1>4, <1>8, <2>1, <2>2, <2>4
<1>9. CASE k[2] = "overbooked_refunded"
  <2>1. about = Says(at[k[1]], "refund")
    BY <1>9 DEF Findings, OverbookedEmail
  <2>2. k[1] \in refunded
    BY <1>9 DEF IInv, Ended
  <2>3. TrueOf(Says(at[k[1]], "refund"), k)
    BY <1>2, <1>4, <2>2 DEF TrueOf
  <2> QED BY <1>2, <1>4, <1>9, <2>1, <2>3
<1> QED BY <1>1, <1>5, <1>6, <1>7, <1>8, <1>9 DEF Kinds

LEMMA PrepareStep ==
  ASSUME IInv, job # Idle, NEW about \in Findings(job.key), Prepare(about),
         UNCHANGED ops
  PROVE  IInv'
<1>1. /\ job \in Turns /\ job.key \in Keys /\ notif[job.key].status # "none"
      /\ job.gen <= notif[job.key].gen /\ told[job.key].gen <= job.gen
  BY DEF IInv, QueueOK, Turns, JobStages, Generations
<1>2. /\ about \in Texts /\ TrueOf(about, job.key)
      /\ job.key[2] = "booking_rescheduled" /\ about # NotNow =>
            about.date = at[job.key[1]]
  BY <1>1, FindingsTrue
<1>3. NotNow \in Texts /\ TrueOf(NotNow, job.key)
  BY DEF Texts, NotNow, TrueOf
<1>4. \E turn \in {"cancel", "send", "retry"}, text \in {about, NotNow} :
         /\ job' = [at |-> turn, key |-> job.key, gen |-> job.gen,
                    attempts |-> job.attempts, about |-> text]
         /\ turn = "send" => text = about /\ about # NotNow
  BY DEF Prepare, Turn
<1>5. PICK turn \in {"cancel", "send", "retry"}, text \in {about, NotNow} :
         /\ job' = [at |-> turn, key |-> job.key, gen |-> job.gen,
                    attempts |-> job.attempts, about |-> text]
         /\ turn = "send" => text = about /\ about # NotNow
  BY <1>4
<1>6. text \in Texts /\ TrueOf(text, job.key)
  BY <1>2, <1>3
<1>7. /\ job' \in Turns /\ job' # Idle /\ job'.at = turn /\ job'.key = job.key
      /\ job'.gen = job.gen /\ job'.about = text
  BY <1>1, <1>5, <1>6 DEF Turns, JobStages, Idle
<1>8. UNCHANGED <<notif, told>>
  BY DEF Prepare
<1>9. TrueOf(job'.about, job'.key)
  <2>1. \A t, l : t = text /\ l = job.key => TrueOf(t, l)
    BY <1>6
  <2> QED BY <1>7, <2>1
<1> QED BY <1>1, <1>2, <1>5, <1>7, <1>8, <1>9, JobTurns

LEMMA SendStep ==
  ASSUME IInv, Send, UNCHANGED ops
  PROVE  IInv'
<1>1. /\ job \in Turns /\ job.key \in Keys /\ job.at = "send" /\ job # Idle
      /\ notif[job.key].status # "none"
      /\ job.gen <= notif[job.key].gen /\ told[job.key].gen <= job.gen
  BY DEF IInv, QueueOK, Turns, JobStages, Generations, Send, Idle
<1>2. /\ job' \in Turns /\ job' # Idle /\ job'.key = job.key
      /\ job'.gen = job.gen /\ job'.about = job.about
      /\ job'.at \in {"sent", "retry", "failed"}
  BY <1>1 DEF Send, Turns, JobStages, Idle
<1>3. JobWrites
  BY RowsTyped DEF IInv, Send, JobWrites
<1>4. Keys' = Keys /\ TypeOK' /\ SeatsMatch' /\ Ended' /\ notif' = notif
  BY <1>3, JobKeeps DEF Send
<1> DEFINE mail == [gen |-> job.gen, about |-> job.about]
<1>5. /\ told' = told \/ told' = [told EXCEPT ![job.key] = mail]
      /\ job'.at = "sent" => told'[job.key].gen = job.gen
  <2>1. told \in [Keys -> [gen : Nat \cup {-1}, about : Texts]]
    BY DEF IInv, QueueOK
  <2>2. CASE job' = [job EXCEPT !.at = "sent"] /\ told' # told
    BY <1>1, <2>1, <2>2 DEF Send
  <2>3. CASE job' = [job EXCEPT !.at = "sent"] /\ told' = told
    <3>1. told[job.key] # mail => Accepted(job) \/ job'.at # "sent"
      BY <1>1, <2>1, <2>3 DEF Send, Turns
    <3> QED BY <2>3, <3>1 DEF Accepted
  <2>4. CASE job' # [job EXCEPT !.at = "sent"]
    BY <1>1, <2>1, <2>4 DEF Send, Turns
  <2> QED BY <2>2, <2>3, <2>4
<1>6. mail \in [gen : Nat \cup {-1}, about : Texts]
  BY <1>1 DEF Turns
<1>7. told' \in [Keys -> [gen : Nat \cup {-1}, about : Texts]]
  BY <1>1, <1>5, <1>6 DEF IInv, QueueOK
<1>8. QueueOK'
  BY <1>2, <1>4, <1>7 DEF QueueOK, Turns, JobStages
<1>9. \A k \in Keys : \/ told'[k] = told[k]
                      \/ /\ k = job.key /\ told'[k].gen = job.gen
                         /\ told'[k].about = job.about
  <2>1. told \in [Keys -> [gen : Nat \cup {-1}, about : Texts]]
    BY DEF IInv, QueueOK
  <2> QED BY <1>1, <1>5, <2>1
<1>10. Generations'
  <2>1. job.gen \in Nat /\ job.gen # -1
    BY <1>1 DEF Turns
  <2>2. \A k \in Keys : /\ told'[k].gen <= notif[k].gen
                        /\ notif[k].status = "none" => told'[k].gen = -1
                        /\ told'[k].gen = -1 => told'[k].about = NotNow
    BY <1>1, <1>9, <2>1 DEF IInv, Generations
  <2>3. told'[job.key].gen <= job.gen
    BY <1>1, <1>9, <2>1
  <2> QED BY <1>1, <1>2, <1>4, <1>5, <2>2, <2>3 DEF Generations
<1>11. Dates'
  <2>1. at' = at
    BY DEF ops
  <2>2. \A k \in Keys : k[2] = "booking_rescheduled" =>
            /\ told'[k].gen = notif[k].gen => told'[k].about.date = at[k[1]]
            /\ notif[k].status = "sent" => told'[k].gen = notif[k].gen
    <3>1. SUFFICES ASSUME NEW k \in Keys, k[2] = "booking_rescheduled"
                   PROVE  /\ told'[k].gen = notif[k].gen =>
                                told'[k].about.date = at[k[1]]
                          /\ notif[k].status = "sent" =>
                                told'[k].gen = notif[k].gen
      OBVIOUS
    <3>2. CASE told'[k] = told[k]
      BY <3>1, <3>2 DEF IInv, Dates
    <3>3. CASE /\ k = job.key /\ told'[k].gen = job.gen
               /\ told'[k].about = job.about
      <4>1. notif[k].status = "sent" => told[k].gen = notif[k].gen
        BY <3>1 DEF IInv, Dates
      <4>2. job.gen \in Nat /\ notif[k].gen \in Nat
            /\ told[k].gen \in Nat \cup {-1}
        BY <1>1, KeysTyped DEF Turns, Row, IInv, QueueOK
      <4>3. notif[k].status = "sent" => job.gen = notif[k].gen
        BY <1>1, <3>3, <4>1, <4>2
      <4>4. job.gen = notif[k].gen => job.about.date = at[k[1]]
        BY <1>1, <3>1, <3>3 DEF IInv, Dates
      <4> QED BY <3>3, <4>3, <4>4
    <3> QED BY <1>9, <3>2, <3>3
  <2> QED BY <1>2, <1>4, <2>1, <2>2 DEF Dates
<1>12. Texted'
  <2>1. paid' = paid /\ refunded' = refunded
    BY DEF ops
  <2>2. \A k \in Keys :
           LET about == told'[k].about IN
           about # NotNow =>
               /\ about.money = "refund" => k[1] \in refunded
               /\ about.money \in {"closed", "no refund"} =>
                     /\ k[1] \in paid \ refunded
                     /\ k[2] = "cancellation_confirmation"
    BY <1>1, <1>9 DEF IInv, Texted, TrueOf
  <2>3. LET about == job.about
            k == job.key IN
        about # NotNow =>
            /\ about.money = "refund" => k[1] \in refunded
            /\ about.money \in {"closed", "no refund"} =>
                  /\ k[1] \in paid \ refunded
                  /\ k[2] = "cancellation_confirmation"
    BY <1>1 DEF IInv, Texted, TrueOf
  <2> QED BY <1>2, <1>4, <2>1, <2>2, <2>3 DEF Texted, TrueOf
<1> QED BY <1>4, <1>8, <1>10, <1>11, <1>12 DEF IInv

-----------------------------------------------------------------------------
(* The invariant.                                                          *)

LEMMA OpInvariant ==
  ASSUME IInv, OpOK
  PROVE  IInv'
<1>1. TypeOK' /\ SeatsMatch' /\ Ended' /\ OpStep
  BY DEF OpOK
<1> QED BY <1>1, OpQueue, OpGenerations, OpDates, OpTexted DEF IInv

LEMMA DeliverStep ==
  ASSUME IInv, Deliver, UNCHANGED ops
  PROVE  IInv'
  BY SendStep, MarkSentStep, MarkFailedStep, HandleTransientStep,
     CancelNotificationStep, RestartStep DEF Deliver

LEMMA Step ==
  ASSUME IInv, [Next]_vars
  PROVE  IInv'
<1>1. ASSUME NEW d \in Departures, CancelDeparture(d) PROVE IInv'
  BY <1>1, CancelOp, OpInvariant DEF CancelDeparture
<1>2. ASSUME NEW d \in Departures, ResolveMinimum(d) PROVE IInv'
  <2>1. \/ Resolve(d, "reached") \/ Cancel(d, "minimum", "auto_cancelled")
    BY <1>2 DEF ResolveMinimum
  <2>2. "minimum" \in Reasons
    BY DEF Reasons
  <2> QED BY <2>1, <2>2, CancelOp, ResolveOp, OpInvariant
<1>3. ASSUME NEW d \in Departures, KeepDeparture(d) PROVE IInv'
  BY <1>3, ResolveOp, OpInvariant DEF KeepDeparture
<1>4. ASSUME NEW d \in Departures, Tick(d) PROVE IInv'
  BY <1>4, TickOp, OpInvariant
<1>5. ASSUME NEW b \in Bookings, CancelBooking(b) PROVE IInv'
  BY <1>5, CancelBookingOp, OpInvariant
<1>6. ASSUME NEW b \in Bookings, LeaveHold(b) PROVE IInv'
  BY <1>6, LeaveHoldOp, OpInvariant
<1>7. ASSUME NEW b \in Bookings, Confirm(b) PROVE IInv'
  BY <1>7, ConfirmOp, OpInvariant
<1>8. ASSUME NEW b \in Bookings, GiveUp(b) PROVE IInv'
  BY <1>8, GiveUpOp, OpInvariant
<1>9. ASSUME NEW b \in Bookings, NEW refund \in BOOLEAN,
             DecideReview(b, refund)
      PROVE  IInv'
  BY <1>9, DecideReviewOp, OpInvariant
<1>10. ASSUME NEW b \in Bookings, NEW d \in Departures, Reschedule(b, d)
       PROVE  IInv'
  BY <1>10, RescheduleOp, OpInvariant
<1>11. ASSUME FetchPending PROVE IInv'
  BY <1>11, FetchStep DEF FetchPending
<1>12. ASSUME PrepareNext PROVE IInv'
  BY <1>12, PrepareStep DEF PrepareNext
<1>13. ASSUME DeliverNext PROVE IInv'
  BY <1>13, DeliverStep DEF DeliverNext
<1>14. ASSUME UNCHANGED vars PROVE IInv'
  <2>1. UNCHANGED ops /\ notif' = notif /\ job' = job /\ told' = told
    BY <1>14 DEF vars, queue
  <2>2. JobWrites
    BY <2>1, RowsTyped DEF IInv, JobWrites
  <2>3. Keys' = Keys /\ TypeOK' /\ SeatsMatch' /\ Ended'
    BY <2>2, JobKeeps
  <2>4. QueueOK' /\ Generations' /\ Texted' /\ Dates'
    BY <2>1, <2>3 DEF IInv, QueueOK, Generations, Texted, TrueOf, Dates, ops
  <2> QED BY <2>3, <2>4 DEF IInv
<1>15. CASE Next
  BY <1>1, <1>2, <1>3, <1>4, <1>5, <1>6, <1>7, <1>8, <1>9, <1>10, <1>11,
     <1>12, <1>13, <1>15 DEF Next
<1> QED BY <1>14, <1>15

LEMMA Initial ==
  ASSUME Init
  PROVE  IInv
<1>1. PICK o \in Openings :
         /\ status = o[1]
         /\ notif = [k \in o[2] |-> Opening(k)]
         /\ moves = o[3]
  BY DEF Init
<1>2. /\ status \in [Bookings -> Live \cup {"holding", "expired", "cancelled",
                        "overbooked_refunded", "payment_mismatch"}]
      /\ Keys = o[2] /\ Keys \subseteq Bookings \X Kinds
      /\ SeatsOf({b \in Bookings : status[b] = "confirmed"}) <= Capacity
  BY <1>1, OpeningsAssumption DEF Keys
<1>3. \A k \in Keys : notif[k] = Opening(k)
  BY <1>1, <1>2
<1>4. \A k \in Keys : k[1] \in Bookings /\ k[2] \in Kinds
  BY <1>2
<1>5. 1 \in Departures /\ Now = 0
  BY DeparturesAssumption DEF Now
<1>6. NoRow \in Row /\ NoRow.status = "none" /\ NoRow.gen = 0
  BY <1>5 DEF NoRow, Row
<1>7. \A due \in Departures \cup {Now} : Enqueued(NoRow, due) \in Row
  BY <1>6, RowOperations
<1>8. ASSUME NEW k \in Keys
      PROVE  /\ notif[k] \in Row /\ notif[k].gen \in Nat
             /\ notif[k].status # "none" =>
                   k[2] \in {"booking_confirmation", "reminder_24h"}
             /\ notif[k].status = "sent" => k[2] = "booking_confirmation"
  <2>1. CASE status[k[1]] # "confirmed" \/ k[2] \notin {"booking_confirmation", "reminder_24h"}
    BY <1>3, <1>6, <2>1 DEF Opening, Row
  <2>2. CASE status[k[1]] = "confirmed" /\ k[2] = "booking_confirmation"
    <3>1. notif[k] = [Enqueued(NoRow, Now) EXCEPT !.status = "sent"]
      BY <1>3, <2>2 DEF Opening
    <3> QED BY <1>7, <2>2, <3>1 DEF Row
  <2>3. CASE status[k[1]] = "confirmed" /\ k[2] = "reminder_24h"
    <3>1. notif[k] = Enqueued(NoRow, 1)
      BY <1>3, <2>3 DEF Opening
    <3>2. notif[k] \in Row
      BY <1>5, <1>7, <3>1
    <3> QED BY <2>3, <3>1, <3>2 DEF Row, Enqueued
  <2> QED BY <2>1, <2>2, <2>3
<1> DEFINE first(d) == {b \in Bookings : d = 1 /\ status[b] = "confirmed"}
<1>9. \A d \in Departures : Booked(d) = first(d)
  BY DEF Init, Booked, At, In
<1>10. \A d \in Departures : reserved[d] = SeatsOf(first(d))
  BY DEF Init
<1>11. \A d \in Departures : first(d) \in SUBSET Bookings
  OBVIOUS
<1>12. ASSUME NEW d \in Departures PROVE SeatsOf(first(d)) <= Capacity
  <2>1. CASE d = 1
    <3>1. first(d) = {b \in Bookings : status[b] = "confirmed"}
      BY <2>1
    <3> HIDE DEF first
    <3> QED BY <1>2, <3>1
  <2>2. CASE d # 1
    <3>1. first(d) = {}
      BY <2>2
    <3> HIDE DEF first
    <3> QED BY <3>1, SeatsNone, SeatsAssumed
  <2> QED BY <2>1, <2>2
<1> HIDE DEF first
<1>13. SeatsMatch
  BY <1>9, <1>10, <1>12 DEF SeatsMatch, Booked
<1>14. reserved \in [Departures -> Nat]
  <2>1. \A d \in Departures : reserved[d] \in Nat
    BY <1>10, <1>11, SeatsNat
  <2> QED BY <2>1 DEF Init
<1>15. notif \in [Keys -> Row]
  BY <1>1, <1>2, <1>8
<1>16. TypeOK
  <2>1. moves \in Nat
    BY <1>1, OpeningsAssumption
  <2>2. {review, paid, refunded} \subseteq SUBSET Bookings
    BY DEF Init, In
  <2>3. /\ policy \in Policies
        /\ phase \in [Departures -> Far..Started]
        /\ dep \in [Departures -> Reasons \cup {"available"}]
        /\ resolved \in [Departures -> {"none", "reached", "staff_confirmed",
                                    "auto_cancelled", "staff_cancelled"}]
        /\ at \in [Bookings -> Departures]
    BY <1>5 DEF Init, Far, Started
  <2> QED BY <1>2, <1>14, <1>15, <2>1, <2>2, <2>3 DEF TypeOK, Row
<1>17. QueueOK
  <2>1. Untold \in [gen : Nat \cup {-1}, about : Texts]
    BY DEF Untold, Texts, NotNow
  <2> QED BY <2>1 DEF QueueOK, Init
<1>18. \A k \in Keys : told[k] = Untold /\ told[k].gen = -1
                       /\ told[k].about = NotNow
  BY DEF Init, Untold
<1>19. job = Idle
  BY DEF Init
<1>20. Generations
  BY <1>8, <1>18, <1>19 DEF Generations
<1>21. Dates
  <2>1. ASSUME NEW k \in Keys, k[2] = "booking_rescheduled"
        PROVE  told[k].gen # notif[k].gen /\ notif[k].status # "sent"
    BY <1>8, <1>18, <2>1
  <2> QED BY <1>19, <2>1 DEF Dates
<1>22. Ended
  BY <1>4, <1>8 DEF Ended, Init, In
<1>23. Texted
  BY <1>18, <1>19 DEF Texted, TrueOf
<1> QED BY <1>13, <1>16, <1>17, <1>20, <1>21, <1>22, <1>23 DEF IInv

-----------------------------------------------------------------------------
(* Theorems.                                                               *)

\* The inductive invariant holds in every run of the departures.
THEOREM DeparturesInvariant == Spec => []IInv
<1>1. Init => IInv
  BY Initial
<1>2. IInv /\ [Next]_vars => IInv'
  BY Step
<1> QED BY <1>1, <1>2, PTL DEF Spec

\* Every variable of the departures and of the queue keeps its type.
THEOREM DeparturesTypeOK == Spec => []TypeOK
<1>1. IInv => TypeOK
  BY DEF IInv
<1> QED BY <1>1, DeparturesInvariant, PTL

\* SeatsMatch: through every cancellation, confirmation, review and change of
\* date the counter of a departure is the seats of its confirmed bookings, and
\* they fit (cancel_departure, cancel_booking, confirm_booking,
\* reschedule_booking).
THEOREM DeparturesSeatsMatch == Spec => []SeatsMatch
<1>1. IInv => SeatsMatch
  BY DEF IInv
<1> QED BY <1>1, DeparturesInvariant, PTL

\* LastMoveIsTold: a notice of a change of date that is recorded as sent was
\* sent with the date the booking has, however many changes crossed the sending
\* (enqueue_booking_notice, markSent).
THEOREM DeparturesLastMoveIsTold == Spec => []LastMoveIsTold
<1>1. IInv => LastMoveIsTold
  BY DEF IInv, Dates, LastMoveIsTold
<1> QED BY <1>1, DeparturesInvariant, PTL

\* MoneyIsTold: no mail ever says of the money what is not so, neither when it
\* leaves nor later (prepareCancellationEmail, prepareDepartureNoticeEmail,
\* prepareOverbookedEmail).
THEOREM DeparturesMoneyIsTold == Spec => []MoneyIsTold
<1>1. IInv => MoneyIsTold
  BY DEF IInv, Texted, TrueOf, MoneyIsTold
<1> QED BY <1>1, DeparturesInvariant, PTL

\* Somebody who is booked has tickets.
LEMMA SomebodyHasTickets ==
  ASSUME NEW d \in Departures, At(In(Live), d) # {}
  PROVE  LiveTickets(d) > 0
<1> DEFINE L == At(In(Live), d)
<1>1. L \in SUBSET Bookings
  BY DEF At, In
<1>2. PICK b \in L : TRUE
  OBVIOUS
<1>3. LiveTickets(d) = SeatsOf(L)
  BY DEF LiveTickets
<1> HIDE DEF L
<1>4. /\ SeatsOf(L) = Seats[b] + SeatsOf(L \ {b})
      /\ SeatsOf(L \ {b}) \in Nat /\ Seats[b] \in Nat /\ Seats[b] > 0
  BY <1>1, <1>2, SeatsWithout, SeatsAssumed
<1> QED BY <1>3, <1>4

\* PanelMatches: the trays and dialogs of the panel, which decide by rules of
\* their own, offer what the database accepts and miss nothing the job is about
\* to decide (minimumView, listRescheduleTargets, keep_departure,
\* resolve_immediate_minimum).
THEOREM DeparturesPanelMatches == Spec => []PanelMatches
<1>1. ASSUME IInv PROVE PanelMatches
  <2>1. ASSUME NEW d \in Listed
        PROVE  /\ d \in MinimumTray => Decidable(d)
               /\ \A why \in Offered(d) :
                     why = "minimum" => CanCancelForMinimum(d)
    BY DEF MinimumTray, NeedsDecision, Unresolved, DeferredFlow, Decidable,
           Listed, Offered, CanCancelForMin, CanCancelForMinimum
  <2>2. ASSUME NEW d \in Listed, phase[d] = Window, Decidable(d), ~Reached(d),
               At(In(Live), d) # {}
        PROVE  d \in MinimumTray /\ Hint(d) # "too late"
    <3>1. d \in Departures /\ LiveTickets(d) > 0
      BY <2>2, SomebodyHasTickets DEF Listed
    <3>2. reserved[d] \in Nat /\ Minimum \in Nat
      BY <1>1, <3>1, DeparturesAssumption DEF IInv, TypeOK
    <3>3. Below(d) /\ Unresolved(d)
      BY <2>2, <3>2 DEF Below, Reached, Unresolved, DeferredFlow, Decidable
    <3>4. CanCancelForMin(d) /\ phase[d] >= Window
      BY <2>2, <3>3 DEF CanCancelForMin, Window, Margin
    <3> QED BY <2>2, <3>1, <3>3, <3>4 DEF MinimumTray, NeedsDecision, Hint
  <2>3. ASSUME NEW b \in ReviewTray PROVE OffersReview(b)
    BY <1>1, <2>3 DEF IInv, TypeOK, Ended, ReviewTray, OffersReview
  <2>4. ASSUME NEW b \in Bookings, NEW d \in Departures,
               status[b] = "confirmed", at[b] # d, dep[d] = "available",
               phase[d] < Started, Free(d) >= Seats[b]
        PROVE  d \in RescheduleTargets(b)
    <3> DEFINE h == SeatsOf(Held(d))
    <3>1. Held(d) \in SUBSET Bookings
      BY DEF Held, At, In
    <3>2. h \in Nat /\ reserved[d] \in Nat
      BY <1>1, <3>1, SeatsNat DEF IInv, TypeOK
    <3>3. Capacity - reserved[d] - h >= Seats[b]
      BY <2>4 DEF Free
    <3> HIDE DEF h
    <3>4. Capacity - reserved[d] > 0
      BY <3>2, <3>3, SeatsAssumed
    <3> QED BY <2>4, <3>4 DEF RescheduleTargets, Listed
  <2> QED BY <2>1, <2>2, <2>3, <2>4 DEF PanelMatches
<1>2. IInv => PanelMatches
  BY <1>1
<1> QED BY <1>2, DeparturesInvariant, PTL

\* MinimumIsFinal: whoever cancels for the minimum, no departure that reached
\* it, that is kept or that starts within 24 hours is cancelled, the job cancels
\* no empty one under a checkout, and everybody who had paid is refunded
\* (resolve_immediate_minimum, cancel_departure, keep_departure).
THEOREM DeparturesMinimumIsFinal == Spec => MinimumIsFinal
<1> DEFINE Final(d) ==
             dep[d] = "available" /\ dep'[d] = "minimum" =>
                 /\ resolved[d] = "none" /\ phase[d] < Margin
                 /\ At(In({"confirmed"}), d) \subseteq refunded'
                 /\ resolved'[d] = "auto_cancelled" =>
                       /\ reserved[d] < Minimum \/ At(In(Live), d) = {}
                       /\ At(In({"holding"}), d) # {} => At(In(Live), d) # {}
<1>1. ASSUME IInv, [Next]_vars, NEW d \in Departures PROVE Final(d)
  <2>1. SUFFICES ASSUME dep[d] = "available", dep'[d] = "minimum"
                 PROVE  Final(d)
    OBVIOUS
  <2>2. dep \in [Departures -> Reasons \cup {"available"}]
        /\ resolved \in [Departures -> {"none", "reached", "staff_confirmed",
                                        "auto_cancelled", "staff_cancelled"}]
    BY <1>1 DEF IInv, TypeOK
  <2>3. ASSUME NEW e \in Departures, NEW why \in Reasons, NEW who,
               Cancel(e, why, who)
        PROVE  /\ e = d /\ why = "minimum"
               /\ resolved[d] = "none" /\ phase[d] < Margin
               /\ At(In({"confirmed"}), d) \subseteq refunded'
               /\ resolved'[d] = who
    <3>1. dep' = [dep EXCEPT ![e] = why]
      BY <2>3 DEF Cancel
    <3>2. e = d /\ why = "minimum"
      BY <2>1, <2>2, <3>1
    <3>3. refunded' = refunded \cup At(In({"confirmed"}), d)
      BY <2>3, <3>2 DEF Cancel, OwnRisk
    <3>4. resolved' = [resolved EXCEPT ![d] = who]
      BY <2>3, <3>2 DEF Cancel
    <3> QED BY <2>2, <2>3, <3>2, <3>3, <3>4 DEF Cancel, CanCancelForMinimum
  <2>4. CASE \E e \in Departures : CancelDeparture(e)
    <3>1. PICK e \in Departures, why \in Reasons :
             Cancel(e, why, "staff_cancelled")
      BY <2>4 DEF CancelDeparture
    <3> QED BY <2>3, <3>1
  <2>5. CASE \E e \in Departures : ResolveMinimum(e)
    <3>1. PICK e \in Departures : ResolveMinimum(e)
      BY <2>5
    <3>2. Cancel(e, "minimum", "auto_cancelled")
      BY <2>1, <3>1 DEF ResolveMinimum, Resolve
    <3>3. e = d /\ resolved[d] = "none" /\ phase[d] < Margin
          /\ At(In({"confirmed"}), d) \subseteq refunded'
      BY <2>3, <3>2 DEF Reasons
    <3>4. reserved[d] \in Nat /\ Minimum \in Nat
      BY <1>1, DeparturesAssumption DEF IInv, TypeOK
    <3>5. reserved[d] < Minimum \/ At(In(Live), d) = {}
      BY <2>1, <3>1, <3>3, <3>4 DEF ResolveMinimum, Reached, Resolve
    <3>6. At(In(Live), d) = {} => At(In({"holding"}), d) = {}
      BY <3>1, <3>3 DEF ResolveMinimum, CheckoutInProgress, At, In
    <3> QED BY <3>3, <3>5, <3>6
  <2>6. CASE dep' = dep
    BY <2>1, <2>6
  <2>7. \/ \E e \in Departures : CancelDeparture(e)
        \/ \E e \in Departures : ResolveMinimum(e)
        \/ dep' = dep
    BY <1>1 DEF Next, vars, ops, KeepDeparture, Resolve, Tick, CancelBooking,
        LeaveHold, Confirm, GiveUp, DecideReview, Reschedule, FetchPending,
        PrepareNext, DeliverNext
  <2> QED BY <2>4, <2>5, <2>6, <2>7
<1>2. IInv /\ [Next]_vars => \A d \in Departures : Final(d)
  BY <1>1
<1>3. IInv /\ [Next]_vars =>
         [\A d \in Departures :
             dep[d] = "available" /\ dep'[d] = "minimum" =>
                 /\ resolved[d] = "none" /\ phase[d] < Margin
                 /\ At(In({"confirmed"}), d) \subseteq refunded'
                 /\ resolved'[d] = "auto_cancelled" =>
                       /\ reserved[d] < Minimum \/ At(In(Live), d) = {}
                       /\ At(In({"holding"}), d) # {} => At(In(Live), d) # {}]_vars
  BY <1>2
<1> QED BY <1>3, DeparturesInvariant, PTL DEF Spec, MinimumIsFinal

=============================================================================
