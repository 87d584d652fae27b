---------------------------- MODULE RefundsProofs ----------------------------
(***************************************************************************)
(* Proofs about Refunds: for any number of refunds and of workers no       *)
(* refund is posted twice, and the queue implements MoneyBack: whatever is *)
(* lost and whoever dies, the gateway is asked at most once for each and a *)
(* transfer is made only when the gateway can no longer pay it.  If one    *)
(* panel session retries at a time, and the query of the payment does not  *)
(* fail while two workers overlap.                                         *)
(***************************************************************************)
EXTENDS RefundBoard, FiniteSetTheorems, TLAPS

OneSession == \E s : Staff = {s}
SafeLoads  == LoadFaults => \E p : Workers = {p}

-----------------------------------------------------------------------------
(* The inductive invariant.                                                *)

\* p claimed r to post it and has not written what came of it.
Posting(p, r) ==
    /\ InHand(p, r)
    /\ \/ w[p].pc \in {"post", "release", "persist", "persist again"}
       \/ w[p].pc = "fail" /\ w[p].reason \in {"refused", "ambiguous-timeout"}

\* The only refund that can exist is the first one, and ids name it.
FirstIds ==
    \A r \in Refunds :
        /\ Created(r) \subseteq {1}
        /\ row[r].id # 0 => row[r].id = 1 /\ Created(r) = {1}

\* Ids are never erased; a row that is pending with an id always had it.
IdsStay ==
    \A p \in Workers, r \in Refunds : r \in DOMAIN w[p].todo =>
        /\ w[p].todo[r].id \in {0, row[r].id}
        /\ row[r].status = "pending" /\ row[r].id # 0 => w[p].todo[r].id # 0

OnePoster ==
    \A p, q \in Workers, r \in Refunds :
        Posting(p, r) /\ Posting(q, r) => p = q

\* The row of a refund that a worker may have posted: no retry queues it.
Held(rec) ==
    \/ rec.status = "processing"
    \/ rec.id = 0 /\ rec.status = "failed" /\ rec.reason = "processing-stale"
    \/ rec.id # 0 /\ rec.status # "pending"

\* What a worker that holds a claim, an answer or an id knows of its refund.
Knows(p, r) ==
    /\ Posting(p, r) => Held(row[r])
    /\ w[p].pc \in {"post", "release"} => Created(r) = {}
    /\ w[p].pc = "release" => ~Exhausted(w[p].todo[r])
    /\ w[p].pc \in {"persist", "persist again"} =>
          w[p].id = 1 /\ Created(r) = {1}
    /\ w[p].pc = "claim" => Creating(w[p].todo[r])
    /\ w[p].pc = "poll" => w[p].todo[r].id # 0
    /\ w[p].pc = "settle" => row[r].id # 0
    /\ w[p].pc = "fail" =>
          /\ w[p].reason = "refused" => Created(r) = {}
          /\ w[p].reason = "processing-timeout" => row[r].id # 0
          /\ w[p].reason = "payment-intent-missing" =>
                LoadFaults /\ Creating(w[p].todo[r])
          /\ w[p].reason \in {"payment-intent-missing", "refused",
                              "ambiguous-timeout", "processing-timeout"}

WorkerKnows ==
    \A p \in Workers, r \in Refunds : InHand(p, r) => Knows(p, r)

\* A refund that may exist is in sight.
Sighted(rec) ==
    \/ rec.status = "processing"
    \/ rec.status = "failed" /\ rec.reason \in REFUND_MANUAL_CHECK_REASONS

UnknownKept ==
    \A r \in Refunds : Created(r) # {} /\ row[r].id = 0 => Sighted(row[r])

\* What the panel read of a refund it will queue again still holds.
RetryKnows ==
    \A s \in Staff, r \in Refunds : panel[s].refund = r =>
        /\ panel[s].target = "pending" =>
              /\ ~IsQueued(r)
              /\ Created(r) = {}
              /\ \A p \in Workers : ~Posting(p, r)
        /\ panel[s].target = "processing" => row[r].id # 0
        /\ panel[s].target \in {"pending", "processing"}

\* Before it claims, a worker that is alone has read what the row still is.
Unclaimed(p, r) ==
    /\ r \in DOMAIN w[p].todo
    /\ w[p].todo[r].status = "pending"
    /\ \/ ~InHand(p, r)
       \/ w[p].pc \in {"item", "claim"}
       \/ w[p].pc = "fail" /\ w[p].reason = "payment-intent-missing"

Fresh(p, r) == row[r].status = "pending" /\ row[r].id = w[p].todo[r].id

ReadIsFresh ==
    LoadFaults => \A p \in Workers, r \in Refunds : Unclaimed(p, r) => Fresh(p, r)

\* Only a refund that has POSTs left is pending or released.
AttemptsLeft ==
    /\ \A r \in Refunds : row[r].status = "pending" =>
          row[r].attempts <= MaxCreateAttempts
    /\ \A p \in Workers, r \in Refunds :
          r \in DOMAIN w[p].todo /\ w[p].todo[r].status = "pending" =>
              w[p].todo[r].attempts <= MaxCreateAttempts

IInv ==
    /\ TypeOK
    /\ AttemptsLeft
    /\ FirstIds
    /\ IdsStay
    /\ OnePoster
    /\ WorkerKnows
    /\ UnknownKept
    /\ RetryKnows
    /\ ReadIsFresh

-----------------------------------------------------------------------------
(* How a step of a worker changes the workers.                             *)

LEMMA Constants ==
  /\ MaxCreateAttempts \in Nat /\ MaxPosts \in Nat \ {0} /\ NumRefunds \in Nat
  /\ Refunds \subseteq Nat /\ 0 \notin Refunds
  BY SizesAssumption DEF Refunds

LEMMA TodosLemma ==
  ASSUME NEW t \in Todos
  PROVE  /\ DOMAIN t \subseteq Refunds
         /\ \A r \in DOMAIN t : t[r] \in Row
         /\ t = [r \in DOMAIN t |-> t[r]]
  BY DEF Todos

LEMMA TodosOf ==
  ASSUME NEW S \in SUBSET Refunds, NEW t \in [S -> Row]
  PROVE  t \in Todos
  BY DEF Todos

\* A worker that goes on with the same refund.
LEMMA GoesOn ==
  ASSUME TypeOK, NEW p \in Workers, NEW st \in WorkerState,
         st.todo = w[p].todo, w' = [w EXCEPT ![p] = st]
  PROVE  /\ w' \in [Workers -> WorkerState]
         /\ w'[p] = st
         /\ \A q \in Workers, r \in Refunds :
               /\ w'[q].todo = w[q].todo
               /\ InHand(q, r)' <=> InHand(q, r)
         /\ \A q \in Workers \ {p} : w'[q] = w[q]
  BY DEF TypeOK, InHand

LEMMA FinishedLemma ==
  ASSUME TypeOK, NEW p \in Workers, NEW r \in Refunds, w' = Finished(p, r)
  PROVE  /\ w' \in [Workers -> WorkerState]
         /\ w'[p].pc = "item"
         /\ DOMAIN w'[p].todo = DOMAIN w[p].todo \ {r}
         /\ \A q \in DOMAIN w'[p].todo : w'[p].todo[q] = w[p].todo[q]
         /\ \A q \in Workers \ {p} : w'[q] = w[q]
<1> DEFINE S == DOMAIN w[p].todo \ {r}
           td == [q \in S |-> w[p].todo[q]]
           st == [Idle EXCEPT !.todo = td]
<1>1. /\ w \in [Workers -> WorkerState]
      /\ w[p] \in WorkerState /\ w[p].todo \in Todos
  BY DEF TypeOK, WorkerState
<1>2. S \in SUBSET Refunds /\ td \in [S -> Row]
  BY <1>1, TodosLemma
<1>3. td \in Todos
  BY <1>2, TodosOf
<1>4. st \in WorkerState /\ st.todo = td /\ st.pc = "item"
  <2> HIDE DEF td
  <2>1. st = [pc |-> "item", todo |-> td, id |-> 0, answer |-> "pending",
              reason |-> "none"]
    BY DEF Idle
  <2> HIDE DEF st
  <2>2. "none" \in Reasons /\ "item" \in Pcs /\ "pending" \in Answers
        /\ 0 \in 0 .. MaxPosts
    BY Constants DEF Pcs, Answers, Reasons
  <2> QED BY <2>1, <2>2, <1>3 DEF WorkerState
<1>5. w' = [w EXCEPT ![p] = st]
  BY DEF Finished
<1> HIDE DEF st
<1>6. w'[p] = st /\ w' \in [Workers -> WorkerState] /\ \A q \in Workers \ {p} : w'[q] = w[q]
  BY <1>1, <1>4, <1>5
<1> QED BY <1>4, <1>6

\* The refund in hand is one.
LEMMA OneInHand ==
  ASSUME TypeOK, NEW p \in Workers, NEW r \in Refunds, NEW q \in Refunds,
         InHand(p, r), InHand(p, q)
  PROVE  r = q
  BY Constants DEF InHand

-----------------------------------------------------------------------------
(* A step of worker p that changes refund r.                               *)

\* The rest of the workers and of the refunds stay as they are.
Frame(p, r) ==
    /\ TypeOK'
    /\ panel' = panel
    /\ \A q \in Workers \ {p} : w'[q] = w[q]
    /\ \/ w'[p].todo = w[p].todo
       \/ /\ w'[p].pc = "item"
          /\ DOMAIN w'[p].todo = DOMAIN w[p].todo \ {r}
          /\ \A q \in DOMAIN w'[p].todo : w'[p].todo[q] = w[p].todo[q]
    /\ \A q \in Refunds \ {r} : row'[q] = row[q] /\ Created(q)' = Created(q)

\* What the step owes to the invariant.
Owes(p, r) ==
    /\ Created(r)' \subseteq {1}
    /\ Created(r) \subseteq Created(r)'
    /\ row[r].id # 0 => row'[r].id # 0
    /\ row'[r].id # 0 => row'[r].id = 1 /\ Created(r)' = {1}
    /\ row'[r].status = "pending" =>
          /\ row'[r].attempts <= MaxCreateAttempts
          /\ row'[r].id = 0 \/ row'[r] = row[r]
    /\ Created(r)' # {} /\ row'[r].id = 0 => Sighted(row'[r])
    /\ \A q \in Workers \ {p} : Posting(q, r) =>
          Created(r)' = Created(r) /\ Held(row'[r]) /\ ~Posting(p, r)'
    /\ \A s \in Staff :
          panel[s].refund = r /\ panel[s].target = "pending" =>
              ~IsQueued(r)' /\ Created(r)' = {} /\ ~Posting(p, r)'
    /\ InHand(p, r)' => Knows(p, r)'
    /\ LoadFaults => Workers = {p} /\ (Unclaimed(p, r)' => Fresh(p, r)')

LEMMA WorkerLemma ==
  ASSUME IInv, NEW p \in Workers, NEW r \in Refunds, InHand(p, r),
         Frame(p, r), Owes(p, r)
  PROVE  IInv'
<1>1. \A q \in Workers, s \in Refunds : q # p =>
          /\ InHand(q, s)' <=> InHand(q, s)
          /\ Posting(q, s)' <=> Posting(q, s)
  BY DEF Frame, InHand, Posting
<1>2. \A s \in Refunds \ {r} : InHand(p, s)' => w'[p].pc = "item"
  BY OneInHand DEF IInv, Frame, InHand
<1>3. \A s \in Refunds \ {r} : ~InHand(p, s) /\ ~Posting(p, s) /\ ~Posting(p, s)'
  BY <1>2, OneInHand DEF IInv, Posting
<1>4. \A s \in Refunds : s \in DOMAIN w'[p].todo =>
          s \in DOMAIN w[p].todo /\ w'[p].todo[s] = w[p].todo[s]
  BY DEF Frame
<1>5. AttemptsLeft'
  BY <1>4 DEF IInv, AttemptsLeft, Frame, Owes
<1>6. FirstIds'
  BY DEF IInv, FirstIds, Frame, Owes
<1>7. IdsStay'
  BY <1>4 DEF IInv, IdsStay, FirstIds, Frame, Owes
<1>8. OnePoster'
  BY <1>1, <1>3 DEF IInv, OnePoster, Owes
<1>9. WorkerKnows'
  <2> SUFFICES ASSUME NEW q \in Workers, NEW s \in Refunds, InHand(q, s)'
               PROVE  Knows(q, s)'
    BY DEF WorkerKnows
  <2>1. CASE q = p /\ s = r
    BY <2>1 DEF Owes
  <2>2. CASE q = p /\ s # r
    BY <2>2, <1>2, <1>3 DEF Knows
  <2>3. CASE q # p
    <3>1. Knows(q, s) /\ w'[q] = w[q] /\ (Posting(q, s)' <=> Posting(q, s))
      BY <2>3, <1>1 DEF IInv, WorkerKnows, Frame
    <3>2. CASE s # r
      <4>1. row'[s] = row[s] /\ Created(s)' = Created(s)
        BY <3>2 DEF Frame
      <4> QED BY <3>1, <4>1 DEF Knows
    <3>3. CASE s = r
      <4>1. row[r].id # 0 => row'[r].id # 0
        BY DEF Owes
      <4>2. CASE Posting(q, r)
        BY <3>1, <3>3, <2>3, <4>1, <4>2 DEF Knows, Owes
      <4>3. CASE ~Posting(q, r)
        BY <3>1, <3>3, <2>3, <1>1, <4>1, <4>3 DEF Knows, Posting
      <4> QED BY <4>2, <4>3
    <3> QED BY <3>2, <3>3
  <2> QED BY <2>1, <2>2, <2>3
<1>10. UnknownKept'
  BY DEF IInv, UnknownKept, Sighted, Frame, Owes
<1>11. RetryKnows'
  <2> SUFFICES ASSUME NEW s \in Staff, NEW q \in Refunds, panel[s].refund = q
               PROVE  /\ panel[s].target = "pending" =>
                            /\ ~IsQueued(q)'
                            /\ Created(q)' = {}
                            /\ \A x \in Workers : ~Posting(x, q)'
                      /\ panel[s].target = "processing" => row'[q].id # 0
                      /\ panel[s].target \in {"pending", "processing"}
    BY DEF RetryKnows, Frame
  <2>1. CASE q = r
    BY <2>1, <1>1 DEF IInv, RetryKnows, Owes
  <2>2. CASE q # r
    BY <2>2, <1>1, <1>3 DEF IInv, RetryKnows, Frame, IsQueued
  <2> QED BY <2>1, <2>2
<1>12. ReadIsFresh'
  <2> SUFFICES ASSUME LoadFaults, NEW q \in Workers, NEW s \in Refunds,
                      Unclaimed(q, s)'
               PROVE  Fresh(q, s)'
    BY DEF ReadIsFresh
  <2>1. q = p
    BY DEF Owes
  <2>2. CASE s = r
    BY <2>1, <2>2 DEF Owes
  <2>3. CASE s # r
    BY <2>1, <2>3, <1>3, <1>4 DEF IInv, ReadIsFresh, Unclaimed, Fresh, Frame
  <2> QED BY <2>2, <2>3
<1> QED BY <1>5, <1>6, <1>7, <1>8, <1>9, <1>10, <1>11, <1>12 DEF IInv, Frame

-----------------------------------------------------------------------------
(* The two ways a step of a worker ends.                                   *)

LEMMA Alone ==
  ASSUME SafeLoads, LoadFaults, NEW p \in Workers
  PROVE  Workers = {p}
  BY DEF SafeLoads

LEMMA FaultLemma ==
  ASSUME TypeOK, Fault \/ UNCHANGED faults
  PROVE  faults' \in 0 .. MaxFaults
  BY SizesAssumption DEF TypeOK, Fault

LEMMA RowLemma ==
  ASSUME TypeOK, NEW r \in Refunds, NEW rec \in Row,
         row' \in {row, [row EXCEPT ![r] = rec]}
  PROVE  /\ row' \in [Refunds -> Row]
         /\ row'[r] = row[r] \/ row'[r] = rec
         /\ \A q \in Refunds \ {r} : row'[q] = row[q]
  BY DEF TypeOK

\* What a record that is written to the row of r owes to the invariant.
RowOwes(p, r, rec) ==
    /\ row[r].id # 0 => rec.id # 0
    /\ rec.id # 0 => rec.id = 1 /\ Created(r) = {1}
    /\ rec.status = "pending" => rec.attempts <= MaxCreateAttempts /\ rec.id = 0
    /\ Created(r) # {} /\ rec.id = 0 => Sighted(rec)
    /\ \A q \in Workers \ {p} : Posting(q, r) => Held(rec)
    /\ \A s \in Staff :
          panel[s].refund = r /\ panel[s].target = "pending" =>
              rec.status \notin Queued

\* The worker writes the row, or tries to, and is done with the refund.
LEMMA FinishStep ==
  ASSUME IInv, SafeLoads, NEW p \in Workers, NEW r \in Refunds, InHand(p, r),
         NEW rec \in Row, RowOwes(p, r, rec) \/ row' = row,
         row' \in {row, [row EXCEPT ![r] = rec]}, w' = Finished(p, r),
         Fault \/ UNCHANGED faults, refunded' \subseteq Refunds,
         UNCHANGED <<old, prov, paid, retries, panel>>
  PROVE  IInv'
<1>1. TypeOK
  BY DEF IInv
<1>2. /\ row' \in [Refunds -> Row]
      /\ row'[r] = row[r] \/ row'[r] = rec
      /\ \A q \in Refunds \ {r} : row'[q] = row[q]
  BY <1>1, RowLemma
<1>3. /\ w' \in [Workers -> WorkerState]
      /\ w'[p].pc = "item"
      /\ DOMAIN w'[p].todo = DOMAIN w[p].todo \ {r}
      /\ \A q \in DOMAIN w'[p].todo : w'[p].todo[q] = w[p].todo[q]
      /\ \A q \in Workers \ {p} : w'[q] = w[q]
  BY <1>1, FinishedLemma
<1>4. TypeOK'
  BY <1>1, <1>2, <1>3, FaultLemma DEF TypeOK
<1>5. \A q \in Refunds : Created(q)' = Created(q)
  BY DEF Created
<1>6. Frame(p, r)
  BY <1>2, <1>3, <1>4, <1>5 DEF Frame
<1>7. ~InHand(p, r)' /\ ~Posting(p, r)' /\ ~Unclaimed(p, r)'
  BY <1>3 DEF InHand, Posting, Unclaimed
<1>8. RowOwes(p, r, row'[r]) \/ row'[r] = row[r]
  BY <1>2
<1>9. Owes(p, r)
  <2>1. Created(r)' \subseteq {1} /\ Created(r)' = Created(r)
    BY <1>5 DEF IInv, FirstIds
  <2>2. LoadFaults => Workers = {p}
    BY Alone
  <2>3. CASE RowOwes(p, r, row'[r])
    BY <1>7, <2>1, <2>2, <2>3 DEF Owes, RowOwes, IsQueued, IInv, RetryKnows
  <2>4. CASE row'[r] = row[r]
    <3>1. \A q \in Workers \ {p} : Posting(q, r) => Held(row[r])
      BY DEF IInv, WorkerKnows, Knows, Posting
    <3>2. /\ row[r].id # 0 => row[r].id = 1 /\ Created(r) = {1}
          /\ row[r].status = "pending" => row[r].attempts <= MaxCreateAttempts
          /\ Created(r) # {} /\ row[r].id = 0 => Sighted(row[r])
      BY DEF IInv, FirstIds, AttemptsLeft, UnknownKept
    <3>3. \A s \in Staff :
             panel[s].refund = r /\ panel[s].target = "pending" =>
                 ~IsQueued(r) /\ Created(r) = {}
      BY DEF IInv, RetryKnows
    <3> QED BY <1>7, <2>1, <2>2, <2>4, <3>1, <3>2, <3>3 DEF Owes, IsQueued
  <2> QED BY <1>8, <2>3, <2>4
<1> QED BY <1>6, <1>9, WorkerLemma

\* The worker leaves the row alone and is done with the refund.
LEMMA LeaveStep ==
  ASSUME IInv, SafeLoads, NEW p \in Workers, NEW r \in Refunds, InHand(p, r),
         w' = Finished(p, r), Fault \/ UNCHANGED faults,
         UNCHANGED <<row, refunded, old, prov, paid, retries, panel>>
  PROVE  IInv'
<1>1. row[r] \in Row /\ refunded' \subseteq Refunds
  BY DEF IInv, TypeOK
<1> QED BY <1>1, FinishStep

\* The worker goes on with the refund in state st.
LEMMA GoOnStep ==
  ASSUME IInv, SafeLoads, NEW p \in Workers, NEW r \in Refunds, InHand(p, r),
         NEW st \in WorkerState, st.todo = w[p].todo, w' = [w EXCEPT ![p] = st],
         row' \in [Refunds -> Row], \A q \in Refunds \ {r} : row'[q] = row[q],
         prov' \in [Refunds -> [Ids -> {"none"} \cup Answers]],
         \A q \in Refunds \ {r} : prov'[q] = prov[q],
         Fault \/ UNCHANGED faults, UNCHANGED <<refunded, old, paid, retries, panel>>
  PROVE  /\ w'[p] = st
         /\ InHand(p, r)'
         /\ Frame(p, r)
         /\ LoadFaults => Workers = {p}
<1>1. TypeOK
  BY DEF IInv
<1>2. /\ w' \in [Workers -> WorkerState]
      /\ w'[p] = st
      /\ \A q \in Workers, s \in Refunds :
            /\ w'[q].todo = w[q].todo
            /\ InHand(q, s)' <=> InHand(q, s)
      /\ \A q \in Workers \ {p} : w'[q] = w[q]
  BY <1>1, GoesOn
<1>3. TypeOK'
  BY <1>1, <1>2, FaultLemma DEF TypeOK
<1>4. \A q \in Refunds \ {r} : Created(q)' = Created(q)
  BY DEF Created
<1> QED BY <1>2, <1>3, <1>4, Alone DEF Frame

-----------------------------------------------------------------------------
(* The steps of the job.                                                   *)

LEMMA RowTypes ==
  ASSUME NEW rec \in Row, NEW n \in 0 .. MaxCreateAttempts + 1,
         NEW reason \in Reasons, NEW id \in 0 .. MaxPosts
  PROVE  /\ Failed(rec, reason, n) \in Row
         /\ Claimed(rec, n) \in Row
         /\ Released(rec, n) \in Row
         /\ WithId(rec, id, n) \in Row
  BY DEF Row, Failed, Claimed, Released, WithId, Statuses, Queued

\* What the query of the cycle read is a row, with attempts left to count.
LEMMA ReadTypes ==
  ASSUME IInv, NEW p \in Workers, NEW r \in Refunds, InHand(p, r)
  PROVE  /\ w[p].todo[r] \in Row
         /\ w[p].todo[r].attempts \in 0 .. MaxCreateAttempts + 1
         /\ Attempts(w[p].todo[r]) \in 0 .. MaxCreateAttempts + 1
<1>1. w[p].todo \in Todos
  BY DEF IInv, TypeOK, WorkerState
<1>2. w[p].todo[r] \in Row
  BY <1>1, TodosLemma DEF InHand
<1>3. w[p].todo[r].attempts \in 0 .. MaxCreateAttempts + 1
  BY <1>2 DEF Row
<1>4. Creating(w[p].todo[r]) => w[p].todo[r].attempts <= MaxCreateAttempts
  BY DEF IInv, AttemptsLeft, InHand, Creating
<1> QED BY <1>2, <1>3, <1>4, Constants DEF Attempts

LEMMA SkipInv ==
  ASSUME IInv, SafeLoads, NEW p \in Workers, NEW r \in Refunds, Skip(p, r)
  PROVE  IInv'
  BY LeaveStep DEF Skip, At, UnchangedByWorker

LEMMA FailStaleInv ==
  ASSUME IInv, SafeLoads, NEW p \in Workers, NEW r \in Refunds, FailStale(p, r)
  PROVE  IInv'
<1> DEFINE rec == Failed(row[r], "processing-stale", w[p].todo[r].attempts)
<1>1. InHand(p, r) /\ row[r] \in Row /\ "processing-stale" \in Reasons
  BY DEF FailStale, At, IInv, TypeOK, Reasons, REFUND_UNSETTLED_REASONS, REFUND_MANUAL_CHECK_REASONS
<1>2. rec \in Row
  BY <1>1, ReadTypes, RowTypes, Constants
<1>3. RowOwes(p, r, rec)
  BY <1>1 DEF RowOwes, Failed, Held, Sighted, REFUND_MANUAL_CHECK_REASONS, IInv,
     FirstIds, Row, Queued
<1>4. /\ row' \in {row, [row EXCEPT ![r] = rec]}
      /\ w' = Finished(p, r)
      /\ Fault \/ UNCHANGED faults
      /\ UNCHANGED <<refunded, prov, old, paid, retries, panel>>
  BY DEF FailStale, Update, UnchangedByWorker
<1>5. refunded' \subseteq Refunds
  BY <1>4 DEF IInv, TypeOK
<1> HIDE DEF rec
<1> QED BY <1>1, <1>2, <1>3, <1>4, <1>5, FinishStep

\* What holds of the refund in hand before the step.
LEMMA Before ==
  ASSUME IInv, NEW p \in Workers, NEW r \in Refunds, InHand(p, r)
  PROVE  /\ TypeOK
         /\ row[r] \in Row
         /\ w[p] \in WorkerState
         /\ Knows(p, r)
         /\ Created(r) \subseteq {1}
         /\ row[r].id # 0 => row[r].id = 1 /\ Created(r) = {1}
         /\ Created(r) # {} /\ row[r].id = 0 => Sighted(row[r])
         /\ \A q \in Workers : Posting(q, r) => Held(row[r])
         /\ \A q \in Workers \ {p} : Posting(p, r) => ~Posting(q, r)
         /\ \A s \in Staff :
               panel[s].refund = r /\ panel[s].target = "pending" =>
                   ~IsQueued(r) /\ Created(r) = {} /\ ~Posting(p, r)
         /\ row[r].status = "pending" => row[r].attempts <= MaxCreateAttempts
         /\ w[p].todo[r].id \in {0, row[r].id}
         /\ row[r].status = "pending" /\ row[r].id # 0 => w[p].todo[r].id # 0
  BY DEF IInv, TypeOK, WorkerKnows, Knows, FirstIds, UnknownKept, OnePoster,
     RetryKnows, AttemptsLeft, IdsStay, InHand, Posting

LEMMA GotoLemma ==
  ASSUME TypeOK, NEW p \in Workers, NEW pc \in Pcs
  PROVE  \E st \in WorkerState :
            /\ Goto(p, pc) = [w EXCEPT ![p] = st]
            /\ st.todo = w[p].todo /\ st.pc = pc /\ st.id = w[p].id
            /\ st.answer = w[p].answer /\ st.reason = w[p].reason
<1> DEFINE st == [w[p] EXCEPT !.pc = pc]
<1>1. /\ st \in WorkerState
      /\ st.todo = w[p].todo /\ st.pc = pc /\ st.id = w[p].id
      /\ st.answer = w[p].answer /\ st.reason = w[p].reason
  BY DEF WorkerState, TypeOK
<1>2. Goto(p, pc) = [w EXCEPT ![p] = st]
  BY DEF Goto
<1> QED BY <1>1, <1>2

LEMMA FailWithLemma ==
  ASSUME TypeOK, NEW p \in Workers, NEW reason \in Reasons
  PROVE  \E st \in WorkerState :
            /\ FailWith(p, reason) = [w EXCEPT ![p] = st]
            /\ st.todo = w[p].todo /\ st.pc = "fail" /\ st.reason = reason
<1> DEFINE st == [w[p] EXCEPT !.pc = "fail", !.reason = reason]
<1>1. /\ st \in WorkerState
      /\ st.todo = w[p].todo /\ st.pc = "fail" /\ st.reason = reason
  BY DEF WorkerState, TypeOK, Pcs
<1>2. FailWith(p, reason) = [w EXCEPT ![p] = st]
  BY DEF FailWith, TypeOK
<1> QED BY <1>1, <1>2

LEMMA LoadInv ==
  ASSUME IInv, SafeLoads, NEW p \in Workers, NEW r \in Refunds,
         LoadPaymentIntentId(p, r)
  PROVE  IInv'
<1>1. /\ InHand(p, r) /\ w[p].pc = "item" /\ Creating(w[p].todo[r])
      /\ UNCHANGED <<row, refunded, prov, old, paid, retries, panel>>
  BY DEF LoadPaymentIntentId, At, UnchangedByWorker
<1>2. ~Posting(p, r)
  BY <1>1 DEF Posting
<1>3. ASSUME NEW st \in WorkerState, w' = [w EXCEPT ![p] = st],
             st.todo = w[p].todo,
             \/ st.pc = "claim"
             \/ /\ st.pc = "fail" /\ st.reason = "payment-intent-missing"
                /\ LoadFaults,
             Fault \/ UNCHANGED faults
      PROVE  IInv'
  <2>1. w'[p] = st /\ InHand(p, r)' /\ Frame(p, r) /\ (LoadFaults => Workers = {p})
    BY <1>1, <1>3, GoOnStep DEF IInv, TypeOK
  <2>2. ~Posting(p, r)' /\ Created(r)' = Created(r)
    BY <1>1, <1>3, <2>1 DEF Posting, Created
  <2>3. Knows(p, r)'
    BY <1>1, <1>3, <2>1, <2>2 DEF Knows
  <2>4. Unclaimed(p, r)' => Fresh(p, r)' \/ ~LoadFaults
    BY <1>1, <1>3, <2>1 DEF Unclaimed, Fresh, IInv, ReadIsFresh, InHand
  <2>5. Owes(p, r)
    BY <1>1, <2>1, <2>2, <2>3, <2>4, Before DEF Owes, IsQueued
  <2> QED BY <1>1, <2>1, <2>5, WorkerLemma
<1>4. CASE w' = Goto(p, "claim") /\ UNCHANGED faults
  <2>1. "claim" \in Pcs /\ TypeOK
    BY DEF Pcs, IInv
  <2> QED BY <1>3, <1>4, <2>1, GotoLemma
<1>5. CASE LoadFaults /\ Fault /\ w' = FailWith(p, "payment-intent-missing")
  <2>1. "payment-intent-missing" \in Reasons /\ TypeOK
    BY DEF Reasons, IInv
  <2> QED BY <1>3, <1>5, <2>1, FailWithLemma
<1> QED BY <1>4, <1>5 DEF LoadPaymentIntentId

\* Only a pending row is claimed, and nobody is posting a pending row.
LEMMA ClaimInv ==
  ASSUME IInv, SafeLoads, NEW p \in Workers, NEW r \in Refunds, InHand(p, r),
         NEW pc \in {"post", "poll"}, ClaimForProcessing(p, r, pc),
         pc = "post" => w[p].pc = "claim",
         pc = "poll" => w[p].pc = "item" /\ w[p].todo[r].id # 0,
         UNCHANGED <<refunded, prov, old, paid, retries, panel>>
  PROVE  IInv'
<1> DEFINE rec == Claimed(row[r], Attempts(w[p].todo[r]))
<1>1. /\ row[r] \in Row /\ rec \in Row
      /\ rec.id = row[r].id /\ rec.status = "processing"
  <2>1. row[r] \in Row /\ Attempts(w[p].todo[r]) \in 0 .. MaxCreateAttempts + 1
    BY Before, ReadTypes
  <2>2. "none" \in Reasons /\ 0 \in 0 .. MaxPosts
    BY Constants DEF Reasons
  <2>3. rec \in Row
    BY <2>1, <2>2, RowTypes
  <2> QED BY <2>1, <2>3 DEF Claimed, Row
<1> HIDE DEF rec
<1>2. CASE row[r].status # "pending"
  BY <1>2, LeaveStep DEF ClaimForProcessing
<1>3. CASE row[r].status = "pending"
  <2>1. /\ row' \in {row, [row EXCEPT ![r] = rec]}
        /\ \/ /\ row' = [row EXCEPT ![r] = rec]
              /\ w' = Goto(p, pc)
              /\ UNCHANGED faults
           \/ w' = Finished(p, r) /\ (Fault \/ UNCHANGED faults)
    BY <1>3 DEF ClaimForProcessing, Update, rec
  <2>2. RowOwes(p, r, rec)
    BY <1>1, <1>3, Before DEF RowOwes, Held, Sighted, IsQueued, Queued
  <2>3. CASE w' = Finished(p, r) /\ (Fault \/ UNCHANGED faults)
    <3>1. refunded' \subseteq Refunds
      BY DEF IInv, TypeOK
    <3> QED BY <1>1, <2>1, <2>2, <2>3, <3>1, FinishStep
  <2>4. CASE row' = [row EXCEPT ![r] = rec] /\ w' = Goto(p, pc) /\ UNCHANGED faults
    <3>1. PICK st \in WorkerState :
             /\ w' = [w EXCEPT ![p] = st]
             /\ st.todo = w[p].todo /\ st.pc = pc
      <4>1. pc \in Pcs /\ TypeOK
        BY DEF Pcs, IInv
      <4> QED BY <2>4, <4>1, GotoLemma
    <3>2. /\ row' \in [Refunds -> Row] /\ row'[r] = rec
          /\ \A q \in Refunds \ {r} : row'[q] = row[q]
      BY <1>1, <2>4, Before DEF TypeOK
    <3>3. w'[p] = st /\ InHand(p, r)' /\ Frame(p, r) /\ (LoadFaults => Workers = {p})
      BY <2>4, <3>1, <3>2, GoOnStep DEF IInv, TypeOK
    <3>4. Created(r)' = Created(r)
      BY DEF Created
    <3>5. \A q \in Workers : ~Posting(q, r)
      BY <1>3, Before DEF Held
    <3>6. pc = "post" => Created(r) = {}
      <4>1. pc = "post" => w[p].todo[r].id = 0
        BY Before DEF Knows, Creating
      <4> QED BY <4>1, <1>3, Before DEF Sighted
    <3>7. Knows(p, r)' /\ ~Unclaimed(p, r)'
      <4>1. Held(row'[r])
        BY <1>1, <3>2 DEF Held
      <4>2. pc = "poll" => w'[p].todo[r].id # 0
        BY <3>1, <3>3
      <4>3. w'[p].pc = pc
        BY <3>1, <3>3
      <4>4. ~Unclaimed(p, r)'
        BY <3>3, <4>3 DEF Unclaimed
      <4>5. Knows(p, r)'
        BY <3>4, <3>6, <4>1, <4>2, <4>3 DEF Knows
      <4> QED BY <4>4, <4>5
    <3>8. Owes(p, r)
      BY <1>1, <1>3, <3>2, <3>3, <3>4, <3>5, <3>7, Before DEF Owes, Sighted, IsQueued, Queued
    <3> QED BY <3>3, <3>8, WorkerLemma
  <2> QED BY <2>1, <2>3, <2>4
<1> QED BY <1>2, <1>3

LEMMA ClaimsInv ==
  ASSUME IInv, SafeLoads, NEW p \in Workers, NEW r \in Refunds,
         ClaimToCreate(p, r) \/ ClaimToPoll(p, r)
  PROVE  IInv'
  BY ClaimInv DEF ClaimToCreate, ClaimToPoll, At, UnchangedByWorker

LEMMA NextIdLemma ==
  ASSUME TypeOK, NEW r \in Refunds, Created(r) = {}
  PROVE  NextId(r) = 1 /\ 1 \in Ids
<1>1. Ids \ Created(r) = Ids /\ 1 \in Ids /\ \A j \in Ids : 1 <= j
  BY Constants DEF Ids
<1>2. \A k \in Ids : (\A j \in Ids : k <= j) => k = 1
  BY <1>1, Constants DEF Ids
<1> QED BY <1>1, <1>2 DEF NextId

\* The worker that posts a refund is the only one, and no retry queues it.
LEMMA PosterAlone ==
  ASSUME IInv, NEW p \in Workers, NEW r \in Refunds, Posting(p, r)
  PROVE  /\ \A q \in Workers \ {p} : ~Posting(q, r)
         /\ \A s \in Staff : panel[s].refund = r => panel[s].target # "pending"
         /\ Held(row[r])
         /\ row[r].status # "pending"
  BY DEF IInv, OnePoster, RetryKnows, WorkerKnows, Knows, Posting, Held

\* Whatever comes of the POST, the refund created is the first.
LEMMA PostInv ==
  ASSUME IInv, SafeLoads, NEW p \in Workers, NEW r \in Refunds, Post(p, r)
  PROVE  IInv'
<1>1. /\ InHand(p, r) /\ w[p].pc = "post" /\ Posting(p, r)
      /\ UNCHANGED <<row, refunded, faults, old, paid, retries, panel>>
  BY DEF Post, At, UnchangedByWorker, Posting
<1>2. /\ Created(r) = {} /\ row[r].id = 0 /\ Held(row[r])
      /\ NextId(r) = 1 /\ 1 \in Ids
  <2>1. Created(r) = {}
    BY <1>1, Before DEF Knows
  <2> QED BY <1>1, <2>1, Before, NextIdLemma
<1>3. /\ \A q \in Workers \ {p} : ~Posting(q, r)
      /\ \A s \in Staff : panel[s].refund = r => panel[s].target # "pending"
  BY <1>1, Before
\* What the worker then owes, for each of the answers.
<1>4. ASSUME NEW st \in WorkerState, w' = [w EXCEPT ![p] = st], st.todo = w[p].todo,
             prov' \in [Refunds -> [Ids -> {"none"} \cup Answers]],
             \A q \in Refunds \ {r} : prov'[q] = prov[q],
             \/ st.pc = "persist" /\ st.id = 1 /\ Created(r)' = {1}
             \/ st.pc = "release" /\ ~Exhausted(w[p].todo[r]) /\ Created(r)' = {}
             \/ st.pc = "fail" /\ st.reason = "refused" /\ Created(r)' = {}
             \/ st.pc = "fail" /\ st.reason = "ambiguous-timeout"
                               /\ Created(r)' \in {{}, {1}}
      PROVE  IInv'
  <2>1. w'[p] = st /\ InHand(p, r)' /\ Frame(p, r) /\ (LoadFaults => Workers = {p})
    BY <1>1, <1>4, GoOnStep DEF IInv, TypeOK
  <2>2. ~Unclaimed(p, r)'
    BY <1>4, <2>1 DEF Unclaimed
  <2>3. w'[p].todo[r] = w[p].todo[r] /\ row'[r] = row[r]
    BY <1>1, <1>4, <2>1
  <2>4. Knows(p, r)'
    BY <1>2, <1>4, <2>1, <2>3 DEF Knows
  <2>5. Sighted(row[r])
    BY <1>2 DEF Held, Sighted, REFUND_MANUAL_CHECK_REASONS
  <2>6. Owes(p, r)
    BY <1>1, <1>2, <1>3, <1>4, <2>1, <2>2, <2>3, <2>4, <2>5, Before DEF Owes
  <2> QED BY <1>1, <2>1, <2>6, WorkerLemma
<1>5. ASSUME NEW st \in Answers, Create(r, st)
      PROVE  /\ prov' \in [Refunds -> [Ids -> {"none"} \cup Answers]]
             /\ \A q \in Refunds \ {r} : prov'[q] = prov[q]
             /\ Created(r)' = {1}
  <2>1. prov' = [prov EXCEPT ![r] = [prov[r] EXCEPT ![1] = st]]
    BY <1>2, <1>5 DEF Create
  <2>2. prov \in [Refunds -> [Ids -> {"none"} \cup Answers]]
    BY DEF IInv, TypeOK
  <2>3. /\ prov' \in [Refunds -> [Ids -> {"none"} \cup Answers]]
        /\ prov'[r] = [prov[r] EXCEPT ![1] = st]
    BY <2>1, <2>2, <1>2
  <2>4. \A k \in Ids : prov[r][k] = "none"
    BY <1>2 DEF Created
  <2>5. \A k \in Ids : prov'[r][k] # "none" <=> k = 1
    BY <1>2, <2>2, <2>3, <2>4 DEF Answers
  <2> QED BY <1>2, <2>1, <2>2, <2>3, <2>5 DEF Created
<1>6. UNCHANGED prov =>
        /\ prov' \in [Refunds -> [Ids -> {"none"} \cup Answers]]
        /\ \A q \in Refunds \ {r} : prov'[q] = prov[q]
        /\ Created(r)' = {}
  BY <1>2 DEF IInv, TypeOK, Created
<1>7. TypeOK /\ {"refused", "ambiguous-timeout"} \subseteq Reasons /\ "release" \in Pcs
  BY DEF IInv, Reasons, Pcs, REFUND_UNSETTLED_REASONS, REFUND_MANUAL_CHECK_REASONS
<1>8. ASSUME NEW a \in Answers, Create(r, a),
             w' = [w EXCEPT ![p].pc = "persist", ![p].id = NextId(r), ![p].answer = a]
      PROVE  IInv'
  <2> DEFINE st == [w[p] EXCEPT !.pc = "persist", !.id = 1, !.answer = a]
  <2>1. /\ st \in WorkerState /\ st.todo = w[p].todo
        /\ st.pc = "persist" /\ st.id = 1
    <3>1. w[p] \in WorkerState /\ 1 \in 0 .. MaxPosts /\ "persist" \in Pcs
      BY <1>7, Constants DEF TypeOK, Pcs
    <3> QED BY <3>1 DEF WorkerState
  <2>2. w' = [w EXCEPT ![p] = st]
    <3>1. w \in [Workers -> WorkerState] /\ NextId(r) = 1
      BY <1>2, <1>7 DEF TypeOK
    <3>2. w' = [[[w EXCEPT ![p].pc = "persist"] EXCEPT ![p].id = 1]
                   EXCEPT ![p].answer = a]
      BY <1>8, <3>1
    <3> QED BY <3>1, <3>2
  <2> HIDE DEF st
  <2> QED BY <1>4, <1>5, <1>8, <2>1, <2>2
<1>9. CASE /\ w' = IF Exhausted(w[p].todo[r]) THEN FailWith(p, "refused")
                                              ELSE Goto(p, "release")
           /\ UNCHANGED prov
  <2>1. CASE Exhausted(w[p].todo[r])
    BY <1>4, <1>6, <1>7, <1>9, <2>1, FailWithLemma
  <2>2. CASE ~Exhausted(w[p].todo[r])
    BY <1>4, <1>6, <1>7, <1>9, <2>2, GotoLemma
  <2> QED BY <2>1, <2>2
<1>10. CASE /\ Create(r, "pending") \/ UNCHANGED prov
            /\ w' = FailWith(p, "ambiguous-timeout")
  <2>1. /\ prov' \in [Refunds -> [Ids -> {"none"} \cup Answers]]
        /\ \A q \in Refunds \ {r} : prov'[q] = prov[q]
        /\ Created(r)' \in {{}, {1}}
    BY <1>5, <1>6, <1>10 DEF Answers
  <2> QED BY <1>4, <1>7, <1>10, <2>1, FailWithLemma
<1> QED BY <1>8, <1>9, <1>10 DEF Post

LEMMA MarkFailedInv ==
  ASSUME IInv, SafeLoads, NEW p \in Workers, NEW r \in Refunds, MarkFailed(p, r)
  PROVE  IInv'
<1> DEFINE rec == Failed(row[r], w[p].reason, Attempts(w[p].todo[r]))
<1>1. /\ InHand(p, r) /\ w[p].pc = "fail"
      /\ row' \in {row, [row EXCEPT ![r] = rec]}
      /\ w' = Finished(p, r)
      /\ Fault \/ UNCHANGED faults
      /\ UNCHANGED <<refunded, prov, old, paid, retries, panel>>
  BY DEF MarkFailed, At, Update, UnchangedByWorker
<1>2. rec \in Row /\ rec.id = row[r].id /\ rec.status = "failed"
      /\ rec.reason = w[p].reason
  <2>1. row[r] \in Row /\ w[p].reason \in Reasons
    BY <1>1, Before DEF WorkerState
  <2>2. rec \in Row
    BY <1>1, <2>1, ReadTypes, RowTypes, Constants
  <2> QED BY <2>1, <2>2 DEF Failed, Row
<1> HIDE DEF rec
<1>3. Knows(p, r)
  BY <1>1, Before
<1>4. RowOwes(p, r, rec)
  <2>1. /\ row[r].id # 0 => rec.id # 0
        /\ rec.id # 0 => rec.id = 1 /\ Created(r) = {1}
        /\ rec.status \notin Queued
    BY <1>1, <1>2, Before DEF Queued
  <2>2. CASE w[p].reason \in {"refused", "ambiguous-timeout"}
    <3>1. Posting(p, r)
      BY <1>1, <2>2 DEF Posting
    <3>2. \A q \in Workers \ {p} : ~Posting(q, r)
      BY <1>1, <3>1, Before
    <3>3. w[p].reason = "refused" => Created(r) = {}
      BY <1>1, <1>3 DEF Knows
    <3> QED BY <1>2, <2>1, <2>2, <3>2, <3>3
         DEF RowOwes, Sighted, REFUND_MANUAL_CHECK_REASONS, Queued
  <2>3. CASE w[p].reason = "processing-timeout"
    BY <1>1, <1>2, <1>3, <2>1, <2>3 DEF RowOwes, Held, Knows, Queued
  <2>4. CASE w[p].reason = "payment-intent-missing"
    <3>1. LoadFaults /\ Creating(w[p].todo[r])
      BY <1>1, <1>3, <2>4 DEF Knows
    <3>2. Unclaimed(p, r)
      BY <1>1, <2>4, <3>1 DEF Unclaimed, InHand, Creating
    <3>3. row[r].status = "pending" /\ row[r].id = 0
      BY <3>1, <3>2 DEF IInv, ReadIsFresh, Fresh, Creating
    <3>4. Created(r) = {}
      BY <1>1, <3>3, Before DEF Sighted
    <3>5. Workers = {p}
      BY <3>1, Alone
    <3> QED BY <1>2, <2>1, <3>4, <3>5 DEF RowOwes, Queued
  <2> QED BY <1>1, <1>3, <2>2, <2>3, <2>4 DEF Knows
<1>5. refunded' \subseteq Refunds
  BY <1>1 DEF IInv, TypeOK
<1> QED BY <1>1, <1>2, <1>4, <1>5, FinishStep

LEMMA ReleaseInv ==
  ASSUME IInv, SafeLoads, NEW p \in Workers, NEW r \in Refunds, ReleaseClaim(p, r)
  PROVE  IInv'
<1> DEFINE rec == Released(row[r], Attempts(w[p].todo[r]))
<1>1. /\ InHand(p, r) /\ w[p].pc = "release" /\ Posting(p, r)
      /\ row' \in {row, [row EXCEPT ![r] = rec]}
      /\ w' = Finished(p, r)
      /\ Fault \/ UNCHANGED faults
      /\ UNCHANGED <<refunded, prov, old, paid, retries, panel>>
  BY DEF ReleaseClaim, At, Update, UnchangedByWorker, Posting
<1>2. row[r] \in Row /\ Attempts(w[p].todo[r]) \in 0 .. MaxCreateAttempts + 1
  BY <1>1, Before, ReadTypes
<1>3. rec \in Row
  <2>1. "none" \in Reasons /\ 0 \in 0 .. MaxPosts
    BY Constants DEF Reasons
  <2> QED BY <1>2, <2>1, RowTypes
<1>4. /\ rec.id = row[r].id /\ rec.status = "pending"
      /\ rec.attempts = Attempts(w[p].todo[r])
  BY <1>2, <1>3 DEF Released, Row
<1> HIDE DEF rec
<1>5. Created(r) = {} /\ Attempts(w[p].todo[r]) <= MaxCreateAttempts
  <2>1. Knows(p, r) /\ MaxCreateAttempts \in Nat
    BY <1>1, Before, Constants
  <2>2. Created(r) = {} /\ ~(Attempts(w[p].todo[r]) > MaxCreateAttempts)
    BY <1>1, <2>1 DEF Knows, Exhausted
  <2> QED BY <1>2, <2>1, <2>2
<1>6. RowOwes(p, r, rec)
  <2>1. row[r].id = 0
    BY <1>1, <1>5, Before
  <2> QED BY <1>1, <1>4, <1>5, <2>1, PosterAlone DEF RowOwes
<1>7. refunded' \subseteq Refunds
  BY <1>1 DEF IInv, TypeOK
<1> QED BY <1>1, <1>3, <1>6, <1>7, FinishStep

LEMMA MarkProcessingInv ==
  ASSUME IInv, SafeLoads, NEW p \in Workers, NEW r \in Refunds, MarkProcessing(p, r)
  PROVE  IInv'
<1> DEFINE rec == WithId(row[r], w[p].id, Attempts(w[p].todo[r]))
<1>1. /\ InHand(p, r) /\ w[p].pc \in {"persist", "persist again"} /\ Posting(p, r)
      /\ row' \in {row, [row EXCEPT ![r] = rec]}
      /\ \/ /\ row' = [row EXCEPT ![r] = rec]
            /\ w' = Persisted(p, r)
         \/ w' = Goto(p, "persist again")
         \/ w' = Finished(p, r)
      /\ Fault \/ UNCHANGED faults
      /\ UNCHANGED <<refunded, prov, old, paid, retries, panel>>
  BY DEF MarkProcessing, NotPersisted, At, Update, UnchangedByWorker, Posting
<1>2. row[r] \in Row /\ Attempts(w[p].todo[r]) \in 0 .. MaxCreateAttempts + 1
      /\ w[p].id = 1 /\ 1 \in 0 .. MaxPosts /\ Created(r) = {1}
  <2>1. Knows(p, r) /\ row[r] \in Row
    BY <1>1, Before
  <2>2. w[p].id = 1 /\ Created(r) = {1}
    BY <1>1, <2>1 DEF Knows
  <2>3. Attempts(w[p].todo[r]) \in 0 .. MaxCreateAttempts + 1
    BY <1>1, ReadTypes
  <2>4. 1 \in 0 .. MaxPosts
    BY Constants
  <2> QED BY <2>1, <2>2, <2>3, <2>4
<1>3. rec \in Row
  <2>1. "none" \in Reasons
    BY DEF Reasons
  <2> QED BY <1>2, <2>1, RowTypes
<1>4. rec.id = 1 /\ rec.status = "processing"
  BY <1>2, <1>3 DEF WithId, Row
<1> HIDE DEF rec
<1>5. RowOwes(p, r, rec)
  <2>1. /\ \A q \in Workers \ {p} : ~Posting(q, r)
        /\ \A s \in Staff : panel[s].refund = r => panel[s].target # "pending"
    BY <1>1, PosterAlone
  <2> QED BY <1>2, <1>4, <2>1 DEF RowOwes
<1>6. refunded' \subseteq Refunds /\ TypeOK
  BY <1>1 DEF IInv, TypeOK
<1>7. CASE w' = Finished(p, r)
  BY <1>1, <1>3, <1>5, <1>6, <1>7, FinishStep
<1>8. ASSUME NEW pc \in Pcs, pc = "settle" \/ pc = "persist again", w' = Goto(p, pc),
             pc = "settle" => row' = [row EXCEPT ![r] = rec]
      PROVE  IInv'
  <2>1. PICK st \in WorkerState :
           /\ w' = [w EXCEPT ![p] = st]
           /\ st.todo = w[p].todo /\ st.pc = pc /\ st.id = 1
    <3>1. PICK st \in WorkerState :
             /\ Goto(p, pc) = [w EXCEPT ![p] = st]
             /\ st.todo = w[p].todo /\ st.pc = pc /\ st.id = w[p].id
      BY <1>6, GotoLemma
    <3> QED BY <1>2, <1>8, <3>1
  <2>2. /\ row' \in [Refunds -> Row] /\ row'[r] \in {row[r], rec}
        /\ \A q \in Refunds \ {r} : row'[q] = row[q]
        /\ pc = "settle" => row'[r] = rec
    BY <1>1, <1>3, <1>6, <1>8 DEF TypeOK
  <2>3. w'[p] = st /\ InHand(p, r)' /\ Frame(p, r) /\ (LoadFaults => Workers = {p})
    BY <1>1, <2>1, <2>2, GoOnStep DEF IInv, TypeOK
  <2>4. Created(r)' = {1}
    BY <1>1, <1>2 DEF Created
  <2>5. Held(row'[r]) /\ (pc = "settle" => row'[r].id # 0)
    <3>1. Held(row[r])
      BY <1>1, PosterAlone
    <3>2. Held(rec)
      BY <1>4 DEF Held
    <3>3. Held(row'[r])
      BY <2>2, <3>1, <3>2 DEF Held
    <3> QED BY <1>4, <2>2, <3>3
  <2>6. Knows(p, r)' /\ ~Unclaimed(p, r)'
    <3>1. w'[p].pc = pc /\ w'[p].id = 1
      BY <2>1, <2>3
    <3>2. ~Unclaimed(p, r)'
      BY <1>8, <2>3, <3>1 DEF Unclaimed
    <3> QED BY <1>8, <3>1, <3>2, <2>4, <2>5 DEF Knows
  <2>7. /\ \A q \in Workers \ {p} : ~Posting(q, r)
        /\ \A s \in Staff : panel[s].refund = r => panel[s].target # "pending"
    BY <1>1, PosterAlone
  <2>8. /\ row[r].id # 0 => row'[r].id = 1
        /\ row'[r].id # 0 => row'[r].id = 1
        /\ row'[r].status # "pending"
        /\ row'[r].id = 0 => Sighted(row'[r])
    <3>1. /\ row[r].id # 0 => row[r].id = 1
          /\ row[r].id = 0 => Sighted(row[r])
      BY <1>1, <1>2, Before
    <3>2. row[r].status # "pending"
      BY <1>1, PosterAlone
    <3>3. CASE row'[r] = row[r]
      BY <3>1, <3>2, <3>3 DEF Sighted
    <3>4. CASE row'[r] = rec
      BY <1>4, <3>4
    <3> QED BY <2>2, <3>3, <3>4
  <2>9. Owes(p, r)
    <3>1. Created(r)' = Created(r) /\ {1} # {} /\ {1} \subseteq {1}
      BY <1>2, <2>4
    <3> QED BY <1>2, <2>3, <2>4, <2>5, <2>6, <2>7, <2>8, <3>1 DEF Owes
  <2> QED BY <1>1, <2>3, <2>9, WorkerLemma
<1> QED
  <2>1. "settle" \in Pcs /\ "persist again" \in Pcs
    BY DEF Pcs
  <2>2. CASE w' = Persisted(p, r) /\ row' = [row EXCEPT ![r] = rec]
    BY <1>7, <1>8, <2>1, <2>2 DEF Persisted
  <2>3. CASE w' = Goto(p, "persist again")
    BY <1>8, <2>1, <2>3
  <2> QED BY <1>1, <1>7, <2>2, <2>3

LEMMA PollInv ==
  ASSUME IInv, SafeLoads, NEW p \in Workers, NEW r \in Refunds, PollRefund(p, r)
  PROVE  IInv'
<1> DEFINE answer == prov[r][w[p].todo[r].id]
<1>1. /\ InHand(p, r) /\ Polling(p, r)
      /\ \/ /\ answer # "pending"
            /\ w' = [w EXCEPT ![p].pc = "settle", ![p].answer = answer]
            /\ UNCHANGED faults
         \/ w' = FailWith(p, "processing-timeout") /\ UNCHANGED faults
         \/ w' = Finished(p, r) /\ (Fault \/ UNCHANGED faults)
      /\ UNCHANGED <<row, refunded, prov, old, paid, retries, panel>>
  BY DEF PollRefund, Polling, At, UnchangedByWorker
<1>2. w[p].todo[r].id # 0 /\ ~Posting(p, r)
  <2>1. Knows(p, r)
    BY <1>1, Before
  <2> QED BY <1>1, <2>1 DEF Polling, At, Knows, Posting
<1>3. row[r].id = 1 /\ Created(r) = {1} /\ w[p].todo[r].id = 1 /\ TypeOK
  BY <1>1, <1>2, Before
<1>4. answer \in Answers
  <2>1. answer = prov[r][1] /\ 1 \in Created(r)
    BY <1>3
  <2>2. prov[r] \in [Ids -> {"none"} \cup Answers]
    BY <1>3 DEF TypeOK
  <2> QED BY <2>1, <2>2 DEF Created
<1> HIDE DEF answer
\* The row has the id, whatever the worker does next.
<1>5. ASSUME NEW st \in WorkerState, w' = [w EXCEPT ![p] = st], st.todo = w[p].todo,
             \/ st.pc = "settle"
             \/ st.pc = "fail" /\ st.reason = "processing-timeout",
             UNCHANGED faults
      PROVE  IInv'
  <2>1. w'[p] = st /\ InHand(p, r)' /\ Frame(p, r) /\ (LoadFaults => Workers = {p})
    BY <1>1, <1>3, <1>5, GoOnStep DEF TypeOK
  <2>2. ~Posting(p, r)' /\ ~Unclaimed(p, r)' /\ Created(r)' = {1}
    BY <1>1, <1>3, <1>5, <2>1 DEF Posting, Unclaimed, Created
  <2>3. Knows(p, r)'
    <3>1. /\ w'[p].pc \in {"settle", "fail"} /\ row'[r].id = 1
          /\ w'[p].pc = "fail" => w'[p].reason = "processing-timeout"
      BY <1>1, <1>3, <1>5, <2>1
    <3>2. CASE w'[p].pc = "settle"
      BY <2>2, <3>1, <3>2 DEF Knows
    <3>3. CASE w'[p].pc = "fail"
      BY <2>2, <3>1, <3>3 DEF Knows
    <3> QED BY <3>1, <3>2, <3>3
  <2>4. /\ row'[r] = row[r]
        /\ row[r].status = "pending" => row[r].attempts <= MaxCreateAttempts
        /\ \A q \in Workers : Posting(q, r) => Held(row[r])
        /\ \A s \in Staff : panel[s].refund = r => panel[s].target # "pending"
    <3>1. {1} # {}
      OBVIOUS
    <3>2. row'[r] = row[r]
      BY <1>1
    <3>3. /\ row[r].status = "pending" => row[r].attempts <= MaxCreateAttempts
          /\ \A q \in Workers : Posting(q, r) => Held(row[r])
      BY <1>1, Before
    <3>4. \A s \in Staff :
             panel[s].refund = r /\ panel[s].target = "pending" => Created(r) = {}
      BY <1>1, Before
    <3>5. \A s \in Staff : panel[s].refund = r => panel[s].target # "pending"
      BY <1>3, <3>1, <3>4
    <3> QED BY <3>2, <3>3, <3>5
  <2>5. Owes(p, r)
    BY <1>3, <2>1, <2>2, <2>3, <2>4 DEF Owes
  <2> QED BY <1>1, <2>1, <2>5, WorkerLemma
<1>6. CASE answer # "pending" /\ UNCHANGED faults
           /\ w' = [w EXCEPT ![p].pc = "settle", ![p].answer = answer]
  <2> DEFINE st == [w[p] EXCEPT !.pc = "settle", !.answer = answer]
  <2>1. st \in WorkerState /\ st.todo = w[p].todo /\ st.pc = "settle"
    <3>1. w[p] \in WorkerState /\ "settle" \in Pcs
      BY <1>3 DEF TypeOK, Pcs
    <3> QED BY <1>4, <3>1 DEF WorkerState
  <2>2. w' = [w EXCEPT ![p] = st]
    BY <1>3, <1>6 DEF TypeOK
  <2> HIDE DEF st
  <2> QED BY <1>5, <1>6, <2>1, <2>2
<1>7. CASE w' = FailWith(p, "processing-timeout") /\ UNCHANGED faults
  <2>1. "processing-timeout" \in Reasons
    BY DEF Reasons, REFUND_UNSETTLED_REASONS
  <2> QED BY <1>3, <1>5, <1>7, <2>1, FailWithLemma
<1>8. CASE w' = Finished(p, r) /\ (Fault \/ UNCHANGED faults)
  BY <1>1, <1>8, LeaveStep
<1> QED BY <1>1, <1>6, <1>7, <1>8

\* settle_refund, and the refund that the gateway rejected.
LEMMA SettleInv ==
  ASSUME IInv, SafeLoads, NEW p \in Workers, NEW r \in Refunds, Settle(p, r)
  PROVE  IInv'
<1> DEFINE done == [row[r] EXCEPT !.status = "succeeded"]
           rec  == Failed(row[r], "rejected", Attempts(w[p].todo[r]))
<1>1. /\ InHand(p, r) /\ w[p].pc = "settle"
      /\ w' = Finished(p, r)
      /\ Fault \/ UNCHANGED faults
      /\ UNCHANGED <<prov, old, paid, retries, panel>>
      /\ \/ /\ SettleRefund(r) \/ UNCHANGED <<row, refunded>>
         \/ row' \in {row, [row EXCEPT ![r] = rec]} /\ UNCHANGED refunded
  BY DEF Settle, At, Update, UnchangedByWorker
<1>2. row[r].id # 0 /\ row[r].id = 1 /\ Created(r) = {1} /\ row[r] \in Row
  <2>1. Knows(p, r) /\ row[r] \in Row
    BY <1>1, Before
  <2>2. row[r].id # 0
    BY <1>1, <2>1 DEF Knows
  <2> QED BY <1>1, <2>1, <2>2, Before
<1>3. refunded \subseteq Refunds
  BY DEF IInv, TypeOK
<1>4. ASSUME NEW new \in Row, row' \in {row, [row EXCEPT ![r] = new]},
             new.id = row[r].id, new.status \in {"failed", "succeeded"},
             refunded' \subseteq Refunds
      PROVE  IInv'
  <2>1. new.status # "pending" /\ new.status \notin Queued
    BY <1>4 DEF Queued
  <2>2. RowOwes(p, r, new)
    BY <1>2, <1>4, <2>1 DEF RowOwes, Held
  <2> QED BY <1>1, <1>4, <2>2, FinishStep
<1>5. CASE SettleRefund(r) \/ UNCHANGED <<row, refunded>>
  <2>1. /\ row' \in {row, [row EXCEPT ![r] = done]}
        /\ refunded' \subseteq Refunds
    BY <1>3, <1>5 DEF SettleRefund, IInv, TypeOK
  <2>2. done \in Row /\ done.id = row[r].id /\ done.status = "succeeded"
    BY <1>2 DEF Row, Statuses
  <2> HIDE DEF done
  <2> QED BY <1>4, <2>1, <2>2
<1>6. CASE row' \in {row, [row EXCEPT ![r] = rec]} /\ UNCHANGED refunded
  <2>1. "rejected" \in Reasons
    BY DEF Reasons
  <2>2. rec \in Row
    BY <1>1, <1>2, <2>1, ReadTypes, RowTypes, Constants
  <2>3. rec.id = row[r].id /\ rec.status = "failed"
    BY <1>2 DEF Failed, Row
  <2> HIDE DEF rec
  <2> QED BY <1>3, <1>4, <1>6, <2>2, <2>3
<1> QED BY <1>1, <1>5, <1>6

\* The worker has no refund in hand but those it has just read, if any.
LEMMA RestartInv ==
  ASSUME IInv, SafeLoads, NEW p \in Workers, NEW st \in WorkerState,
         w' = [w EXCEPT ![p] = st], st.pc = "item",
         \A r \in DOMAIN st.todo : st.todo[r] = row[r],
         Fault \/ UNCHANGED faults,
         UNCHANGED <<row, refunded, prov, old, retries, panel, paid>>
  PROVE  IInv'
<1>1. /\ w' \in [Workers -> WorkerState]
      /\ w'[p].pc = "item"
      /\ \A q \in Workers \ {p} : w'[q] = w[q]
      /\ \A r \in Refunds : r \in DOMAIN w'[p].todo => w'[p].todo[r] = row[r]
  BY DEF IInv, TypeOK
<1>2. /\ \A r \in Refunds : Created(r)' = Created(r) /\ (IsQueued(r)' <=> IsQueued(r))
      /\ row' = row /\ panel' = panel
  BY DEF Created, IsQueued
<1>3. /\ \A r \in Refunds : ~Posting(p, r)'
      /\ \A q \in Workers, r \in Refunds : q # p =>
             /\ InHand(q, r)' <=> InHand(q, r)
             /\ Posting(q, r)' <=> Posting(q, r)
  BY <1>1 DEF InHand, Posting
<1>4. TypeOK'
  BY <1>1, FaultLemma DEF IInv, TypeOK
<1>5. AttemptsLeft'
  BY <1>1, <1>2 DEF IInv, AttemptsLeft
<1>6. FirstIds' /\ UnknownKept'
  BY <1>2 DEF IInv, FirstIds, UnknownKept
<1>7. IdsStay'
  BY <1>1, <1>2 DEF IInv, IdsStay
<1>8. OnePoster'
  BY <1>3 DEF IInv, OnePoster
<1>9. WorkerKnows'
  <2> SUFFICES ASSUME NEW q \in Workers, NEW r \in Refunds, InHand(q, r)'
               PROVE  Knows(q, r)'
    BY DEF WorkerKnows
  <2>1. CASE q = p
    BY <1>1, <1>3, <2>1 DEF Knows
  <2>2. CASE q # p
    <3>1. Knows(q, r) /\ w'[q] = w[q] /\ (Posting(q, r)' <=> Posting(q, r))
      BY <1>1, <1>3, <2>2 DEF IInv, WorkerKnows
    <3> QED BY <1>2, <3>1 DEF Knows
  <2> QED BY <2>1, <2>2
<1>10. RetryKnows'
  BY <1>2, <1>3 DEF IInv, RetryKnows
<1>11. ReadIsFresh'
  <2> SUFFICES ASSUME LoadFaults, NEW q \in Workers, NEW r \in Refunds,
                      Unclaimed(q, r)'
               PROVE  Fresh(q, r)'
    BY DEF ReadIsFresh
  <2>1. q = p
    BY Alone
  <2> QED BY <1>1, <1>2, <2>1 DEF Unclaimed, Fresh
<1> QED BY <1>4, <1>5, <1>6, <1>7, <1>8, <1>9, <1>10, <1>11 DEF IInv

LEMMA IdleLemma ==
  ASSUME NEW td \in Todos
  PROVE  [Idle EXCEPT !.todo = td] \in WorkerState
<1>1. "item" \in Pcs /\ "pending" \in Answers /\ "none" \in Reasons /\ 0 \in 0 .. MaxPosts
  BY Constants DEF Pcs, Answers, Reasons
<1> QED BY <1>1 DEF Idle, WorkerState

\* The cycle reads the rows as they are.
LEMMA FetchInv ==
  ASSUME IInv, SafeLoads, NEW p \in Workers, FetchActiveRefunds(p)
  PROVE  IInv'
<1> DEFINE batch == {r \in Refunds :
                       /\ IsQueued(r)
                       /\ Cardinality({q \in Refunds : q < r /\ IsQueued(q)}) < Batch}
           td == [r \in batch |-> row[r]]
           st == [Idle EXCEPT !.todo = td]
<1>1. /\ w[p] = Idle
      /\ w' = [w EXCEPT ![p].todo = td]
      /\ UNCHANGED <<row, refunded, prov, faults, old, retries, panel, paid>>
  BY DEF FetchActiveRefunds, UnchangedByWorker
<1>2. batch \in SUBSET Refunds
  OBVIOUS
<1> HIDE DEF batch
<1>3. row \in [Refunds -> Row] /\ w \in [Workers -> WorkerState]
  BY DEF IInv, TypeOK
<1>4. td \in Todos
  <2>1. td \in [batch -> Row]
    BY <1>2, <1>3
  <2> QED BY <1>2, <2>1, TodosOf
<1>5. \A r \in DOMAIN td : td[r] = row[r]
  OBVIOUS
<1> HIDE DEF td
<1>6. st \in WorkerState /\ st.todo = td /\ st.pc = "item"
  BY <1>4, IdleLemma DEF Idle
<1>7. w' = [w EXCEPT ![p] = st]
  BY <1>1, <1>3
<1> HIDE DEF st
<1> QED BY <1>1, <1>5, <1>6, <1>7, RestartInv

\* What the process knew dies with it; the rows keep what the invariant asks.
LEMMA CrashInv ==
  ASSUME IInv, SafeLoads, NEW p \in Workers, Crash(p)
  PROVE  IInv'
<1>1. /\ w' = [w EXCEPT ![p] = Idle] /\ Fault
      /\ UNCHANGED <<row, refunded, prov, old, retries, panel, paid>>
  BY DEF Crash, UnchangedByWorker
<1>2. None \in Todos /\ DOMAIN None = {}
  <2>1. None \in [{} -> Row] /\ {} \in SUBSET Refunds
    BY DEF None
  <2> QED BY <2>1, TodosOf DEF None
<1>3. Idle \in WorkerState /\ Idle.pc = "item" /\ Idle.todo = None
  BY <1>2, IdleLemma DEF Idle
<1> QED BY <1>1, <1>2, <1>3, RestartInv

-----------------------------------------------------------------------------
(* The steps of the panel, of time and of the gateway.                     *)

\* A failed row that no retry must check by hand has nobody posting it.
LEMMA RetryReadsInv ==
  ASSUME IInv, OneSession, NEW s \in Staff, NEW r \in Refunds, RetryReads(s, r)
  PROVE  IInv'
<1>1. /\ row[r].status = "failed" /\ ~RequiresManualCheck(row[r])
      /\ panel' = [panel EXCEPT ![s] =
             [refund |-> r,
              target |-> IF row[r].id = 0 THEN "pending" ELSE "processing"]]
      /\ retries < MaxRetries /\ retries' = retries + 1
      /\ UNCHANGED <<row, old, refunded, prov, paid, faults, w>>
  BY DEF RetryReads
<1>2. /\ panel'[s].refund = r
      /\ panel'[s].target = IF row[r].id = 0 THEN "pending" ELSE "processing"
      /\ \A t \in Staff \ {s} : panel'[t] = panel[t]
  BY <1>1 DEF IInv, TypeOK
<1>3. TypeOK'
  <2>1. retries' \in 0 .. MaxRetries
    BY <1>1, SizesAssumption DEF IInv, TypeOK
  <2>2. panel' \in [Staff -> [refund: 0 .. NumRefunds,
                              target: {"failed", "pending", "processing"}]]
    BY <1>1 DEF IInv, TypeOK, Refunds
  <2> QED BY <1>1, <2>1, <2>2 DEF IInv, TypeOK
<1>4. \A q \in Refunds : /\ Created(q)' = Created(q)
                         /\ (IsQueued(q)' <=> IsQueued(q))
                         /\ \A p \in Workers : (Posting(p, q)' <=> Posting(p, q))
                                               /\ (InHand(p, q)' <=> InHand(p, q))
  BY <1>1 DEF Created, IsQueued, Posting, InHand
<1>5. AttemptsLeft' /\ FirstIds' /\ IdsStay' /\ OnePoster' /\ UnknownKept'
  BY <1>1, <1>4 DEF IInv, AttemptsLeft, FirstIds, IdsStay, OnePoster, UnknownKept
<1>6. WorkerKnows'
  <2> SUFFICES ASSUME NEW q \in Workers, NEW x \in Refunds, InHand(q, x)'
               PROVE  Knows(q, x)'
    BY DEF WorkerKnows
  <2>1. Knows(q, x)
    BY <1>4 DEF IInv, WorkerKnows
  <2> QED BY <1>1, <1>4, <2>1 DEF Knows
<1>7. ReadIsFresh'
  BY <1>1, <1>4 DEF IInv, ReadIsFresh, Unclaimed, Fresh
<1>8. RetryKnows'
  <2>1. Staff = {s}
    BY DEF OneSession
  <2>2. row[r].id = 0 => Created(r) = {} /\ \A p \in Workers : ~Posting(p, r)
    <3> SUFFICES ASSUME row[r].id = 0
                 PROVE  Created(r) = {} /\ \A p \in Workers : ~Posting(p, r)
      OBVIOUS
    <3>1. row[r].reason \notin REFUND_MANUAL_CHECK_REASONS
      BY <1>1 DEF RequiresManualCheck
    <3>2. ~Sighted(row[r]) /\ ~Held(row[r])
      BY <1>1, <3>1 DEF Sighted, Held, REFUND_MANUAL_CHECK_REASONS
    <3>3. Created(r) = {}
      BY <3>2 DEF IInv, UnknownKept
    <3>4. \A p \in Workers : ~Posting(p, r)
      BY <3>2 DEF IInv, WorkerKnows, Knows, Posting
    <3> QED BY <3>3, <3>4
  <2>3. ~IsQueued(r)
    BY <1>1 DEF IsQueued, Queued
  <2> SUFFICES ASSUME NEW t \in Staff, NEW q \in Refunds, panel'[t].refund = q
               PROVE  /\ panel'[t].target = "pending" =>
                            /\ ~IsQueued(q)'
                            /\ Created(q)' = {}
                            /\ \A p \in Workers : ~Posting(p, q)'
                      /\ panel'[t].target = "processing" => row'[q].id # 0
                      /\ panel'[t].target \in {"pending", "processing"}
    BY DEF RetryKnows
  <2>4. t = s /\ q = r
    BY <1>2, <2>1
  <2> QED BY <1>1, <1>2, <1>4, <2>2, <2>3, <2>4
<1> QED BY <1>3, <1>5, <1>6, <1>7, <1>8 DEF IInv

\* A step that leaves the workers and writes one row.
LEMMA OuterStep ==
  ASSUME IInv, NEW r \in Refunds, NEW rec \in Row,
         row' \in {row, [row EXCEPT ![r] = rec]},
         TypeOK', UNCHANGED <<w, prov>>,
         \A s \in Staff : panel'[s] \in {panel[s], NoRetry},
         rec.id = row[r].id,
         Created(r) # {} /\ rec.id = 0 => Sighted(rec),
         rec.status = "pending" =>
             /\ rec.attempts <= MaxCreateAttempts
             /\ rec.id = 0 \/ row[r].status = "pending",
         row[r].status = "pending" => rec.status = "pending",
         \A p \in Workers : Posting(p, r) => Held(rec),
         \A s \in Staff : panel'[s].refund = r /\ panel'[s].target = "pending" =>
             rec.status \notin Queued
  PROVE  IInv'
<1>1. /\ row'[r] \in {row[r], rec}
      /\ \A q \in Refunds \ {r} : row'[q] = row[q]
      /\ \A q \in Refunds : row'[q].id = row[q].id
  BY RowLemma DEF IInv
<1>2. /\ \A q \in Refunds : Created(q)' = Created(q)
      /\ \A p \in Workers, q \in Refunds : /\ Posting(p, q)' <=> Posting(p, q)
                                           /\ InHand(p, q)' <=> InHand(p, q)
      /\ w' = w
  BY DEF Created, Posting, InHand
<1>3. AttemptsLeft'
  BY <1>1, <1>2 DEF IInv, AttemptsLeft
<1>4. FirstIds'
  BY <1>1, <1>2 DEF IInv, FirstIds
<1>5. IdsStay'
  BY <1>1, <1>2 DEF IInv, IdsStay
<1>6. OnePoster'
  BY <1>2 DEF IInv, OnePoster
<1>7. WorkerKnows'
  <2> SUFFICES ASSUME NEW p \in Workers, NEW q \in Refunds, InHand(p, q)'
               PROVE  Knows(p, q)'
    BY DEF WorkerKnows
  <2>1. Knows(p, q)
    BY <1>2 DEF IInv, WorkerKnows
  <2>2. Posting(p, q) => Held(row'[q])
    <3>1. CASE row'[q] = row[q]
      BY <2>1, <3>1 DEF Knows
    <3>2. CASE q = r /\ row'[q] = rec
      BY <3>2
    <3> QED BY <1>1, <3>1, <3>2
  <2> QED BY <1>1, <1>2, <2>1, <2>2 DEF Knows
<1>8. UnknownKept'
  <2> SUFFICES ASSUME NEW q \in Refunds, Created(q)' # {}, row'[q].id = 0
               PROVE  Sighted(row'[q])
    BY DEF UnknownKept, Sighted
  <2>1. CASE row'[q] = row[q]
    BY <1>2, <2>1 DEF IInv, UnknownKept
  <2>2. CASE q = r /\ row'[q] = rec
    BY <1>2, <2>2
  <2> QED BY <1>1, <2>1, <2>2
<1>9. RetryKnows'
  <2> SUFFICES ASSUME NEW s \in Staff, NEW q \in Refunds, panel'[s].refund = q
               PROVE  /\ panel'[s].target = "pending" =>
                            /\ ~IsQueued(q)'
                            /\ Created(q)' = {}
                            /\ \A p \in Workers : ~Posting(p, q)'
                      /\ panel'[s].target = "processing" => row'[q].id # 0
                      /\ panel'[s].target \in {"pending", "processing"}
    BY DEF RetryKnows
  <2>1. panel'[s] = panel[s]
    BY Constants DEF NoRetry
  <2>2. /\ panel[s].target = "pending" =>
              /\ ~IsQueued(q)
              /\ Created(q) = {}
              /\ \A p \in Workers : ~Posting(p, q)
        /\ panel[s].target = "processing" => row[q].id # 0
        /\ panel[s].target \in {"pending", "processing"}
    BY <2>1 DEF IInv, RetryKnows
  <2>3. panel[s].target = "pending" => ~IsQueued(q)'
    BY <1>1, <2>1, <2>2 DEF IsQueued
  <2> QED BY <1>1, <1>2, <2>1, <2>2, <2>3
<1>10. ReadIsFresh'
  BY <1>1, <1>2 DEF IInv, ReadIsFresh, Unclaimed, Fresh
<1> QED BY <1>3, <1>4, <1>5, <1>6, <1>7, <1>8, <1>9, <1>10 DEF IInv

\* A step that leaves the workers, the rows and what the gateway created.
LEMMA StillStep ==
  ASSUME IInv, TypeOK', UNCHANGED <<w, row>>,
         \A r \in Refunds : Created(r)' = Created(r),
         \A s \in Staff : panel'[s] \in {panel[s], NoRetry}
  PROVE  IInv'
<1>1. /\ row' = row /\ w' = w
      /\ \A p \in Workers, r \in Refunds : /\ Posting(p, r)' <=> Posting(p, r)
                                           /\ InHand(p, r)' <=> InHand(p, r)
      /\ \A r \in Refunds : IsQueued(r)' <=> IsQueued(r)
  BY DEF Posting, InHand, IsQueued
<1>2. AttemptsLeft' /\ FirstIds' /\ IdsStay' /\ OnePoster' /\ UnknownKept'
  BY <1>1 DEF IInv, AttemptsLeft, FirstIds, IdsStay, OnePoster, UnknownKept
<1>3. WorkerKnows'
  <2> SUFFICES ASSUME NEW p \in Workers, NEW r \in Refunds, InHand(p, r)'
               PROVE  Knows(p, r)'
    BY DEF WorkerKnows
  <2>1. Knows(p, r)
    BY <1>1 DEF IInv, WorkerKnows
  <2> QED BY <1>1, <2>1 DEF Knows
<1>4. RetryKnows'
  <2> SUFFICES ASSUME NEW s \in Staff, NEW r \in Refunds, panel'[s].refund = r
               PROVE  /\ panel'[s].target = "pending" =>
                            /\ ~IsQueued(r)'
                            /\ Created(r)' = {}
                            /\ \A p \in Workers : ~Posting(p, r)'
                      /\ panel'[s].target = "processing" => row'[r].id # 0
                      /\ panel'[s].target \in {"pending", "processing"}
    BY DEF RetryKnows
  <2>1. panel'[s] = panel[s]
    BY Constants DEF NoRetry
  <2> QED BY <1>1, <2>1 DEF IInv, RetryKnows
<1>5. ReadIsFresh'
  BY <1>1 DEF IInv, ReadIsFresh, Unclaimed, Fresh
<1> QED BY <1>2, <1>3, <1>4, <1>5 DEF IInv

\* The one session writes what it read: the row still is what it was.
LEMMA RetryWritesInv ==
  ASSUME IInv, OneSession, NEW s \in Staff, RetryWrites(s)
  PROVE  IInv'
<1> DEFINE r   == panel[s].refund
           rec == Retried(row[r], panel[s].target)
<1>1. /\ row' = IF StillFailed(r) THEN [row EXCEPT ![r] = rec] ELSE row
      /\ panel' = [panel EXCEPT ![s] = NoRetry]
      /\ UNCHANGED <<old, refunded, prov, paid, faults, retries, w>>
  <2>1. row' = IF StillFailed(r) THEN [row EXCEPT ![r] = Retried(@, panel[s].target)]
                                 ELSE row
    BY DEF RetryWrites
  <2> QED BY <2>1 DEF RetryWrites
<1>2. /\ TypeOK
      /\ r \in 0 .. NumRefunds
      /\ panel[s].target \in {"failed", "pending", "processing"}
      /\ Staff = {s}
  BY DEF IInv, TypeOK, OneSession
<1>3. /\ panel' \in [Staff -> [refund: 0 .. NumRefunds,
                               target: {"failed", "pending", "processing"}]]
      /\ \A t \in Staff : panel'[t] = NoRetry
  BY <1>1, <1>2, Constants DEF TypeOK, NoRetry
<1>4. CASE r \in Refunds /\ StillFailed(r)
  <2>1. row[r] \in Row /\ row[r].status = "failed"
    BY <1>2, <1>4 DEF TypeOK, StillFailed
  <2>2. /\ panel[s].target = "pending" =>
              Created(r) = {} /\ \A p \in Workers : ~Posting(p, r)
        /\ panel[s].target = "processing" => row[r].id # 0
        /\ panel[s].target \in {"pending", "processing"}
    BY <1>4 DEF IInv, RetryKnows
  <2>3. row[r].id # 0 => Created(r) = {1}
    BY <1>4 DEF IInv, FirstIds
  <2>4. /\ rec \in Row
        /\ rec.id = row[r].id /\ rec.status = panel[s].target
        /\ rec.status = "pending" => rec.attempts = 0
    <3>1. /\ "none" \in Reasons /\ 0 \in 0 .. MaxCreateAttempts + 1
          /\ {"pending", "processing"} \subseteq Statuses
      BY Constants DEF Reasons, Statuses, Queued
    <3> QED BY <2>1, <2>2, <3>1 DEF Retried, Row
  <2>5. row' \in {row, [row EXCEPT ![r] = rec]} /\ row' \in [Refunds -> Row]
    BY <1>1, <1>2, <1>4, <2>4 DEF TypeOK
  <2>6. TypeOK'
    BY <1>1, <1>2, <1>3, <2>5 DEF TypeOK
  <2>7. /\ Created(r) # {} /\ rec.id = 0 => Sighted(rec)
        /\ rec.status = "pending" =>
              /\ rec.attempts <= MaxCreateAttempts
              /\ rec.id = 0 \/ row[r].status = "pending"
        /\ row[r].status = "pending" => rec.status = "pending"
        /\ \A p \in Workers : Posting(p, r) => Held(rec)
    BY <2>1, <2>2, <2>3, <2>4, Constants DEF Sighted, Held
  <2>8. \A t \in Staff : panel'[t] \in {panel[t], NoRetry} /\ panel'[t].refund # r
    BY <1>3, <1>4, Constants DEF NoRetry
  <2> HIDE DEF rec, r
  <2> QED BY <1>1, <1>4, <2>4, <2>5, <2>6, <2>7, <2>8, OuterStep
<1>5. CASE ~(r \in Refunds /\ StillFailed(r))
  <2>1. row' = row
    <3>1. CASE r \notin Refunds
      BY <1>1, <1>2, <3>1 DEF TypeOK
    <3> QED BY <1>1, <1>5, <3>1
  <2>2. TypeOK'
    BY <1>1, <1>2, <1>3, <2>1 DEF TypeOK
  <2>3. \A q \in Refunds : Created(q)' = Created(q)
    BY <1>1 DEF Created
  <2> QED BY <1>1, <1>3, <2>1, <2>2, <2>3, StillStep
<1> QED BY <1>4, <1>5

\* Only after the gateway has rejected it, or before it could be posted.
LEMMA RequestTransferInv ==
  ASSUME IInv, NEW r \in Refunds, RequestRefundTransfer(r)
  PROVE  IInv'
<1> DEFINE rec == [row[r] EXCEPT !.status = "awaiting_transfer"]
<1>1. /\ row[r].status = "failed" /\ ~ProviderMaySettle(row[r])
      /\ row' = [row EXCEPT ![r] = rec]
      /\ UNCHANGED <<old, refunded, prov, paid, faults, retries, w, panel>>
  BY DEF RequestRefundTransfer
<1>2. TypeOK /\ row[r] \in Row
  BY DEF IInv, TypeOK
<1>3. /\ rec \in Row /\ rec.id = row[r].id /\ rec.status = "awaiting_transfer"
  BY <1>2 DEF Row, Statuses
<1> HIDE DEF rec
<1>4. ~Sighted(row[r]) /\ (Held(row[r]) => row[r].id # 0)
  BY <1>1 DEF Sighted, Held, ProviderMaySettle, REFUND_UNSETTLED_REASONS,
     REFUND_MANUAL_CHECK_REASONS
<1>5. TypeOK'
  BY <1>1, <1>2, <1>3 DEF TypeOK
<1>6. Created(r) # {} => row[r].id # 0
  BY <1>4 DEF IInv, UnknownKept
<1>7. \A p \in Workers : Posting(p, r) => Held(rec)
  <2>1. \A p \in Workers : Posting(p, r) => Held(row[r])
    BY DEF IInv, WorkerKnows, Knows, Posting
  <2> QED BY <1>3, <1>4, <2>1 DEF Held
<1>8. rec.status \notin Queued
  BY <1>3 DEF Queued
<1> QED BY <1>1, <1>3, <1>5, <1>6, <1>7, <1>8, OuterStep

LEMMA SettleTransferInv ==
  ASSUME IInv, NEW r \in Refunds, SettleRefundTransfer(r)
  PROVE  IInv'
<1> DEFINE rec == [row[r] EXCEPT !.status = "succeeded"]
<1>1. /\ row[r].status = "awaiting_transfer"
      /\ row' = [row EXCEPT ![r] = rec]
      /\ refunded' = refunded \cup {r}
      /\ paid' = [paid EXCEPT ![r] = @ + 1]
      /\ UNCHANGED <<old, prov, faults, retries, w, panel>>
  BY DEF SettleRefundTransfer
<1>2. TypeOK /\ row[r] \in Row
  BY DEF IInv, TypeOK
<1>3. /\ rec \in Row /\ rec.id = row[r].id /\ rec.status = "succeeded"
  BY <1>2 DEF Row, Statuses
<1> HIDE DEF rec
<1>4. ~Sighted(row[r]) /\ (Held(row[r]) => row[r].id # 0)
  BY <1>1 DEF Sighted, Held
<1>5. TypeOK'
  BY <1>1, <1>2, <1>3 DEF TypeOK
<1>6. Created(r) # {} => row[r].id # 0
  BY <1>4 DEF IInv, UnknownKept
<1>7. \A p \in Workers : Posting(p, r) => Held(rec)
  <2>1. \A p \in Workers : Posting(p, r) => Held(row[r])
    BY DEF IInv, WorkerKnows, Knows, Posting
  <2> QED BY <1>3, <1>4, <2>1 DEF Held
<1>8. rec.status \notin Queued
  BY <1>3 DEF Queued
<1> QED BY <1>1, <1>3, <1>5, <1>6, <1>7, <1>8, OuterStep

LEMMA BackoffInv ==
  ASSUME IInv, NEW r \in Refunds, BackoffElapses(r)
  PROVE  IInv'
<1> DEFINE rec == [row[r] EXCEPT !.waited = TRUE]
<1>1. /\ row[r].status = "pending"
      /\ row' = [row EXCEPT ![r] = rec]
      /\ UNCHANGED <<old, refunded, prov, paid, faults, retries, w, panel>>
  BY DEF BackoffElapses
<1>2. TypeOK /\ row[r] \in Row
  BY DEF IInv, TypeOK
<1>3. /\ rec \in Row /\ rec.id = row[r].id /\ rec.status = row[r].status
      /\ rec.attempts = row[r].attempts
  BY <1>2 DEF Row
<1> HIDE DEF rec
<1>4. TypeOK'
  BY <1>1, <1>2, <1>3 DEF TypeOK
<1>5. Created(r) # {} => row[r].id # 0
  BY <1>1 DEF IInv, UnknownKept, Sighted
<1>6. \A p \in Workers : ~Posting(p, r)
  BY <1>1 DEF IInv, WorkerKnows, Knows, Posting, Held
<1>7. row[r].attempts <= MaxCreateAttempts
  BY <1>1 DEF IInv, AttemptsLeft
<1>8. \A s \in Staff : panel'[s].refund = r => panel'[s].target # "pending"
  BY <1>1 DEF IInv, RetryKnows, IsQueued, Queued
<1> QED BY <1>1, <1>3, <1>4, <1>5, <1>6, <1>7, <1>8, OuterStep

LEMMA AgesInv ==
  ASSUME IInv, NEW r \in Refunds, Ages(r)
  PROVE  IInv'
<1>1. TypeOK'
  BY DEF IInv, TypeOK, Ages
<1>2. \A q \in Refunds : Created(q)' = Created(q)
  BY DEF Ages, Created
<1> QED BY <1>1, <1>2, StillStep DEF Ages

LEMMA GatewayInv ==
  ASSUME IInv, NEW r \in Refunds, NEW k \in Ids, GatewaySettles(r, k)
  PROVE  IInv'
<1>1. PICK st \in {"succeeded", "failed"} : prov' = [prov EXCEPT ![r][k] = st]
  BY DEF GatewaySettles
<1>2. /\ prov[r][k] = "pending"
      /\ UNCHANGED <<row, old, refunded, paid, faults, retries, w, panel>>
  BY DEF GatewaySettles
<1>3. prov \in [Refunds -> [Ids -> {"none"} \cup Answers]]
  BY DEF IInv, TypeOK
<1>4. prov' \in [Refunds -> [Ids -> {"none"} \cup Answers]]
  BY <1>1, <1>3 DEF Answers
<1>5. \A q \in Refunds, j \in Ids : prov'[q][j] # "none" <=> prov[q][j] # "none"
  BY <1>1, <1>2, <1>3
<1>6. \A q \in Refunds : Created(q)' = Created(q)
  BY <1>5 DEF Created
<1>7. TypeOK'
  BY <1>2, <1>4 DEF IInv, TypeOK
<1> QED BY <1>2, <1>6, <1>7, StillStep

-----------------------------------------------------------------------------
(* The invariant holds.                                                    *)

LEMMA InitInv ==
  ASSUME Init
  PROVE  IInv
<1>1. PICK legacy \in SUBSET Refunds :
         /\ row = [r \in Refunds |-> NewRow(r \in legacy)]
         /\ prov = [r \in Refunds |-> [k \in Ids |->
                      IF r \in legacy /\ k = 1 THEN "pending" ELSE "none"]]
  BY DEF Init
<1>2. /\ old = {} /\ refunded = {} /\ faults = 0 /\ retries = 0
      /\ paid = [r \in Refunds |-> 0]
      /\ w = [p \in Workers |-> Idle]
      /\ panel = [s \in Staff |-> NoRetry]
  BY DEF Init
<1>3. \A r \in Refunds :
         /\ row[r] \in Row
         /\ row[r].status = "pending" /\ row[r].attempts = 0
         /\ row[r].id = IF r \in legacy THEN 1 ELSE 0
         /\ Created(r) = IF r \in legacy THEN {1} ELSE {}
  <2> TAKE r \in Refunds
  <2>1. row[r] = NewRow(r \in legacy)
    BY <1>1
  <2>2. "none" \in Reasons /\ "pending" \in Statuses /\ 1 \in Ids
        /\ {0, 1} \subseteq 0 .. MaxPosts /\ 0 \in 0 .. MaxCreateAttempts + 1
    BY Constants DEF Reasons, Statuses, Queued, Ids
  <2>3. row[r] \in Row
    BY <2>1, <2>2 DEF NewRow, Row
  <2>4. \A k \in Ids : prov[r][k] # "none" <=> r \in legacy /\ k = 1
    BY <1>1
  <2>5. Created(r) = IF r \in legacy THEN {1} ELSE {}
    BY <2>2, <2>4 DEF Created
  <2> QED BY <2>1, <2>3, <2>5 DEF NewRow
<1>4. Idle \in WorkerState /\ DOMAIN Idle.todo = {} /\ Idle.pc = "item"
  <2>1. None \in Todos
    <3>1. None \in [{} -> Row] /\ {} \in SUBSET Refunds
      BY DEF None
    <3> QED BY <3>1, TodosOf
  <2> QED BY <2>1, IdleLemma DEF Idle, None
<1>5. \A p \in Workers, r \in Refunds :
         r \notin DOMAIN w[p].todo /\ ~InHand(p, r) /\ ~Posting(p, r)
  BY <1>2, <1>4 DEF InHand, Posting
<1>6. \A s \in Staff, r \in Refunds : panel[s].refund # r
  BY <1>2, Constants DEF NoRetry
<1>7. TypeOK
  <2>1. row \in [Refunds -> Row]
    BY <1>1, <1>3
  <2>2. prov \in [Refunds -> [Ids -> {"none"} \cup Answers]]
    BY <1>1 DEF Answers
  <2>3. w \in [Workers -> WorkerState] /\ paid \in [Refunds -> Nat]
    BY <1>2, <1>4
  <2>4. /\ panel \in [Staff -> [refund: 0 .. NumRefunds,
                                target: {"failed", "pending", "processing"}]]
        /\ faults \in 0 .. MaxFaults /\ retries \in 0 .. MaxRetries
    BY <1>2, SizesAssumption DEF NoRetry
  <2> QED BY <1>2, <2>1, <2>2, <2>3, <2>4 DEF TypeOK
<1>8. AttemptsLeft /\ FirstIds /\ UnknownKept
  BY <1>3, <1>5, Constants DEF AttemptsLeft, FirstIds, UnknownKept
<1>9. IdsStay /\ OnePoster /\ WorkerKnows
  BY <1>5 DEF IdsStay, OnePoster, WorkerKnows
<1>10. RetryKnows
  BY <1>6 DEF RetryKnows
<1>11. ReadIsFresh
  BY <1>5 DEF ReadIsFresh, Unclaimed
<1> QED BY <1>7, <1>8, <1>9, <1>10, <1>11 DEF IInv

LEMMA NextInv ==
  ASSUME IInv, OneSession, SafeLoads, [Next]_vars
  PROVE  IInv'
<1>1. ASSUME NEW p \in Workers, NEW r \in Refunds, ProcessOne(p, r)
      PROVE  IInv'
  BY <1>1, SkipInv, FailStaleInv, LoadInv, ClaimsInv, PostInv, MarkFailedInv,
     ReleaseInv, MarkProcessingInv, PollInv, SettleInv DEF ProcessOne
<1>2. ASSUME NEW p \in Workers, ProcessRefunds(p) \/ Crash(p)
      PROVE  IInv'
  BY <1>1, <1>2, FetchInv, CrashInv DEF ProcessRefunds
<1>3. CASE Panel
  BY <1>3, RetryReadsInv, RetryWritesInv, RequestTransferInv, SettleTransferInv
     DEF Panel
<1>4. CASE \E r \in Refunds : Ages(r) \/ BackoffElapses(r)
  BY <1>4, AgesInv, BackoffInv
<1>5. CASE \E r \in Refunds, k \in Ids : GatewaySettles(r, k)
  BY <1>5, GatewayInv
<1>6. CASE UNCHANGED vars
  <2>1. TypeOK'
    BY <1>6 DEF IInv, TypeOK, vars
  <2>2. \A r \in Refunds : Created(r)' = Created(r)
    BY <1>6 DEF vars, Created
  <2> QED BY <1>6, <2>1, <2>2, StillStep DEF vars
<1> QED BY <1>2, <1>3, <1>4, <1>5, <1>6 DEF Next

\* The inductive invariant: what the table, the gateway, the workers and the
\* panel know of one another at each step.
THEOREM RefundsInvariant ==
  ASSUME OneSession, SafeLoads
  PROVE  Spec => []IInv
<1>1. Init => IInv
  BY InitInv
<1>2. IInv /\ [Next]_vars => IInv'
  BY NextInv
<1> QED BY <1>1, <1>2, PTL DEF Spec

\* Every value the queue, the workers and the panel reach has its type: no
\* refund counts more POSTs than the code allows it.
THEOREM RefundsTypeOK ==
  ASSUME OneSession, SafeLoads
  PROVE  Spec => []TypeOK
<1>1. IInv => TypeOK
  BY DEF IInv
<1> QED BY <1>1, RefundsInvariant, PTL

\* Once the gateway may have created a refund none is posted again for its row,
\* for any number of refunds, of workers that overlap, of lost calls and of
\* processes that die.
THEOREM RefundsPostedOnce ==
  ASSUME OneSession, SafeLoads
  PROVE  Spec => []PostedOnce
<1>1. ASSUME IInv, NEW r \in Refunds
      PROVE  Cardinality(Created(r)) <= 1
  <2>1. Created(r) = {} \/ Created(r) = {1}
    BY <1>1 DEF IInv, FirstIds
  <2> QED BY <2>1, FS_EmptySet, FS_Singleton
<1>2. IInv => PostedOnce
  BY <1>1 DEF PostedOnce
<1> QED BY <1>2, RefundsInvariant, PTL

\* A refund the gateway can still pay has its id in its row, or the row is
\* where no retry posts it again and no transfer is made for it.
THEOREM RefundsLiveIsKnown ==
  ASSUME OneSession, SafeLoads
  PROVE  Spec => []LiveIsKnown
<1>1. ASSUME IInv, NEW r \in Refunds, Live(r) # {}
      PROVE  \/ row[r].id \in Live(r)
             \/ row[r].status = "processing"
             \/ /\ row[r].status = "failed"
                /\ row[r].reason \in REFUND_MANUAL_CHECK_REASONS
  <2>1. Live(r) \subseteq Created(r)
    BY DEF Live, Created
  <2>2. Live(r) = {1}
    BY <1>1, <2>1 DEF IInv, FirstIds
  <2>3. CASE row[r].id = 0
    BY <1>1, <2>1, <2>3 DEF IInv, UnknownKept, Sighted
  <2>4. CASE row[r].id # 0
    BY <1>1, <2>2, <2>4 DEF IInv, FirstIds
  <2> QED BY <2>3, <2>4
<1>2. IInv => LiveIsKnown
  BY <1>1 DEF LiveIsKnown
<1> QED BY <1>2, RefundsInvariant, PTL

-----------------------------------------------------------------------------
(* What the rows and the workers know of the money, besides IInv.          *)

\* Why a refund failed is true: it has no refund at the gateway, or one that
\* the gateway rejected.
FailedFor(rec, first) ==
    rec.status = "failed" =>
        /\ rec.reason \in {"payment-intent-missing", "refused"} => rec.id = 0
        /\ rec.reason = "rejected" => first = "failed"

Failures == \A r \in Refunds : FailedFor(row[r], prov[r][1])

\* p is about to write a rejection.
Rejecting(p, r) ==
    /\ InHand(p, r)
    /\ w[p].pc \in {"persist", "persist again", "settle"}
    /\ w[p].answer = "failed"

Answered == \A p \in Workers, r \in Refunds : Rejecting(p, r) => prov[r][1] = "failed"

\* The gateway cannot pay what goes by transfer.
TransferOf(r) ==
    ByTransfer(r) =>
        /\ Live(r) = {}
        /\ paid[r] > 0 <=> row[r].status = "succeeded"

Transfers == \A r \in Refunds : TransferOf(r)

MInv == Failures /\ Answered /\ Transfers

-----------------------------------------------------------------------------
(* The steps of the job.                                                   *)

LEMMA FirstId == 1 \in Ids
  BY Constants DEF Ids

LEMMA ProvType ==
  ASSUME IInv, NEW r \in Refunds
  PROVE  /\ prov[r] \in [Ids -> {"none"} \cup Answers]
         /\ \A k \in Ids : prov[r][k] # "none" => k = 1
         /\ Live(r) \subseteq {1}
         /\ 1 \in Live(r) <=> prov[r][1] \in {"pending", "succeeded"}
         /\ paid[r] \in Nat
         /\ row[r] \in Row
<1>1. prov[r] \in [Ids -> {"none"} \cup Answers] /\ paid[r] \in Nat /\ row[r] \in Row
  BY DEF IInv, TypeOK
<1>2. \A k \in Ids : prov[r][k] # "none" => k = 1
  BY DEF IInv, FirstIds, Created
<1> QED BY <1>1, <1>2, FirstId DEF Live

\* A step of p on the refund r, and what it owes to MInv.
MOwes(p, r) ==
    /\ \A q \in Workers \ {p} : w'[q] = w[q]
    /\ \A s \in Refunds \ {r} : row'[s] = row[s] /\ prov'[s] = prov[s]
    /\ paid' = paid
    /\ \A s \in Refunds : Rejecting(p, s)' => s = r /\ prov'[r][1] = "failed"
    /\ prov[r][1] = "failed" => prov'[r][1] = "failed"
    /\ FailedFor(row'[r], prov'[r][1])
    /\ \/ ByTransfer(r) /\ row'[r] = row[r] /\ prov'[r] = prov[r]
       \/ ~ByTransfer(r)'

LEMMA MStep ==
  ASSUME MInv, NEW p \in Workers, NEW r \in Refunds, MOwes(p, r)
  PROVE  MInv'
<1>1. Failures'
  BY DEF MInv, Failures, MOwes
<1>2. ASSUME NEW q \in Workers, NEW s \in Refunds, Rejecting(q, s)'
      PROVE  prov'[s][1] = "failed"
  <2>1. CASE q = p
    BY <1>2, <2>1 DEF MOwes
  <2>2. CASE q # p
    <3>1. Rejecting(q, s)
      BY <1>2, <2>2 DEF MOwes, Rejecting, InHand
    <3> QED BY <3>1 DEF MInv, Answered, MOwes
  <2> QED BY <2>1, <2>2
<1>3. ASSUME NEW s \in Refunds
      PROVE  TransferOf(s)'
  <2>1. CASE s = r
    BY <2>1 DEF MInv, Transfers, TransferOf, ByTransfer, Live, MOwes
  <2>2. CASE s # r
    <3>1. row'[s] = row[s] /\ prov'[s] = prov[s] /\ paid' = paid
      BY <2>2 DEF MOwes
    <3> QED BY <3>1 DEF MInv, Transfers, TransferOf, ByTransfer, Live
  <2> QED BY <2>1, <2>2
<1> QED BY <1>1, <1>2, <1>3 DEF MInv, Answered, Transfers

\* What a worker that is done with r, or goes on with it, is rejecting.
LEMMA Rejects ==
  ASSUME IInv, NEW p \in Workers, NEW r \in Refunds, InHand(p, r)
  PROVE  /\ w' = Finished(p, r) =>
               /\ \A q \in Workers \ {p} : w'[q] = w[q]
               /\ \A s \in Refunds : ~Rejecting(p, s)'
         /\ \A st \in WorkerState :
               w' = [w EXCEPT ![p] = st] /\ st.todo = w[p].todo =>
                  /\ \A q \in Workers \ {p} : w'[q] = w[q]
                  /\ \A s \in Refunds : Rejecting(p, s)' =>
                        /\ s = r
                        /\ st.pc \in {"persist", "persist again", "settle"}
                        /\ st.answer = "failed"
<1>1. TypeOK
  BY DEF IInv
<1>2. ASSUME w' = Finished(p, r)
      PROVE  /\ \A q \in Workers \ {p} : w'[q] = w[q]
             /\ \A s \in Refunds : ~Rejecting(p, s)'
  BY <1>1, <1>2, FinishedLemma DEF Rejecting
<1>3. ASSUME NEW st \in WorkerState, w' = [w EXCEPT ![p] = st], st.todo = w[p].todo
      PROVE  /\ \A q \in Workers \ {p} : w'[q] = w[q]
             /\ \A s \in Refunds : Rejecting(p, s)' =>
                   /\ s = r
                   /\ st.pc \in {"persist", "persist again", "settle"}
                   /\ st.answer = "failed"
  BY <1>1, <1>3, GoesOn, OneInHand DEF Rejecting
<1> QED BY <1>2, <1>3

\* An UPDATE leaves the row, or changes one that does not go by transfer.
LEMMA UpdateLemma ==
  ASSUME IInv, MInv, NEW r \in Refunds, NEW STATE rec, rec \in Row, NEW STATE n1, NEW STATE n2,
         Update(r, rec, n1, n2), rec.status # "awaiting_transfer",
         FailedFor(rec, prov[r][1]), UNCHANGED <<prov, paid>>
  PROVE  /\ w' \in {n1, n2}
         /\ \A s \in Refunds \ {r} : row'[s] = row[s]
         /\ FailedFor(row'[r], prov[r][1])
         /\ \/ ByTransfer(r) /\ row'[r] = row[r]
            \/ ~ByTransfer(r)'
<1>1. /\ w' \in {n1, n2}
      /\ \/ row' = row
         \/ ~ByTransfer(r) /\ row' = [row EXCEPT ![r] = rec]
  BY DEF Update
<1>2. row \in [Refunds -> Row] /\ FailedFor(row[r], prov[r][1])
  BY DEF IInv, TypeOK, MInv, Failures
<1>3. CASE row' = row
  BY <1>1, <1>2, <1>3 DEF ByTransfer
<1>4. CASE ~ByTransfer(r) /\ row' = [row EXCEPT ![r] = rec]
  BY <1>1, <1>2, <1>4 DEF ByTransfer
<1> QED BY <1>1, <1>3, <1>4

\* After next the worker is done with r, or rejects it as the gateway did.
Told(p, r, next) ==
    \/ next = Finished(p, r)
    \/ \E st \in WorkerState :
          /\ next = [w EXCEPT ![p] = st] /\ st.todo = w[p].todo
          /\ \/ st.pc \notin {"persist", "persist again", "settle"}
             \/ st.answer # "failed"
             \/ prov[r][1] = "failed"

LEMMA ToldGoto ==
  ASSUME IInv, NEW p \in Workers, NEW r \in Refunds, NEW pc \in Pcs,
         \/ pc \notin {"persist", "persist again", "settle"}
         \/ w[p].answer # "failed"
         \/ prov[r][1] = "failed"
  PROVE  Told(p, r, Goto(p, pc))
<1>1. TypeOK
  BY DEF IInv
<1>2. PICK st \in WorkerState :
         /\ Goto(p, pc) = [w EXCEPT ![p] = st]
         /\ st.todo = w[p].todo /\ st.pc = pc /\ st.id = w[p].id
         /\ st.answer = w[p].answer /\ st.reason = w[p].reason
  BY <1>1, GotoLemma
<1> QED BY <1>2 DEF Told

LEMMA ToldFail ==
  ASSUME IInv, NEW p \in Workers, NEW r \in Refunds, NEW reason \in Reasons
  PROVE  Told(p, r, FailWith(p, reason))
<1>1. TypeOK
  BY DEF IInv
<1>2. PICK st \in WorkerState :
         /\ FailWith(p, reason) = [w EXCEPT ![p] = st]
         /\ st.todo = w[p].todo /\ st.pc = "fail"
  BY <1>1, FailWithLemma
<1> QED BY <1>2 DEF Told

LEMMA ToldRejects ==
  ASSUME IInv, NEW p \in Workers, NEW r \in Refunds, InHand(p, r),
         Told(p, r, w'), UNCHANGED prov
  PROVE  /\ \A q \in Workers \ {p} : w'[q] = w[q]
         /\ \A s \in Refunds : Rejecting(p, s)' => s = r /\ prov'[r][1] = "failed"
<1>1. CASE w' = Finished(p, r)
  BY <1>1, Rejects
<1>2. CASE w' # Finished(p, r)
  <2>1. PICK st \in WorkerState :
           /\ w' = [w EXCEPT ![p] = st] /\ st.todo = w[p].todo
           /\ \/ st.pc \notin {"persist", "persist again", "settle"}
              \/ st.answer # "failed"
              \/ prov[r][1] = "failed"
    BY <1>2 DEF Told
  <2>2. /\ \A q \in Workers \ {p} : w'[q] = w[q]
        /\ \A s \in Refunds : Rejecting(p, s)' =>
              /\ s = r
              /\ st.pc \in {"persist", "persist again", "settle"}
              /\ st.answer = "failed"
    BY <2>1, Rejects
  <2> QED BY <2>1, <2>2
<1> QED BY <1>1, <1>2

\* A step that leaves the rows and the gateway alone.
LEMMA QuietStep ==
  ASSUME IInv, MInv, NEW p \in Workers, NEW r \in Refunds, InHand(p, r),
         UNCHANGED <<row, prov, paid>>,
         Told(p, r, w')
  PROVE  MInv'
<1>1. /\ \A q \in Workers \ {p} : w'[q] = w[q]
      /\ \A s \in Refunds : Rejecting(p, s)' => s = r /\ prov'[r][1] = "failed"
  BY ToldRejects
<1>2. FailedFor(row[r], prov[r][1])
  BY DEF MInv, Failures
<1>3. MOwes(p, r)
  BY <1>1, <1>2 DEF MOwes, ByTransfer
<1> QED BY <1>3, MStep

\* A worker that writes the row, or tries to.
LEMMA WriteStep ==
  ASSUME IInv, MInv, NEW p \in Workers, NEW r \in Refunds, InHand(p, r),
         NEW STATE rec, rec \in Row, NEW STATE n1, NEW STATE n2,
         Update(r, rec, n1, n2), rec.status # "awaiting_transfer",
         FailedFor(rec, prov[r][1]), UNCHANGED <<prov, paid>>,
         Told(p, r, n1), Told(p, r, n2)
  PROVE  MInv'
<1>1. /\ w' \in {n1, n2}
      /\ \A s \in Refunds \ {r} : row'[s] = row[s]
      /\ FailedFor(row'[r], prov[r][1])
      /\ \/ ByTransfer(r) /\ row'[r] = row[r]
         \/ ~ByTransfer(r)'
  BY UpdateLemma
<1>2. /\ \A q \in Workers \ {p} : w'[q] = w[q]
      /\ \A s \in Refunds : Rejecting(p, s)' => s = r /\ prov'[r][1] = "failed"
  BY <1>1, ToldRejects
<1>3. MOwes(p, r)
  BY <1>1, <1>2 DEF MOwes
<1> QED BY <1>3, MStep

LEMMA SkipM ==
  ASSUME IInv, MInv, NEW p \in Workers, NEW r \in Refunds, Skip(p, r)
  PROVE  MInv'
  BY QuietStep DEF Told, Skip, At, UnchangedByWorker

LEMMA LoadM ==
  ASSUME IInv, MInv, NEW p \in Workers, NEW r \in Refunds, LoadPaymentIntentId(p, r)
  PROVE  MInv'
<1>1. /\ InHand(p, r) /\ UNCHANGED <<row, prov, paid>>
      /\ w' = Goto(p, "claim") \/ w' = FailWith(p, "payment-intent-missing")
  BY DEF LoadPaymentIntentId, At, UnchangedByWorker
<1>2. "claim" \in Pcs /\ "payment-intent-missing" \in Reasons
  BY DEF Pcs, Reasons
<1> QED BY <1>1, <1>2, ToldGoto, ToldFail, QuietStep

\* The answer of the gateway is what the gateway has.
LEMMA PollM ==
  ASSUME IInv, MInv, NEW p \in Workers, NEW r \in Refunds, PollRefund(p, r)
  PROVE  MInv'
<1> DEFINE answer == prov[r][w[p].todo[r].id]
<1>1. /\ InHand(p, r) /\ Polling(p, r) /\ UNCHANGED <<row, prov, paid>>
      /\ \/ w' = [w EXCEPT ![p].pc = "settle", ![p].answer = answer]
         \/ w' = FailWith(p, "processing-timeout")
         \/ w' = Finished(p, r)
  BY DEF PollRefund, Polling, At, UnchangedByWorker
<1>2. w[p].todo[r].id = 1 /\ prov[r][1] \in Answers
  <2>1. w[p].todo[r].id # 0
    BY <1>1, Before DEF Polling, At, Knows
  <2>2. row[r].id = 1 /\ w[p].todo[r].id = 1 /\ Created(r) = {1}
    BY <1>1, <2>1, Before
  <2> QED BY <2>2, ProvType, FirstId DEF Created
<1>3. TypeOK /\ {"settle", "fail"} \subseteq Pcs /\ "processing-timeout" \in Reasons
  BY DEF IInv, Pcs, Reasons, REFUND_UNSETTLED_REASONS
<1>4. CASE w' = [w EXCEPT ![p].pc = "settle", ![p].answer = answer]
  <2> DEFINE st == [w[p] EXCEPT !.pc = "settle", !.answer = answer]
  <2>1. w[p] \in WorkerState
    BY <1>3 DEF TypeOK
  <2>2. /\ st \in WorkerState /\ st.todo = w[p].todo
        /\ st.answer = prov[r][1] /\ w' = [w EXCEPT ![p] = st]
    BY <1>2, <1>3, <1>4, <2>1 DEF WorkerState, TypeOK
  <2> HIDE DEF st
  <2>3. Told(p, r, w')
    BY <2>2 DEF Told
  <2> QED BY <1>1, <2>3, QuietStep
<1>5. CASE w' = FailWith(p, "processing-timeout")
  BY <1>1, <1>3, <1>5, ToldFail, QuietStep
<1>6. CASE w' = Finished(p, r)
  BY <1>1, <1>6, QuietStep DEF Told
<1> QED BY <1>1, <1>4, <1>5, <1>6

LEMMA FailStaleM ==
  ASSUME IInv, MInv, NEW p \in Workers, NEW r \in Refunds, FailStale(p, r)
  PROVE  MInv'
<1> DEFINE rec == Failed(row[r], "processing-stale", w[p].todo[r].attempts)
<1>1. /\ InHand(p, r) /\ UNCHANGED <<prov, paid>>
      /\ Update(r, rec, Finished(p, r), Finished(p, r))
  BY DEF FailStale, At, UnchangedByWorker
<1>2. /\ rec \in Row /\ rec.status = "failed" /\ rec.reason = "processing-stale"
  <2>1. "processing-stale" \in Reasons /\ row[r] \in Row
    BY <1>1, Before DEF Reasons, REFUND_UNSETTLED_REASONS, REFUND_MANUAL_CHECK_REASONS
  <2>2. rec \in Row
    BY <1>1, <2>1, ReadTypes, RowTypes, Constants
  <2> QED BY <2>1, <2>2 DEF Failed, Row
<1> HIDE DEF rec
<1>3. FailedFor(rec, prov[r][1])
  BY <1>2 DEF FailedFor
<1> QED BY <1>1, <1>2, <1>3, WriteStep DEF Told

LEMMA ClaimM ==
  ASSUME IInv, MInv, NEW p \in Workers, NEW r \in Refunds,
         ClaimToCreate(p, r) \/ ClaimToPoll(p, r)
  PROVE  MInv'
<1> DEFINE rec == Claimed(row[r], Attempts(w[p].todo[r]))
<1>1. /\ InHand(p, r) /\ UNCHANGED <<prov, paid>>
      /\ ClaimForProcessing(p, r, "post") \/ ClaimForProcessing(p, r, "poll")
  BY DEF ClaimToCreate, ClaimToPoll, At, UnchangedByWorker
<1>2. rec \in Row /\ rec.status = "processing"
  <2>1. row[r] \in Row /\ Attempts(w[p].todo[r]) \in 0 .. MaxCreateAttempts + 1
    BY <1>1, Before, ReadTypes
  <2>2. "none" \in Reasons /\ 0 \in 0 .. MaxPosts
    BY Constants DEF Reasons
  <2>3. rec \in Row
    BY <2>1, <2>2, RowTypes
  <2> QED BY <2>1, <2>3 DEF Claimed, Row
<1>4. ASSUME NEW pc \in {"post", "poll"}, ClaimForProcessing(p, r, pc)
      PROVE  MInv'
  <2>1. CASE row[r].status = "pending"
    <3>1. Update(r, rec, Goto(p, pc), Finished(p, r))
      BY <1>4, <2>1 DEF ClaimForProcessing
    <3>2. FailedFor(rec, prov[r][1])
      BY <1>2 DEF FailedFor
    <3>3. Told(p, r, Goto(p, pc)) /\ Told(p, r, Finished(p, r))
      <4>1. pc \in Pcs /\ pc \notin {"persist", "persist again", "settle"}
        BY DEF Pcs
      <4>2. Told(p, r, Goto(p, pc))
        BY <4>1, ToldGoto
      <4> QED BY <4>2 DEF Told
    <3> HIDE DEF rec
    <3> QED BY <1>1, <1>2, <3>1, <3>2, <3>3, WriteStep
  <2>2. CASE row[r].status # "pending"
    BY <1>1, <1>4, <2>2, QuietStep DEF ClaimForProcessing, Told
  <2> QED BY <2>1, <2>2
<1> QED BY <1>1, <1>4

\* Every reason a worker fails a refund for is one the gateway confirms.
LEMMA MarkFailedM ==
  ASSUME IInv, MInv, NEW p \in Workers, NEW r \in Refunds, MarkFailed(p, r)
  PROVE  MInv'
<1> DEFINE rec == Failed(row[r], w[p].reason, Attempts(w[p].todo[r]))
<1>1. /\ InHand(p, r) /\ w[p].pc = "fail" /\ UNCHANGED <<prov, paid>>
      /\ Update(r, rec, Finished(p, r), Finished(p, r))
  BY DEF MarkFailed, At, UnchangedByWorker
<1>2. /\ rec \in Row /\ rec.status = "failed" /\ rec.reason = w[p].reason
      /\ rec.id = row[r].id
  <2>1. row[r] \in Row /\ w[p].reason \in Reasons
    BY <1>1, Before DEF WorkerState
  <2>2. rec \in Row
    BY <1>1, <2>1, ReadTypes, RowTypes, Constants
  <2> QED BY <2>1, <2>2 DEF Failed, Row
<1> HIDE DEF rec
<1>3. Knows(p, r)
  BY <1>1, Before
<1>4. w[p].reason # "rejected"
  BY <1>1, <1>3 DEF Knows
<1>5. w[p].reason = "refused" => row[r].id = 0
  BY <1>1, <1>3, Before DEF Knows
<1>6. w[p].reason = "payment-intent-missing" => row[r].id = 0
  <2> SUFFICES ASSUME w[p].reason = "payment-intent-missing"
               PROVE  row[r].id = 0
    OBVIOUS
  <2>1. LoadFaults /\ Creating(w[p].todo[r])
    BY <1>1, <1>3 DEF Knows
  <2>2. Unclaimed(p, r)
    BY <1>1, <2>1 DEF Unclaimed, InHand, Creating
  <2> QED BY <2>1, <2>2 DEF IInv, ReadIsFresh, Fresh, Creating
<1>7. FailedFor(rec, prov[r][1])
  BY <1>2, <1>4, <1>5, <1>6 DEF FailedFor
<1> QED BY <1>1, <1>2, <1>7, WriteStep DEF Told

LEMMA ReleaseM ==
  ASSUME IInv, MInv, NEW p \in Workers, NEW r \in Refunds, ReleaseClaim(p, r)
  PROVE  MInv'
<1> DEFINE rec == Released(row[r], Attempts(w[p].todo[r]))
<1>1. /\ InHand(p, r) /\ UNCHANGED <<prov, paid>>
      /\ Update(r, rec, Finished(p, r), Finished(p, r))
  BY DEF ReleaseClaim, At, UnchangedByWorker
<1>2. rec \in Row /\ rec.status = "pending"
  <2>1. row[r] \in Row /\ Attempts(w[p].todo[r]) \in 0 .. MaxCreateAttempts + 1
    BY <1>1, Before, ReadTypes
  <2>2. "none" \in Reasons /\ 0 \in 0 .. MaxPosts
    BY Constants DEF Reasons
  <2>3. rec \in Row
    BY <2>1, <2>2, RowTypes
  <2> QED BY <2>1, <2>3 DEF Released, Row
<1> HIDE DEF rec
<1>3. FailedFor(rec, prov[r][1])
  BY <1>2 DEF FailedFor
<1> QED BY <1>1, <1>2, <1>3, WriteStep DEF Told

LEMMA MarkProcessingM ==
  ASSUME IInv, MInv, NEW p \in Workers, NEW r \in Refunds, MarkProcessing(p, r)
  PROVE  MInv'
<1> DEFINE rec == WithId(row[r], w[p].id, Attempts(w[p].todo[r]))
<1>1. /\ InHand(p, r) /\ UNCHANGED <<prov, paid>>
      /\ w[p].pc \in {"persist", "persist again"}
      /\ \/ Update(r, rec, Persisted(p, r), Goto(p, "persist again"))
         \/ Update(r, rec, Persisted(p, r), Finished(p, r))
  BY DEF MarkProcessing, NotPersisted, At, UnchangedByWorker
<1>2. rec \in Row /\ rec.status = "processing"
  <2>1. row[r] \in Row /\ w[p].id \in 0 .. MaxPosts
    BY <1>1, Before DEF WorkerState
  <2>2. Attempts(w[p].todo[r]) \in 0 .. MaxCreateAttempts + 1 /\ "none" \in Reasons
    BY <1>1, ReadTypes DEF Reasons
  <2>3. rec \in Row
    BY <2>1, <2>2, RowTypes
  <2> QED BY <2>1, <2>2, <2>3 DEF WithId, Row
<1> HIDE DEF rec
<1>3. FailedFor(rec, prov[r][1])
  BY <1>2 DEF FailedFor
<1>4. w[p].answer = "failed" => prov[r][1] = "failed"
  BY <1>1 DEF MInv, Answered, Rejecting
<1>5. /\ Told(p, r, Goto(p, "settle")) /\ Told(p, r, Goto(p, "persist again"))
      /\ Told(p, r, Finished(p, r)) /\ Told(p, r, Persisted(p, r))
  <2>1. {"settle", "persist again"} \subseteq Pcs
    BY DEF Pcs
  <2>2. Told(p, r, Goto(p, "settle")) /\ Told(p, r, Goto(p, "persist again"))
    BY <1>4, <2>1, ToldGoto
  <2>3. Told(p, r, Finished(p, r))
    BY DEF Told
  <2> QED BY <2>2, <2>3 DEF Persisted
<1> QED BY <1>1, <1>2, <1>3, <1>5, WriteStep

LEMMA SettleM ==
  ASSUME IInv, MInv, NEW p \in Workers, NEW r \in Refunds, Settle(p, r)
  PROVE  MInv'
<1>1. /\ InHand(p, r) /\ w[p].pc = "settle" /\ UNCHANGED <<prov, paid>>
  BY DEF Settle, At, UnchangedByWorker
<1>2. CASE /\ w[p].answer = "succeeded"
           /\ SettleRefund(r) \/ UNCHANGED <<row, refunded>>
           /\ w' = Finished(p, r)
  <2>1. /\ \A q \in Workers \ {p} : w'[q] = w[q]
        /\ \A s \in Refunds : ~Rejecting(p, s)'
    BY <1>1, <1>2, Rejects
  <2>2. CASE row' = row
    BY <1>1, <1>2, <2>2, QuietStep DEF Told
  <2>3. CASE row[r].status = "processing" /\ row' = [row EXCEPT ![r].status = "succeeded"]
    <3>1. row \in [Refunds -> Row] /\ row[r] \in Row
      BY DEF IInv, TypeOK
    <3>2. row'[r].status = "succeeded" /\ \A s \in Refunds \ {r} : row'[s] = row[s]
      BY <2>3, <3>1 DEF Row
    <3>3. ~ByTransfer(r)
      BY <2>3, ProvType DEF MInv, Transfers, TransferOf, ByTransfer
    <3>4. ~ByTransfer(r)'
      BY <1>1, <3>2, <3>3 DEF ByTransfer
    <3>5. MOwes(p, r)
      BY <1>1, <2>1, <3>2, <3>4 DEF MOwes, FailedFor
    <3> QED BY <3>5, MStep
  <2> QED BY <1>2, <2>2, <2>3 DEF SettleRefund
<1>3. CASE /\ w[p].answer = "failed"
           /\ Update(r, Failed(row[r], "rejected", Attempts(w[p].todo[r])),
                     Finished(p, r), Finished(p, r))
  <2> DEFINE rec == Failed(row[r], "rejected", Attempts(w[p].todo[r]))
  <2>1. rec \in Row /\ rec.status = "failed" /\ rec.reason = "rejected"
    <3>1. row[r] \in Row /\ "rejected" \in Reasons
      BY <1>1, Before DEF Reasons
    <3>2. rec \in Row
      BY <1>1, <3>1, ReadTypes, RowTypes, Constants
    <3> QED BY <3>1, <3>2 DEF Failed, Row
  <2> HIDE DEF rec
  <2>2. prov[r][1] = "failed"
    BY <1>1, <1>3 DEF MInv, Answered, Rejecting
  <2>3. FailedFor(rec, prov[r][1])
    BY <2>1, <2>2 DEF FailedFor
  <2>4. Update(r, rec, Finished(p, r), Finished(p, r))
    BY <1>3 DEF rec
  <2> QED BY <1>1, <2>1, <2>3, <2>4, WriteStep DEF Told
<1> QED BY <1>2, <1>3 DEF Settle

\* The gateway is asked only for a refund it does not have, whose row no
\* transfer will settle; what the worker then knows is what the gateway has.
LEMMA PostFacts ==
  ASSUME IInv, MInv, NEW p \in Workers, NEW r \in Refunds, Post(p, r)
  PROVE  /\ InHand(p, r) /\ Created(r) = {} /\ ~ByTransfer(r)
         /\ UNCHANGED <<row, paid>>
         /\ \A k \in Ids : prov[r][k] = "none"
         /\ \/ UNCHANGED prov
            \/ \E st \in Answers :
                  prov' = [prov EXCEPT ![r] = [prov[r] EXCEPT ![1] = st]]
<1>1. /\ InHand(p, r) /\ w[p].pc = "post" /\ Posting(p, r)
      /\ UNCHANGED <<row, paid>>
      /\ UNCHANGED prov \/ \E st \in Answers : Create(r, st)
  BY DEF Post, At, Posting, UnchangedByWorker, Answers
<1>2. Created(r) = {} /\ row[r].id = 0
  <2>1. Created(r) = {}
    BY <1>1, Before DEF Knows
  <2> QED BY <1>1, <2>1, Before
<1>3. NextId(r) = 1
  BY <1>2, NextIdLemma DEF IInv
<1>4. ~ByTransfer(r)
  <2>1. row[r].status \in {"processing", "failed"}
    BY <1>1, <1>2, PosterAlone DEF Held
  <2> QED BY <2>1, ProvType DEF MInv, Transfers, TransferOf, ByTransfer
<1>5. \A st \in Answers : Create(r, st) =>
         prov' = [prov EXCEPT ![r] = [prov[r] EXCEPT ![1] = st]]
  BY <1>3 DEF Create
<1>6. \A k \in Ids : prov[r][k] = "none"
  BY <1>2 DEF Created
<1> QED BY <1>1, <1>2, <1>4, <1>5, <1>6

LEMMA PostM ==
  ASSUME IInv, MInv, NEW p \in Workers, NEW r \in Refunds, Post(p, r)
  PROVE  MInv'
<1>1. /\ InHand(p, r) /\ ~ByTransfer(r) /\ UNCHANGED <<row, paid>>
      /\ prov[r][1] = "none"
  BY PostFacts, FirstId
<1>2. ~ByTransfer(r)' /\ FailedFor(row[r], prov'[r][1])
  BY <1>1 DEF ByTransfer, MInv, Failures, FailedFor
<1>3. TypeOK /\ w[p] \in WorkerState /\ prov[r] \in [Ids -> {"none"} \cup Answers]
      /\ prov \in [Refunds -> [Ids -> {"none"} \cup Answers]]
  BY ProvType DEF IInv, TypeOK
<1>4. CASE \E a \in Answers :
              /\ Create(r, a)
              /\ w' = [w EXCEPT ![p].pc = "persist", ![p].id = NextId(r), ![p].answer = a]
  <2>1. PICK a \in Answers :
           /\ Create(r, a)
           /\ w' = [w EXCEPT ![p].pc = "persist", ![p].id = NextId(r), ![p].answer = a]
    BY <1>4
  <2>2. NextId(r) = 1
    BY PostFacts, NextIdLemma DEF IInv
  <2>3. prov'[r][1] = a /\ \A s \in Refunds \ {r} : prov'[s] = prov[s]
    BY <2>1, <2>2, <1>3, FirstId DEF Create
  <2> DEFINE st == [w[p] EXCEPT !.pc = "persist", !.id = 1, !.answer = a]
  <2>4. st \in WorkerState /\ st.todo = w[p].todo /\ st.answer = a
    <3>1. 1 \in 0 .. MaxPosts /\ "persist" \in Pcs
      BY Constants DEF Pcs
    <3> QED BY <1>3, <3>1 DEF WorkerState
  <2>5. w' = [w EXCEPT ![p] = st]
    <3>1. w \in [Workers -> WorkerState]
      BY <1>3 DEF TypeOK
    <3>2. w' = [[[w EXCEPT ![p].pc = "persist"] EXCEPT ![p].id = 1]
                   EXCEPT ![p].answer = a]
      BY <2>1, <2>2, <3>1
    <3> QED BY <3>1, <3>2
  <2> HIDE DEF st
  <2>6. /\ \A q \in Workers \ {p} : w'[q] = w[q]
        /\ \A s \in Refunds : Rejecting(p, s)' => s = r /\ a = "failed"
    BY <1>1, <2>4, <2>5, Rejects
  <2>7. MOwes(p, r)
    BY <1>1, <1>2, <2>3, <2>6 DEF MOwes
  <2> QED BY <2>7, MStep
<1>5. CASE /\ UNCHANGED prov \/ Create(r, "pending")
           /\ \/ w' = FailWith(p, "refused")
              \/ w' = FailWith(p, "ambiguous-timeout")
              \/ w' = Goto(p, "release")
  <2>1. \E st \in WorkerState :
           w' = [w EXCEPT ![p] = st] /\ st.todo = w[p].todo
             /\ st.pc \in {"fail", "release"}
    <3>1. {"refused", "ambiguous-timeout"} \subseteq Reasons /\ "release" \in Pcs
      BY DEF Reasons, Pcs, REFUND_UNSETTLED_REASONS, REFUND_MANUAL_CHECK_REASONS
    <3>2. CASE w' = Goto(p, "release")
      BY <1>3, <3>1, <3>2, GotoLemma
    <3>3. CASE w' = FailWith(p, "refused")
      BY <1>3, <3>1, <3>3, FailWithLemma
    <3>4. CASE w' = FailWith(p, "ambiguous-timeout")
      BY <1>3, <3>1, <3>4, FailWithLemma
    <3> QED BY <1>5, <3>2, <3>3, <3>4
  <2>2. PICK st \in WorkerState :
           w' = [w EXCEPT ![p] = st] /\ st.todo = w[p].todo
             /\ st.pc \in {"fail", "release"}
    BY <2>1
  <2>3. /\ \A q \in Workers \ {p} : w'[q] = w[q]
        /\ \A s \in Refunds : ~Rejecting(p, s)'
    BY <1>1, <2>2, Rejects
  <2>4. \A s \in Refunds \ {r} : prov'[s] = prov[s]
    BY <1>3, <1>5 DEF Create
  <2>5. MOwes(p, r)
    BY <1>1, <1>2, <2>3, <2>4 DEF MOwes
  <2> QED BY <2>5, MStep
<1> QED BY <1>4, <1>5 DEF Post

-----------------------------------------------------------------------------
(* The other steps.                                                        *)

LEMMA OuterM ==
  ASSUME MInv, NEW r \in Refunds,
         \A q \in Workers, s \in Refunds : Rejecting(q, s)' => Rejecting(q, s),
         \A s \in Refunds \ {r} : row'[s] = row[s] /\ prov'[s] = prov[s]
                                    /\ paid'[s] = paid[s],
         prov[r][1] = "failed" => prov'[r][1] = "failed",
         FailedFor(row'[r], prov'[r][1]), TransferOf(r)'
  PROVE  MInv'
<1>1. Failures'
  BY DEF MInv, Failures
<1>2. Answered'
  BY DEF MInv, Answered
<1>3. ASSUME NEW s \in Refunds
      PROVE  TransferOf(s)'
  <2>1. CASE s # r
    BY <2>1 DEF MInv, Transfers, TransferOf, ByTransfer, Live
  <2> QED BY <2>1
<1> QED BY <1>1, <1>2, <1>3 DEF MInv, Transfers

LEMMA StillM ==
  ASSUME MInv, UNCHANGED <<row, prov, paid>>,
         \A q \in Workers, s \in Refunds : Rejecting(q, s)' => Rejecting(q, s)
  PROVE  MInv'
  BY DEF MInv, Failures, Answered, Transfers, TransferOf, ByTransfer, Live

\* A cycle that starts and a process that ends reject nothing.
LEMMA CycleM ==
  ASSUME IInv, MInv, NEW p \in Workers, FetchActiveRefunds(p) \/ Crash(p)
  PROVE  MInv'
<1>1. w \in [Workers -> WorkerState] /\ UNCHANGED <<row, prov, paid>>
  BY DEF IInv, TypeOK, FetchActiveRefunds, Crash, UnchangedByWorker
<1>2. w'[p].pc = "item" /\ \A q \in Workers \ {p} : w'[q] = w[q]
  <2>1. CASE FetchActiveRefunds(p)
    <3>1. w[p].pc = "item"
      BY <2>1 DEF FetchActiveRefunds, Idle
    <3> QED BY <1>1, <2>1, <3>1 DEF FetchActiveRefunds, WorkerState
  <2>2. CASE Crash(p)
    BY <1>1, <2>2 DEF Crash, Idle
  <2> QED BY <2>1, <2>2
<1>3. \A q \in Workers, s \in Refunds : Rejecting(q, s)' => Rejecting(q, s)
  BY <1>2 DEF Rejecting, InHand
<1> QED BY <1>1, <1>3, StillM

LEMMA SameWorkers ==
  ASSUME UNCHANGED w
  PROVE  \A q \in Workers, s \in Refunds : Rejecting(q, s)' => Rejecting(q, s)
  BY DEF Rejecting, InHand

LEMMA RetryM ==
  ASSUME IInv, MInv, NEW s \in Staff,
         RetryWrites(s) \/ \E r \in Refunds : RetryReads(s, r)
  PROVE  MInv'
<1>1. CASE \E r \in Refunds : RetryReads(s, r)
  BY <1>1, StillM, SameWorkers DEF RetryReads
<1>2. CASE RetryWrites(s)
  <2>1. /\ UNCHANGED <<prov, paid, w>>
        /\ row' = IF StillFailed(panel[s].refund)
                  THEN [row EXCEPT ![panel[s].refund] = Retried(@, panel[s].target)]
                  ELSE row
    BY <1>2 DEF RetryWrites
  <2>2. row \in [Refunds -> Row] /\ panel[s].target \in {"failed", "pending", "processing"}
    BY DEF IInv, TypeOK
  <2>3. CASE row' = row
    BY <2>1, <2>3, StillM, SameWorkers
  <2>4. ASSUME NEW r \in Refunds, panel[s].refund = r, StillFailed(r)
        PROVE  MInv'
    <3> DEFINE rec == Retried(row[r], panel[s].target)
    <3>1. rec.status = panel[s].target /\ rec.reason = "none"
      BY <2>2 DEF Retried, Row
    <3>2. row'[r] = rec /\ \A q \in Refunds \ {r} : row'[q] = row[q]
      BY <2>1, <2>2, <2>4
    <3>3. ~ByTransfer(r)
      BY <2>4, ProvType DEF MInv, Transfers, TransferOf, ByTransfer, StillFailed
    <3> HIDE DEF rec
    <3>4. FailedFor(row'[r], prov'[r][1])
      BY <3>1, <3>2 DEF FailedFor
    <3>5. ~ByTransfer(r)'
      BY <2>1, <2>2, <3>1, <3>2, <3>3 DEF ByTransfer
    <3> QED BY <2>1, <3>2, <3>4, <3>5, OuterM, SameWorkers DEF TransferOf
  <2> QED BY <2>1, <2>2, <2>3, <2>4
<1> QED BY <1>1, <1>2

\* A transfer is asked for when the gateway cannot pay: there is no refund, or
\* the gateway has rejected it.
LEMMA RequestM ==
  ASSUME IInv, MInv, NEW r \in Refunds, RequestRefundTransfer(r)
  PROVE  MInv'
<1>1. /\ row[r].status = "failed" /\ ~ProviderMaySettle(row[r])
      /\ row' = [row EXCEPT ![r].status = "awaiting_transfer"]
      /\ UNCHANGED <<prov, paid, w>>
  BY DEF RequestRefundTransfer
<1>2. row \in [Refunds -> Row] /\ row[r] \in Row
  BY DEF IInv, TypeOK
<1>3. row'[r].status = "awaiting_transfer" /\ \A q \in Refunds \ {r} : row'[q] = row[q]
  BY <1>1, <1>2 DEF Row
<1>4. Live(r) = {}
  <2>1. CASE row[r].reason = "rejected"
    <3>1. prov[r][1] = "failed"
      BY <1>1, <2>1 DEF MInv, Failures, FailedFor
    <3> QED BY <3>1, ProvType
  <2>2. CASE row[r].reason # "rejected"
    <3>1. row[r].reason = "payment-intent-missing" /\ row[r].id = 0
      BY <1>1, <1>2, <2>2 DEF MInv, Failures, FailedFor, ProviderMaySettle, Row, Reasons
    <3>2. Created(r) = {}
      BY <3>1, <1>1 DEF IInv, UnknownKept, Sighted, REFUND_MANUAL_CHECK_REASONS
    <3> QED BY <3>2 DEF Created, Live
  <2> QED BY <2>1, <2>2
<1>5. paid[r] = 0
  BY <1>1, ProvType DEF MInv, Transfers, TransferOf, ByTransfer
<1>6. TransferOf(r)' /\ FailedFor(row'[r], prov'[r][1])
  BY <1>1, <1>3, <1>4, <1>5 DEF TransferOf, Live, FailedFor
<1> QED BY <1>1, <1>3, <1>6, OuterM, SameWorkers

LEMMA SettleTransferM ==
  ASSUME IInv, MInv, NEW r \in Refunds, SettleRefundTransfer(r)
  PROVE  /\ MInv'
         /\ paid[r] = 0 /\ Live(r) = {}
         /\ paid'[r] = 1 /\ \A q \in Refunds \ {r} : paid'[q] = paid[q]
<1>1. /\ row[r].status = "awaiting_transfer"
      /\ row' = [row EXCEPT ![r].status = "succeeded"]
      /\ paid' = [paid EXCEPT ![r] = @ + 1]
      /\ UNCHANGED <<prov, w>>
  BY DEF SettleRefundTransfer
<1>2. row \in [Refunds -> Row] /\ row[r] \in Row /\ paid \in [Refunds -> Nat]
  BY DEF IInv, TypeOK
<1>3. Live(r) = {} /\ paid[r] = 0
  BY <1>1, ProvType DEF MInv, Transfers, TransferOf, ByTransfer
<1>4. /\ row'[r].status = "succeeded" /\ paid'[r] = 1
      /\ \A q \in Refunds \ {r} : row'[q] = row[q] /\ paid'[q] = paid[q]
  BY <1>1, <1>2, <1>3 DEF Row
<1>5. TransferOf(r)' /\ FailedFor(row'[r], prov'[r][1])
  BY <1>1, <1>3, <1>4 DEF TransferOf, Live, FailedFor
<1> QED BY <1>1, <1>3, <1>4, <1>5, OuterM, SameWorkers

LEMMA TimeM ==
  ASSUME IInv, MInv, NEW r \in Refunds, Ages(r) \/ BackoffElapses(r)
  PROVE  MInv'
<1>1. CASE Ages(r)
  BY <1>1, StillM, SameWorkers DEF Ages
<1>2. CASE BackoffElapses(r)
  <2>1. /\ row[r].status = "pending" /\ UNCHANGED <<prov, paid, w>>
        /\ row' = [row EXCEPT ![r].waited = TRUE]
    BY <1>2 DEF BackoffElapses
  <2>2. row \in [Refunds -> Row] /\ row[r] \in Row
    BY DEF IInv, TypeOK
  <2>3. row'[r].status = "pending" /\ \A q \in Refunds \ {r} : row'[q] = row[q]
    BY <2>1, <2>2 DEF Row
  <2>4. ~ByTransfer(r)
    BY <2>1, ProvType DEF MInv, Transfers, TransferOf, ByTransfer
  <2>5. TransferOf(r)' /\ FailedFor(row'[r], prov'[r][1])
    BY <2>1, <2>3, <2>4 DEF TransferOf, FailedFor, ByTransfer
  <2> QED BY <2>1, <2>3, <2>5, OuterM, SameWorkers
<1> QED BY <1>1, <1>2

\* The gateway settles the one refund it has, which no transfer settles.
LEMMA GatewayM ==
  ASSUME IInv, MInv, NEW r \in Refunds, NEW k \in Ids, GatewaySettles(r, k)
  PROVE  /\ MInv'
         /\ prov[r][1] = "pending" /\ paid[r] = 0 /\ paid' = paid
         /\ \A q \in Refunds \ {r} : prov'[q] = prov[q]
         /\ prov'[r][1] \in {"succeeded", "failed"}
         /\ \A j \in Ids \ {1} : prov'[r][j] = prov[r][j]
<1>1. PICK st \in {"succeeded", "failed"} : prov' = [prov EXCEPT ![r][k] = st]
  BY DEF GatewaySettles
<1>2. prov[r][k] = "pending" /\ UNCHANGED <<row, paid, w>>
  BY DEF GatewaySettles
<1>3. k = 1 /\ prov[r][1] = "pending"
  BY <1>2, ProvType
<1>4. prov \in [Refunds -> [Ids -> {"none"} \cup Answers]]
  BY DEF IInv, TypeOK
<1>5. /\ prov'[r][1] = st
      /\ \A j \in Ids \ {1} : prov'[r][j] = prov[r][j]
      /\ \A q \in Refunds \ {r} : prov'[q] = prov[q]
  BY <1>1, <1>3, <1>4, FirstId
<1>6. ~ByTransfer(r)
  BY <1>3, ProvType DEF MInv, Transfers, TransferOf
<1>7. TransferOf(r)' /\ FailedFor(row'[r], prov'[r][1])
  BY <1>2, <1>3, <1>6 DEF TransferOf, ByTransfer, FailedFor, MInv, Failures
<1>8. MInv'
  BY <1>2, <1>3, <1>5, <1>7, OuterM, SameWorkers
<1>9. paid[r] = 0
  BY <1>6, ProvType DEF ByTransfer
<1> QED BY <1>2, <1>3, <1>5, <1>8, <1>9

-----------------------------------------------------------------------------
(* What the rows and the workers know of the money is an invariant.        *)

LEMMA InitM ==
  ASSUME Init, IInv
  PROVE  MInv
<1>1. /\ \A r \in Refunds : row[r].status = "pending"
      /\ \A r \in Refunds : paid[r] = 0
      /\ \A p \in Workers : w[p].pc = "item"
  BY DEF Init, NewRow, Idle
<1>2. Failures /\ Answered
  BY <1>1 DEF Failures, FailedFor, Answered, Rejecting
<1>3. Transfers
  BY <1>1 DEF Transfers, TransferOf, ByTransfer
<1> QED BY <1>2, <1>3 DEF MInv

LEMMA NextM ==
  ASSUME IInv, MInv, [Next]_vars
  PROVE  MInv'
<1>1. ASSUME NEW p \in Workers, NEW r \in Refunds, ProcessOne(p, r)
      PROVE  MInv'
  BY <1>1, SkipM, FailStaleM, LoadM, ClaimM, PostM, MarkFailedM, ReleaseM,
     MarkProcessingM, PollM, SettleM DEF ProcessOne
<1>2. ASSUME NEW p \in Workers, ProcessRefunds(p) \/ Crash(p)
      PROVE  MInv'
  BY <1>1, <1>2, CycleM DEF ProcessRefunds
<1>3. CASE Panel
  BY <1>3, RetryM, RequestM, SettleTransferM DEF Panel
<1>4. CASE \E r \in Refunds : Ages(r) \/ BackoffElapses(r)
  BY <1>4, TimeM
<1>5. CASE \E r \in Refunds, k \in Ids : GatewaySettles(r, k)
  BY <1>5, GatewayM
<1>6. CASE UNCHANGED vars
  BY <1>6, StillM, SameWorkers DEF vars
<1> QED BY <1>2, <1>3, <1>4, <1>5, <1>6 DEF Next

-----------------------------------------------------------------------------
(* The steps of the abstract specification.                                *)

\* What the refunds the gateway has for one row say, when only the first is one.
LEMMA OnlyFirst ==
  ASSUME NEW f \in [Ids -> {"none"} \cup Answers],
         \A k \in Ids : f[k] # "none" => k = 1
  PROVE  /\ f[1] \in {"none", "pending", "succeeded", "failed"}
         /\ {k \in Ids : f[k] # "none"} = IF f[1] = "none" THEN {} ELSE {1}
         /\ \A st \in Answers : (\E k \in Ids : f[k] = st) <=> f[1] = st
  BY FirstId DEF Answers

LEMMA Counts == Cardinality({}) = 0 /\ Cardinality({1}) = 1
  BY FS_EmptySet, FS_Singleton

\* What the abstract state is, while there is at most one refund.
AbstractOf(r, first, byTransfer, a, m) ==
    /\ first = "none" => a = 0
    /\ first # "none" => a = 1
    /\ byTransfer = 1 /\ first \in {"none", "failed"} => m = "by transfer"
    /\ byTransfer = 0 =>
          /\ first = "none"      => m = "owed"
          /\ first = "pending"   => m = "under way"
          /\ first = "failed"    => m = "refused"
          /\ first = "succeeded" => m = "by card"

LEMMA Abstract ==
  ASSUME IInv, NEW r \in Refunds
  PROVE  AbstractOf(r, prov[r][1], paid[r], Asked[r], Money[r])
<1>1. /\ prov[r][1] \in {"none", "pending", "succeeded", "failed"}
      /\ Created(r) = IF prov[r][1] = "none" THEN {} ELSE {1}
      /\ \A st \in Answers : Has(r, st) <=> prov[r][1] = st
  BY ProvType, OnlyFirst DEF Has, Created
<1>2. Asked[r] = Cardinality(Created(r)) /\ Money[r] = Outcome(r)
  BY DEF Asked, Money
<1>3. /\ paid[r] = 0 => ~(paid[r] > 0) /\ ~(paid[r] > 1)
      /\ paid[r] = 1 => paid[r] > 0 /\ ~(paid[r] > 1)
  BY ProvType
<1> QED BY <1>3, <1>1, <1>2, Counts DEF AbstractOf, Outcome, Answers

\* The same of the state a step leads to.
LEMMA AbstractNext ==
  ASSUME IInv', NEW r \in Refunds
  PROVE  AbstractOf(r, prov'[r][1], paid'[r], Asked'[r], Money'[r])
<1>1. /\ prov'[r] \in [Ids -> {"none"} \cup Answers]
      /\ \A k \in Ids : prov'[r][k] # "none" => k = 1
  BY DEF IInv, TypeOK, FirstIds, Created
<1>2. /\ prov'[r][1] \in {"none", "pending", "succeeded", "failed"}
      /\ Created(r)' = IF prov'[r][1] = "none" THEN {} ELSE {1}
      /\ \A st \in Answers : Has(r, st)' <=> prov'[r][1] = st
  BY <1>1, OnlyFirst DEF Has, Created
<1>3. Asked'[r] = Cardinality(Created(r)') /\ Money'[r] = Outcome(r)'
  BY DEF Asked, Money
<1>4. /\ paid'[r] = 0 => ~(paid'[r] > 0) /\ ~(paid'[r] > 1)
      /\ paid'[r] = 1 => paid'[r] > 0 /\ ~(paid'[r] > 1)
  BY DEF IInv, TypeOK
<1> QED BY <1>4, <1>2, <1>3, Counts DEF AbstractOf, Outcome, Answers

LEMMA Stutter ==
  ASSUME UNCHANGED <<prov, paid>>
  PROVE  UNCHANGED <<Asked, Money>>
  BY DEF Asked, Money, Outcome, Has, Created

\* A step that concerns one refund.
LEMMA OneChanges ==
  ASSUME NEW r \in Refunds,
         \A q \in Refunds \ {r} : prov'[q] = prov[q] /\ paid'[q] = paid[q]
  PROVE  /\ Asked' = [Asked EXCEPT ![r] = Asked'[r]]
         /\ Money' = [Money EXCEPT ![r] = Money'[r]]
<1>1. \A q \in Refunds \ {r} : Created(q)' = Created(q) /\ Outcome(q)' = Outcome(q)
  BY DEF Created, Outcome, Has
<1> QED BY <1>1 DEF Asked, Money

LEMMA InitPromise ==
  ASSUME Init, IInv
  PROVE  Promise!MoneyInit
<1>1. \A r \in Refunds : prov[r][1] \in {"none", "pending"} /\ paid[r] = 0
  BY FirstId DEF Init
<1>2. \A r \in Refunds :
         /\ Asked[r] \in {0, 1}
         /\ Money[r] = IF Asked[r] = 0 THEN "owed" ELSE "under way"
  <2> TAKE r \in Refunds
  <2>1. AbstractOf(r, prov[r][1], paid[r], Asked[r], Money[r])
    BY Abstract
  <2>2. CASE prov[r][1] = "none"
    BY <1>1, <2>1, <2>2 DEF AbstractOf
  <2>3. CASE prov[r][1] = "pending"
    <3>1. Asked[r] = 1 /\ Money[r] = "under way"
      BY <1>1, <2>1, <2>3 DEF AbstractOf
    <3>2. 1 # 0 /\ 1 \in {0, 1}
      OBVIOUS
    <3> QED BY <3>1, <3>2, Zenon
  <2> QED BY <1>1, <2>2, <2>3
<1>3. Asked = [r \in Refunds |-> Asked[r]] /\ Money = [r \in Refunds |-> Money[r]]
  BY DEF Asked, Money
<1> QED BY <1>2, <1>3 DEF Promise!MoneyInit

\* The POST is the one that asks the gateway.
LEMMA PostPromise ==
  ASSUME IInv, IInv', MInv, NEW p \in Workers, NEW r \in Refunds, Post(p, r)
  PROVE  Promise!Ask(r) \/ UNCHANGED <<Asked, Money>>
<1>1. CASE UNCHANGED prov
  BY <1>1, PostFacts, Stutter
<1>2. CASE ~UNCHANGED prov
  <2>1. PICK st \in Answers : prov' = [prov EXCEPT ![r] = [prov[r] EXCEPT ![1] = st]]
    BY <1>2, PostFacts
  <2>2. /\ prov[r][1] = "none" /\ paid[r] = 0 /\ paid' = paid
        /\ prov'[r][1] = st /\ \A q \in Refunds \ {r} : prov'[q] = prov[q]
    BY <2>1, PostFacts, ProvType, FirstId DEF IInv, TypeOK, ByTransfer
  <2>3. Asked[r] = 0 /\ Money[r] = "owed"
    BY <2>2, Abstract DEF AbstractOf
  <2>4. Asked'[r] = 1 /\ Money'[r] \in {"under way", "by card", "refused"}
    BY <2>2, AbstractNext DEF AbstractOf, Answers
  <2> QED BY <2>2, <2>3, <2>4, OneChanges DEF Promise!Ask
<1> QED BY <1>1, <1>2

LEMMA GatewayPromise ==
  ASSUME IInv, IInv', MInv, NEW r \in Refunds, NEW k \in Ids, GatewaySettles(r, k)
  PROVE  Promise!GatewayAnswers(r)
<1>1. /\ prov[r][1] = "pending" /\ paid[r] = 0 /\ paid' = paid
      /\ \A q \in Refunds \ {r} : prov'[q] = prov[q]
      /\ prov'[r][1] \in {"succeeded", "failed"}
  BY GatewayM
<1>2. Asked[r] = 1 /\ Money[r] = "under way"
  BY <1>1, Abstract DEF AbstractOf
<1>3. Asked'[r] = 1 /\ Money'[r] \in {"by card", "refused"}
  BY <1>1, AbstractNext DEF AbstractOf
<1>4. /\ Asked' = [Asked EXCEPT ![r] = Asked'[r]]
      /\ Money' = [Money EXCEPT ![r] = Money'[r]]
  BY <1>1, OneChanges
<1>5. Asked' = Asked
  BY <1>2, <1>3, <1>4 DEF Asked
<1> QED BY <1>2, <1>3, <1>4, <1>5 DEF Promise!GatewayAnswers

LEMMA TransferPromise ==
  ASSUME IInv, IInv', MInv, NEW r \in Refunds, SettleRefundTransfer(r)
  PROVE  Promise!Transfer(r)
<1>1. /\ paid[r] = 0 /\ Live(r) = {} /\ paid'[r] = 1 /\ prov' = prov
      /\ \A q \in Refunds \ {r} : paid'[q] = paid[q]
  BY SettleTransferM DEF SettleRefundTransfer
<1>2. prov[r][1] \in {"none", "failed"}
  BY <1>1, ProvType, FirstId DEF Answers
<1>3. Money[r] \in {"owed", "refused"}
  BY <1>1, <1>2, Abstract DEF AbstractOf
<1>4. Money'[r] = "by transfer"
  BY <1>1, <1>2, AbstractNext DEF AbstractOf
<1>5. Asked' = Asked
  BY <1>1 DEF Asked, Created
<1>6. Money' = [Money EXCEPT ![r] = Money'[r]]
  BY <1>1, OneChanges
<1> QED BY <1>3, <1>4, <1>5, <1>6 DEF Promise!Transfer

LEMMA NextPromise ==
  ASSUME IInv, IInv', MInv, [Next]_vars
  PROVE  [Promise!MoneyNext]_<<Asked, Money>>
<1>1. ASSUME NEW p \in Workers, NEW r \in Refunds, ProcessOne(p, r)
      PROVE  \/ \E q \in Refunds : Promise!Ask(q)
             \/ UNCHANGED <<Asked, Money>>
  <2>1. CASE Post(p, r)
    BY <2>1, PostPromise
  <2>2. CASE ~Post(p, r)
    <3>1. UNCHANGED <<prov, paid>>
      BY <1>1, <2>2 DEF ProcessOne, Skip, FailStale, LoadPaymentIntentId,
         ClaimToCreate, ReleaseClaim, MarkFailed, MarkProcessing, ClaimToPoll,
         PollRefund, Settle, UnchangedByWorker
    <3> QED BY <3>1, Stutter
  <2> QED BY <2>1, <2>2
<1>2. ASSUME NEW p \in Workers, ProcessRefunds(p) \/ Crash(p)
      PROVE  \/ \E q \in Refunds : Promise!Ask(q)
             \/ UNCHANGED <<Asked, Money>>
  <2>1. CASE FetchActiveRefunds(p) \/ Crash(p)
    <3>1. UNCHANGED <<prov, paid>>
      BY <2>1 DEF FetchActiveRefunds, Crash, UnchangedByWorker
    <3> QED BY <3>1, Stutter
  <2>2. CASE \E r \in Refunds : ProcessOne(p, r)
    BY <1>1, <2>2
  <2> QED BY <1>2, <2>1, <2>2 DEF ProcessRefunds
<1>3. CASE Panel
  <2>1. CASE \E r \in Refunds : SettleRefundTransfer(r)
    BY <2>1, TransferPromise DEF Promise!MoneyNext
  <2>2. CASE ~\E r \in Refunds : SettleRefundTransfer(r)
    <3>1. UNCHANGED <<prov, paid>>
      BY <1>3, <2>2 DEF Panel, RetryReads, RetryWrites, RequestRefundTransfer
    <3> QED BY <3>1, Stutter
  <2> QED BY <2>1, <2>2
<1>4. CASE \E r \in Refunds : Ages(r) \/ BackoffElapses(r)
  <2>1. UNCHANGED <<prov, paid>>
    BY <1>4 DEF Ages, BackoffElapses
  <2> QED BY <2>1, Stutter
<1>5. CASE \E r \in Refunds, k \in Ids : GatewaySettles(r, k)
  BY <1>5, GatewayPromise DEF Promise!MoneyNext
<1>6. CASE UNCHANGED vars
  BY <1>6, Stutter DEF vars
<1> QED BY <1>2, <1>3, <1>4, <1>5, <1>6 DEF Next, Promise!MoneyNext

-----------------------------------------------------------------------------
(* The results.                                                            *)

THEOREM RefundsMoneyInvariant ==
  ASSUME OneSession, SafeLoads
  PROVE  Spec => []MInv
<1>1. Init => MInv
  BY InitInv, InitM
<1>2. IInv /\ MInv /\ [Next]_vars => MInv'
  BY NextM
<1> QED BY <1>1, <1>2, RefundsInvariant, PTL DEF Spec

\* While a refund goes by bank transfer the gateway can no longer pay it.
THEOREM RefundsTransferIsLast ==
  ASSUME OneSession, SafeLoads
  PROVE  Spec => []TransferIsLast
<1>1. MInv => TransferIsLast
  BY DEF MInv, Transfers, TransferOf, ByTransfer, TransferIsLast
<1> QED BY <1>1, RefundsMoneyInvariant, PTL

\* The queue implements MoneyBack, for any number of refunds, of workers that
\* overlap, of lost calls and of processes that die.
THEOREM RefundsPromiseKept ==
  ASSUME OneSession, SafeLoads
  PROVE  Spec => PromiseKept
<1>1. Init => Promise!MoneyInit
  BY InitInv, InitPromise
<1>2. IInv /\ IInv' /\ MInv /\ [Next]_vars => [Promise!MoneyNext]_<<Asked, Money>>
  BY NextPromise
<1> QED BY <1>1, <1>2, RefundsInvariant, RefundsMoneyInvariant, PTL
        DEF Spec, PromiseKept, Promise!MoneySpec

\* TransferOfferedWhenOver: the panel, which decides by the words and the id in
\* the row, offers a transfer only of a refund that the gateway cannot pay, and
\* something for every refund that the job has left (toRefund, RefundSection).
THEOREM RefundsTransferOfferedWhenOver ==
  ASSUME OneSession, SafeLoads
  PROVE  Spec => []TransferOfferedWhenOver
<1>1. ASSUME IInv, MInv, NEW r \in Refunds, "request transfer" \in Offers(r)
      PROVE  Live(r) = {}
  <2>1. TransferAllowed(row[r])
    BY <1>1 DEF Offers
  <2>2. /\ row[r].status = "failed"
        /\ row[r].reason \in {"payment-intent-missing", "refused", "rejected"}
        /\ row[r].id # 0 \/ row[r].reason = "payment-intent-missing"
    BY <1>1, <2>1, ProvType DEF TransferAllowed, Row, Reasons
  <2>3. FailedFor(row[r], prov[r][1])
    BY <1>1 DEF MInv, Failures
  <2>4. CASE row[r].reason = "rejected"
    <3>1. prov[r][1] = "failed"
      BY <2>2, <2>3, <2>4 DEF FailedFor
    <3> QED BY <1>1, <3>1, ProvType
  <2>5. CASE row[r].reason # "rejected"
    <3>1. row[r].id = 0 /\ row[r].reason = "payment-intent-missing"
      BY <2>2, <2>3, <2>5 DEF FailedFor
    <3>2. Created(r) = {}
      BY <1>1, <2>2, <3>1 DEF IInv, UnknownKept, Sighted,
         REFUND_MANUAL_CHECK_REASONS
    <3> QED BY <3>2 DEF Live, Created
  <2> QED BY <2>4, <2>5
<1>2. ASSUME IInv, NEW r \in Refunds,
             row[r].status \notin Queued \cup {"succeeded"}
      PROVE  NeedsAction(r) /\ Offers(r) # {}
  <2>1. row[r].status \in {"failed", "awaiting_transfer"}
    BY <1>2, ProvType DEF Row, Statuses
  <2> QED BY <2>1 DEF NeedsAction, Offers
<1>3. IInv /\ MInv => TransferOfferedWhenOver
  BY <1>1, <1>2 DEF TransferOfferedWhenOver
<1> QED BY <1>3, RefundsInvariant, RefundsMoneyInvariant, PTL

\* PaidOnce: nobody gets the money back twice, neither by two refunds, nor by
\* two transfers, nor by one of each.
THEOREM RefundsPaidOnce ==
  ASSUME OneSession, SafeLoads
  PROVE  Spec => []PaidOnce
<1> DEFINE OneTransfer == \A r \in Refunds : paid[r] <= 1
<1>1. Init => OneTransfer
  BY DEF Init
<1>2. ASSUME IInv, MInv, OneTransfer, [Next]_vars PROVE OneTransfer'
  <2>1. CASE paid' = paid
    BY <1>2, <2>1
  <2>2. ASSUME NEW r \in Refunds, SettleRefundTransfer(r)
        PROVE  OneTransfer'
    <3>1. TransferOf(r) /\ ByTransfer(r) /\ row[r].status = "awaiting_transfer"
      BY <1>2, <2>2 DEF MInv, Transfers, SettleRefundTransfer, ByTransfer
    <3>2. paid \in [Refunds -> Nat] /\ ~(paid[r] > 0)
      BY <1>2, <3>1 DEF TransferOf, IInv, TypeOK
    <3>3. paid[r] = 0
      BY <3>2
    <3>4. paid' = [paid EXCEPT ![r] = @ + 1]
      BY <2>2 DEF SettleRefundTransfer
    <3> QED BY <1>2, <3>2, <3>3, <3>4
  <2>3. ASSUME NEW p \in Workers, ProcessRefunds(p) PROVE paid' = paid
    BY <2>3 DEF ProcessRefunds, FetchActiveRefunds, ProcessOne, Skip, FailStale,
       LoadPaymentIntentId, ClaimToCreate, Post, MarkFailed, ReleaseClaim,
       MarkProcessing, ClaimToPoll, PollRefund, Settle, UnchangedByWorker
  <2>4. ASSUME NEW p \in Workers, Crash(p) PROVE paid' = paid
    BY <2>4 DEF Crash, UnchangedByWorker
  <2>5. ASSUME Panel
        PROVE  paid' = paid \/ \E r \in Refunds : SettleRefundTransfer(r)
    BY <2>5 DEF Panel, RetryWrites, RetryReads, RequestRefundTransfer
  <2>6. ASSUME NEW r \in Refunds, \/ Ages(r) \/ BackoffElapses(r)
                                 \/ \E k \in Ids : GatewaySettles(r, k)
        PROVE  paid' = paid
    BY <2>6 DEF Ages, BackoffElapses, GatewaySettles
  <2>7. CASE UNCHANGED vars
    BY <1>2, <2>7 DEF vars
  <2>8. CASE Next
    BY <2>1, <2>2, <2>3, <2>4, <2>5, <2>6, <2>8 DEF Next
  <2> QED BY <1>2, <2>7, <2>8
<1>3. ASSUME IInv, MInv, OneTransfer PROVE PaidOnce
  <2> SUFFICES ASSUME NEW r \in Refunds
               PROVE  Cardinality({k \in Ids : prov[r][k] = "succeeded"})
                        + paid[r] <= 1
    BY DEF PaidOnce
  <2> DEFINE done == {k \in Ids : prov[r][k] = "succeeded"}
  <2>1. done \subseteq Live(r) /\ Live(r) \subseteq {1}
    BY <1>3, ProvType DEF Live
  <2>2. done = {} \/ done = {1}
    BY <2>1
  <2> HIDE DEF done
  <2>3. /\ Cardinality(done) \in {0, 1}
        /\ done = {} => Cardinality(done) = 0
    BY <2>2, Counts
  <2>4. paid[r] \in Nat /\ paid[r] <= 1
    BY <1>3, ProvType
  <2>5. paid[r] > 0 => done = {}
    BY <1>3, <2>1 DEF MInv, Transfers, TransferOf, ByTransfer
  <2>6. Cardinality(done) + paid[r] <= 1
    BY <2>3, <2>4, <2>5
  <2> QED BY <2>6 DEF done
<1>4. IInv /\ MInv /\ OneTransfer /\ [Next]_vars => OneTransfer'
  BY <1>2
<1>5. IInv /\ MInv /\ OneTransfer => PaidOnce
  BY <1>3
<1> QED BY <1>1, <1>4, <1>5, RefundsInvariant, RefundsMoneyInvariant, PTL
        DEF Spec
=============================================================================
