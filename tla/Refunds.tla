------------------------------- MODULE Refunds -------------------------------
(***************************************************************************)
(* The refunds queue.  A cancellation queues a refund; the job             *)
(* process-refunds claims it, posts it to the gateway and polls the        *)
(* gateway, which sends no webhook for refunds; staff retries the ones     *)
(* that failed or gives the money back by bank transfer.                   *)
(*                                                                         *)
(* A POST carries no idempotency key: one whose answer is lost may or may  *)
(* not have created a refund, and posting it again may pay twice.  A step  *)
(* is one query, one SQL function or one request to the gateway.           *)
(***************************************************************************)
EXTENDS Naturals, FiniteSets

CONSTANTS
    NumRefunds,         \* refunds, each of its own booking, by created_at
    Workers,            \* processes that run the job; two while a deploy overlaps
    Staff,              \* panel sessions that can retry at once
    Batch,              \* refunds a cycle of the job takes
    MaxCreateAttempts,  \* POSTs refused before the refund fails, less one
    MaxPosts,           \* bound: refunds created at the gateway for one row
    MaxRetries,         \* bound: retries of the staff
    MaxFaults,          \* bound: lost database calls, GETs and processes that die
    LoadFaults          \* whether the query of the payment may fail

ASSUME SizesAssumption ==
    /\ {NumRefunds, Batch, MaxPosts} \subseteq Nat \ {0}
    /\ {MaxCreateAttempts, MaxRetries, MaxFaults} \subseteq Nat
ASSUME LoadFaultsAssumption == LoadFaults \in BOOLEAN

VARIABLES
    row,       \* the table refunds
    old,       \* refunds queued more than 24 hours ago
    refunded,  \* bookings and payments in status refunded
    prov,      \* the gateway: the refunds created for each row
    paid,      \* bank transfers made for each row
    faults, retries,
    w,         \* the workers
    panel      \* what each panel session read before it writes

vars == <<row, old, refunded, prov, paid, faults, retries, w, panel>>

-----------------------------------------------------------------------------
(* The rows.                                                               *)

Refunds  == 1 .. NumRefunds
Queued   == {"pending", "processing"}
Statuses == Queued \cup {"failed", "awaiting_transfer", "succeeded"}

\* What the gateway did is not known.
REFUND_MANUAL_CHECK_REASONS == {"processing-stale", "ambiguous-timeout"}

\* The gateway can still pay.
REFUND_UNSETTLED_REASONS == REFUND_MANUAL_CHECK_REASONS \cup {"processing-timeout"}

\* "refused" is a 4xx answer, "rejected" a refund the gateway failed.
Reasons == {"none", "payment-intent-missing", "refused", "rejected"}
               \cup REFUND_UNSETTLED_REASONS

\* id 0 is no external_refund_id.  waited says that no backoff is running: it
\* starts with a release and is compared only while the row is pending.
Row == [status: Statuses, id: 0 .. MaxPosts, reason: Reasons,
        attempts: 0 .. MaxCreateAttempts + 1, waited: BOOLEAN]

Failed(rec, reason, attempts) ==
    [rec EXCEPT !.status = "failed", !.reason = reason, !.attempts = attempts]

Claimed(rec, attempts) ==
    [rec EXCEPT !.status = "processing", !.attempts = attempts, !.waited = TRUE]

Released(rec, attempts) ==
    [rec EXCEPT !.status = "pending", !.attempts = attempts, !.waited = FALSE]

WithId(rec, id, attempts) ==
    [rec EXCEPT !.status = "processing", !.id = id, !.attempts = attempts]

IsQueued(r) == row[r].status \in Queued

-----------------------------------------------------------------------------
(* A worker.  todo holds what the query of the cycle read of the refunds   *)
(* still to be handled; the first of them is the one in hand.              *)

None == [x \in {} |-> 0]

Pcs     == {"item", "poll", "claim", "post", "release", "fail", "persist",
            "persist again", "settle"}
Answers == {"pending", "succeeded", "failed"}

Todos == UNION {[S -> Row] : S \in SUBSET Refunds}

WorkerState ==
    [pc: Pcs, todo: Todos, id: 0 .. MaxPosts, answer: Answers, reason: Reasons]

Idle == [pc |-> "item", todo |-> None, id |-> 0, answer |-> "pending",
         reason |-> "none"]

\* The refund in hand, as the cycle read it.
InHand(p, r) == r \in DOMAIN w[p].todo /\ \A q \in DOMAIN w[p].todo : r <= q

At(p, r, pc) == w[p].pc = pc /\ InHand(p, r)

Goto(p, pc) == [w EXCEPT ![p].pc = pc]

\* The next refund of the batch: an error of one does not stop the others.
Finished(p, r) ==
    [w EXCEPT ![p] = [Idle EXCEPT !.todo =
        [q \in DOMAIN w[p].todo \ {r} |-> w[p].todo[q]]]]

FailWith(p, reason) == [w EXCEPT ![p].pc = "fail", ![p].reason = reason]

Fault == faults < MaxFaults /\ faults' = faults + 1

\* refunds_transfer_coherence_check: the row of a transfer is awaiting it or
\* settled, and any other UPDATE of its status is refused.
ByTransfer(r) == row[r].status = "awaiting_transfer" \/ paid[r] > 0

\* An UPDATE of one row.  When the call fails the row may have changed.
Update(r, rec, next, onError) ==
    \/ /\ ~ByTransfer(r)
       /\ row' = [row EXCEPT ![r] = rec]
       /\ w' = next
       /\ UNCHANGED faults
    \/ /\ ByTransfer(r)
       /\ w' = onError
       /\ UNCHANGED <<row, faults>>
    \/ /\ Fault
       /\ \/ ~ByTransfer(r) /\ row' = [row EXCEPT ![r] = rec]
          \/ UNCHANGED row
       /\ w' = onError

UnchangedByWorker == UNCHANGED <<old, retries, panel, paid>>

-----------------------------------------------------------------------------
(* The gateway.                                                            *)

Ids == 1 .. MaxPosts

Created(r) == {k \in Ids : prov[r][k] # "none"}
Live(r)    == {k \in Ids : prov[r][k] \in {"pending", "succeeded"}}

NextId(r) == CHOOSE k \in Ids \ Created(r) : \A j \in Ids \ Created(r) : k <= j

\* A pending refund is settled when the gateway wants.
GatewaySettles(r, k) ==
    /\ prov[r][k] = "pending"
    /\ \E st \in {"succeeded", "failed"} : prov' = [prov EXCEPT ![r][k] = st]
    /\ UNCHANGED <<row, old, refunded, paid, faults, retries, w, panel>>

-----------------------------------------------------------------------------
(* The job process-refunds.                                                *)

\* A cycle takes the oldest refunds of the queue.
FetchActiveRefunds(p) ==
    LET batch == {r \in Refunds :
                    /\ IsQueued(r)
                    /\ Cardinality({q \in Refunds : q < r /\ IsQueued(q)}) < Batch}
    IN  /\ w[p] = Idle
        /\ batch # {}
        /\ w' = [w EXCEPT ![p].todo = [r \in batch |-> row[r]]]
        /\ UNCHANGED <<row, refunded, prov, faults>>
        /\ UnchangedByWorker

\* processing and no id: a POST whose result nobody knows.
Orphan(rec)   == rec.status = "processing" /\ rec.id = 0
Creating(rec) == rec.status = "pending" /\ rec.id = 0

\* createRefund counts an attempt, pollRefund does not.
Attempts(rec) == rec.attempts + (IF Creating(rec) THEN 1 ELSE 0)

Exhausted(rec) == Attempts(rec) > MaxCreateAttempts

\* Mutant of IsStale: never.
NeverStale(r) == FALSE

IsStale(r) == r \in old

\* An orphan is left to age, a refused refund waits for its backoff.
Skip(p, r) ==
    LET rec == w[p].todo[r]
    IN  /\ At(p, r, "item")
        /\ \/ Orphan(rec) /\ ~IsStale(r)
           \/ Creating(rec) /\ rec.attempts > 0 /\ ~rec.waited
        /\ w' = Finished(p, r)
        /\ UNCHANGED <<row, refunded, prov, faults>>
        /\ UnchangedByWorker

FailStale(p, r) ==
    LET rec == w[p].todo[r]
    IN  /\ At(p, r, "item")
        /\ Orphan(rec) /\ IsStale(r)
        /\ Update(r, Failed(row[r], "processing-stale", rec.attempts),
                  Finished(p, r), Finished(p, r))
        /\ UNCHANGED <<refunded, prov>>
        /\ UnchangedByWorker

\* A failed query reads as a payment that does not exist.
LoadPaymentIntentId(p, r) ==
    /\ At(p, r, "item")
    /\ Creating(w[p].todo[r])
    /\ \/ /\ w' = Goto(p, "claim")
          /\ UNCHANGED faults
       \/ /\ LoadFaults
          /\ Fault
          /\ w' = FailWith(p, "payment-intent-missing")
    /\ UNCHANGED <<row, refunded, prov>>
    /\ UnchangedByWorker

\* Mutant of ClaimForProcessing: an UPDATE with no condition on the status.
BlindClaim(p, r, next) ==
    Update(r, Claimed(row[r], Attempts(w[p].todo[r])),
           Goto(p, next), Finished(p, r))

\* Wins only while the row is pending; the loser leaves the refund.
ClaimForProcessing(p, r, next) ==
    IF row[r].status = "pending"
    THEN Update(r, Claimed(row[r], Attempts(w[p].todo[r])),
                Goto(p, next), Finished(p, r))
    ELSE w' = Finished(p, r) /\ UNCHANGED <<row, faults>>

ClaimToCreate(p, r) ==
    /\ At(p, r, "claim")
    /\ ClaimForProcessing(p, r, "post")
    /\ UNCHANGED <<refunded, prov>>
    /\ UnchangedByWorker

\* pending with an id: it exists at the gateway, which is asked for it.
ClaimToPoll(p, r) ==
    /\ At(p, r, "item")
    /\ w[p].todo[r].status = "pending" /\ w[p].todo[r].id # 0
    /\ ClaimForProcessing(p, r, "poll")
    /\ UNCHANGED <<refunded, prov>>
    /\ UnchangedByWorker

Create(r, st) == prov' = [prov EXCEPT ![r][NextId(r)] = st]

\* POST /refunds: created and answered, refused with a 4xx, or unknown.
Post(p, r) ==
    /\ At(p, r, "post")
    /\ Created(r) # Ids
    /\ \/ \E st \in Answers :
            /\ Create(r, st)
            /\ w' = [w EXCEPT ![p].pc = "persist", ![p].id = NextId(r),
                              ![p].answer = st]
       \/ /\ w' = IF Exhausted(w[p].todo[r])
                  THEN FailWith(p, "refused")
                  ELSE Goto(p, "release")
          /\ UNCHANGED prov
       \/ /\ Create(r, "pending") \/ UNCHANGED prov
          /\ w' = FailWith(p, "ambiguous-timeout")
    /\ UNCHANGED <<row, refunded, faults>>
    /\ UnchangedByWorker

\* No condition on the status the row has by now.
MarkFailed(p, r) ==
    /\ At(p, r, "fail")
    /\ Update(r, Failed(row[r], w[p].reason, Attempts(w[p].todo[r])),
              Finished(p, r), Finished(p, r))
    /\ UNCHANGED <<refunded, prov>>
    /\ UnchangedByWorker

ReleaseClaim(p, r) ==
    /\ At(p, r, "release")
    /\ Update(r, Released(row[r], Attempts(w[p].todo[r])),
              Finished(p, r), Finished(p, r))
    /\ UNCHANGED <<refunded, prov>>
    /\ UnchangedByWorker

\* Once the id is written, an answer that is final is settled at once.
Persisted(p, r) ==
    IF w[p].answer = "pending" THEN Finished(p, r) ELSE Goto(p, "settle")

\* Mutant of NotPersisted: the claim is released.
ReleasedUnpersisted(p, r) == Goto(p, "release")

\* Without its id the row stays in processing: never back to pending.
NotPersisted(p, r) == Finished(p, r)

\* Tried twice.
MarkProcessing(p, r) ==
    LET rec == WithId(row[r], w[p].id, Attempts(w[p].todo[r]))
    IN  /\ \/ /\ At(p, r, "persist")
              /\ Update(r, rec, Persisted(p, r), Goto(p, "persist again"))
           \/ /\ At(p, r, "persist again")
              /\ Update(r, rec, Persisted(p, r), NotPersisted(p, r))
        /\ UNCHANGED <<refunded, prov>>
        /\ UnchangedByWorker

Polling(p, r) ==
    \/ At(p, r, "poll")
    \/ At(p, r, "item") /\ w[p].todo[r].status = "processing" /\ w[p].todo[r].id # 0

\* GET /refunds/:id.  An error leaves everything to the next cycle.
PollRefund(p, r) ==
    /\ Polling(p, r)
    /\ LET answer == prov[r][w[p].todo[r].id]
       IN  \/ /\ answer # "pending"
              /\ w' = [w EXCEPT ![p].pc = "settle", ![p].answer = answer]
              /\ UNCHANGED faults
           \/ /\ answer = "pending"
              /\ w' = IF IsStale(r) THEN FailWith(p, "processing-timeout")
                                    ELSE Finished(p, r)
              /\ UNCHANGED faults
           \/ Fault /\ w' = Finished(p, r)
    /\ UNCHANGED <<row, refunded, prov>>
    /\ UnchangedByWorker

\* settle_refund: closes only a row in processing.
SettleRefund(r) ==
    IF row[r].status = "processing"
    THEN /\ row' = [row EXCEPT ![r].status = "succeeded"]
         /\ refunded' = refunded \cup {r}
    ELSE UNCHANGED <<row, refunded>>

Settle(p, r) ==
    /\ At(p, r, "settle")
    /\ \/ /\ w[p].answer = "succeeded"
          /\ \/ SettleRefund(r) /\ UNCHANGED faults
             \/ Fault /\ (SettleRefund(r) \/ UNCHANGED <<row, refunded>>)
          /\ w' = Finished(p, r)
       \/ /\ w[p].answer = "failed"
          /\ Update(r, Failed(row[r], "rejected", Attempts(w[p].todo[r])),
                    Finished(p, r), Finished(p, r))
          /\ UNCHANGED refunded
    /\ UNCHANGED prov
    /\ UnchangedByWorker

\* The process ends between two calls; another starts with no cycle running.
Crash(p) ==
    /\ w[p] # Idle
    /\ Fault
    /\ w' = [w EXCEPT ![p] = Idle]
    /\ UNCHANGED <<row, refunded, prov>>
    /\ UnchangedByWorker

-----------------------------------------------------------------------------
(* The panel.                                                              *)

RequiresManualCheck(rec) ==
    rec.id = 0 /\ rec.reason \in REFUND_MANUAL_CHECK_REASONS

NoRetry == [refund |-> 0, target |-> "failed"]

\* retryRefund, its read: nothing is created anew while a POST is unknown.
RetryReads(s, r) ==
    /\ panel[s] = NoRetry
    /\ retries < MaxRetries
    /\ row[r].status = "failed"
    /\ ~RequiresManualCheck(row[r])
    /\ panel' = [panel EXCEPT ![s] =
          [refund |-> r,
           target |-> IF row[r].id = 0 THEN "pending" ELSE "processing"]]
    /\ retries' = retries + 1
    /\ UNCHANGED <<row, old, refunded, prov, paid, faults, w>>

Retried(rec, target) ==
    [rec EXCEPT !.status = target, !.reason = "none",
                !.attempts = IF target = "pending" THEN 0 ELSE @,
                !.waited = TRUE]

StillFailed(r) == row[r].status = "failed"

\* retryRefund, its UPDATE of a row still failed.
RetryWrites(s) ==
    /\ panel[s] # NoRetry
    /\ LET r == panel[s].refund
       IN  row' = IF StillFailed(r)
                  THEN [row EXCEPT ![r] = Retried(@, panel[s].target)]
                  ELSE row
    /\ panel' = [panel EXCEPT ![s] = NoRetry]
    /\ UNCHANGED <<old, refunded, prov, paid, faults, retries, w>>

\* Mutant of ProviderMaySettle: the timeout of the poll reads as a rejection.
MaySettleUnlessTimeout(rec) ==
    \/ rec.reason = "none"
    \/ rec.reason \in REFUND_MANUAL_CHECK_REASONS
    \/ rec.id = 0 /\ rec.reason # "payment-intent-missing"

\* Only after a definitive rejection: the gateway can no longer pay.
ProviderMaySettle(rec) ==
    \/ rec.reason = "none"
    \/ rec.reason \in REFUND_UNSETTLED_REASONS
    \/ rec.id = 0 /\ rec.reason # "payment-intent-missing"

RequestRefundTransfer(r) ==
    /\ row[r].status = "failed"
    /\ ~ProviderMaySettle(row[r])
    /\ row' = [row EXCEPT ![r].status = "awaiting_transfer"]
    /\ UNCHANGED <<old, refunded, prov, paid, faults, retries, w, panel>>

\* The operator makes the transfer and registers it.
SettleRefundTransfer(r) ==
    /\ row[r].status = "awaiting_transfer"
    /\ row' = [row EXCEPT ![r].status = "succeeded"]
    /\ refunded' = refunded \cup {r}
    /\ paid' = [paid EXCEPT ![r] = @ + 1]
    /\ UNCHANGED <<old, prov, faults, retries, w, panel>>

-----------------------------------------------------------------------------
(* Time.                                                                   *)

\* A day has passed since the cancellation.  A retry does not start it anew.
Ages(r) ==
    /\ r \notin old
    /\ old' = old \cup {r}
    /\ UNCHANGED <<row, refunded, prov, paid, faults, retries, w, panel>>

BackoffElapses(r) ==
    /\ row[r].status = "pending" /\ ~row[r].waited
    /\ row' = [row EXCEPT ![r].waited = TRUE]
    /\ UNCHANGED <<old, refunded, prov, paid, faults, retries, w, panel>>

-----------------------------------------------------------------------------

\* A refund just queued, or one that a retry of an earlier release left
\* pending with the id of the refund it already had.
NewRow(legacy) ==
    [status |-> "pending", id |-> IF legacy THEN 1 ELSE 0, reason |-> "none",
     attempts |-> 0, waited |-> TRUE]

Init ==
    /\ \E legacy \in SUBSET Refunds :
          /\ row = [r \in Refunds |-> NewRow(r \in legacy)]
          /\ prov = [r \in Refunds |-> [k \in Ids |->
                       IF r \in legacy /\ k = 1 THEN "pending" ELSE "none"]]
    /\ old = {}
    /\ refunded = {}
    /\ paid = [r \in Refunds |-> 0]
    /\ faults = 0
    /\ retries = 0
    /\ w = [p \in Workers |-> Idle]
    /\ panel = [s \in Staff |-> NoRetry]

ProcessOne(p, r) ==
    \/ Skip(p, r) \/ FailStale(p, r)
    \/ LoadPaymentIntentId(p, r) \/ ClaimToCreate(p, r) \/ Post(p, r)
    \/ MarkFailed(p, r) \/ ReleaseClaim(p, r) \/ MarkProcessing(p, r)
    \/ ClaimToPoll(p, r) \/ PollRefund(p, r) \/ Settle(p, r)

ProcessRefunds(p) ==
    FetchActiveRefunds(p) \/ \E r \in Refunds : ProcessOne(p, r)

Panel ==
    \/ \E s \in Staff : RetryWrites(s) \/ \E r \in Refunds : RetryReads(s, r)
    \/ \E r \in Refunds : RequestRefundTransfer(r) \/ SettleRefundTransfer(r)

Next ==
    \/ \E p \in Workers : ProcessRefunds(p) \/ Crash(p)
    \/ Panel
    \/ \E r \in Refunds : Ages(r) \/ BackoffElapses(r)
    \/ \E r \in Refunds, k \in Ids : GatewaySettles(r, k)

Spec == Init /\ [][Next]_vars

\* The worker's timer and the clock; nothing is assumed of the staff or of
\* the gateway, whose failures MaxFaults bounds.
FairSpec ==
    /\ Spec
    /\ \A p \in Workers : WF_vars(ProcessRefunds(p))
    /\ \A r \in Refunds : WF_vars(Ages(r)) /\ WF_vars(BackoffElapses(r))

-----------------------------------------------------------------------------
(* What the queue promises, as an abstract specification.                  *)

Asked == [r \in Refunds |-> Cardinality(Created(r))]

Has(r, st) == \E k \in Ids : prov[r][k] = st

Outcome(r) ==
    IF paid[r] > 1 THEN "twice"
    ELSE IF paid[r] > 0 THEN
        IF Has(r, "pending") \/ Has(r, "succeeded") THEN "twice" ELSE "by transfer"
    ELSE IF Has(r, "succeeded") THEN "by card"
    ELSE IF Has(r, "pending") THEN "under way"
    ELSE IF Has(r, "failed") THEN "refused"
    ELSE "owed"

Money == [r \in Refunds |-> Outcome(r)]

Promise == INSTANCE MoneyBack WITH Owed <- Refunds, asked <- Asked, money <- Money

-----------------------------------------------------------------------------
(* Properties.                                                             *)

TypeOK ==
    /\ row \in [Refunds -> Row]
    /\ old \subseteq Refunds
    /\ refunded \subseteq Refunds
    /\ prov \in [Refunds -> [Ids -> {"none"} \cup Answers]]
    /\ paid \in [Refunds -> Nat]
    /\ faults \in 0 .. MaxFaults
    /\ retries \in 0 .. MaxRetries
    /\ w \in [Workers -> WorkerState]
    /\ panel \in [Staff -> [refund: 0 .. NumRefunds,
                            target: {"failed", "pending", "processing"}]]

\* "NUNCA se re-POSTea": once the gateway may have created a refund for a row
\* no second one is created, whatever happens to the answers, the processes
\* and the retries.
PostedOnce == \A r \in Refunds : Cardinality(Created(r)) <= 1

\* A transfer is asked for only when the gateway can no longer pay
\* (request_refund_transfer), so the tourist is not paid twice.
TransferIsLast ==
    \A r \in Refunds :
        row[r].status = "awaiting_transfer" \/ paid[r] > 0 => Live(r) = {}

\* The money is given back at most once, by card or by transfer.
PaidOnce ==
    \A r \in Refunds :
        Cardinality({k \in Ids : prov[r][k] = "succeeded"}) + paid[r] <= 1

\* The queue implements what it promises: however answers are lost, processes
\* die and the staff retries, the gateway is asked at most once, nobody is
\* paid twice, and no transfer is made while the gateway may still pay.
PromiseKept == Promise!MoneySpec

\* A booking is refunded exactly when its refund is settled, and a settled
\* refund was really paid: by the refund whose id the row has, or by transfer.
SettledIsPaid ==
    \A r \in Refunds :
        /\ r \in refunded <=> row[r].status = "succeeded"
        /\ row[r].status = "succeeded" =>
              \/ paid[r] > 0
              \/ row[r].id # 0 /\ prov[r][row[r].id] = "succeeded"

\* A refund that can still be paid is never lost from sight: the row has its
\* id, a worker is about to write it, or it is where no retry posts again.
LiveIsKnown ==
    \A r \in Refunds : Live(r) # {} =>
        \/ row[r].id \in Live(r)
        \/ row[r].status = "processing"
        \/ row[r].status = "failed" /\ row[r].reason \in REFUND_MANUAL_CHECK_REASONS

\* A settled refund is final: the worker, a late answer and a retry leave it.
SettledIsFinal ==
    [][\A r \in Refunds : row[r].status = "succeeded" => row'[r] = row[r]]_vars

\* No refund stays in the queue for ever, whatever is ahead of it in the
\* batch: it is settled or it reaches the staff as failed.
QueueDrains ==
    \A r \in Refunds : IsQueued(r) ~> ~IsQueued(r)
=============================================================================
