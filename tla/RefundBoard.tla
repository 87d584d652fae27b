------------------------------ MODULE RefundBoard ------------------------------
(***************************************************************************)
(* What the panel shows of the refunds and which actions it offers on each *)
(* of them: the tray of those that wait for the operator, and the section  *)
(* of the detail of a booking.  The actions are those of Refunds, which    *)
(* look at the row again.                                                  *)
(***************************************************************************)
EXTENDS Refunds

\* selectRefundsToResolve; every booking here has one refund.  A refund that is
\* old was queued, and is still queued, more than a day ago; the tray counts
\* from its last change, so it may lag behind.
NeedsAction(r) == row[r].status \in {"failed", "awaiting_transfer"}
MaySeemStuck(r) == IsQueued(r) /\ r \in old

\* Mutant: whatever has failed can be transferred.
AnyFailed(rec) == rec.status = "failed" /\ rec.reason # "none"

\* toRefund
TransferAllowed(rec) ==
    /\ rec.status = "failed"
    /\ rec.reason # "none" /\ rec.reason \notin REFUND_UNSETTLED_REASONS
    /\ rec.id # 0 \/ rec.reason = "payment-intent-missing"

\* RefundSection: the buttons and the form
Offers(r) ==
    (IF row[r].status = "failed" THEN {"retry"} ELSE {})
      \cup (IF TransferAllowed(row[r]) THEN {"request transfer"} ELSE {})
      \cup (IF row[r].status = "awaiting_transfer" THEN {"settle transfer"}
            ELSE {})

-----------------------------------------------------------------------------
(* Properties. *)

\* The panel never offers to give the money back by transfer while a refund of
\* the same row is pending or paid at the gateway, and offers something for every
\* refund that the job has left (toRefund and RefundSection against what
\* createRefund and pollRefund may have left behind).
TransferOfferedWhenOver ==
    \A r \in Refunds :
        /\ "request transfer" \in Offers(r) => Live(r) = {}
        /\ row[r].status \notin Queued \cup {"succeeded"} =>
              NeedsAction(r) /\ Offers(r) # {}

=============================================================================
