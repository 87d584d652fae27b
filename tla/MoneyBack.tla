----------------------------- MODULE MoneyBack -----------------------------
(***************************************************************************)
(* What the refunds queue promises of each refund, whoever handles it: the *)
(* gateway is asked at most once, and the money goes back once: by card,   *)
(* or by transfer when the gateway was never asked or has refused.         *)
(***************************************************************************)
EXTENDS Naturals

CONSTANT Owed       \* the refunds

VARIABLES
    asked,          \* how many refunds were created at the gateway
    money

MoneyInit ==
    /\ asked \in [Owed -> {0, 1}]
    /\ money = [r \in Owed |-> IF asked[r] = 0 THEN "owed" ELSE "under way"]

\* The answer may be final at once.
Ask(r) ==
    /\ asked[r] = 0 /\ money[r] = "owed"
    /\ asked' = [asked EXCEPT ![r] = 1]
    /\ \E m \in {"under way", "by card", "refused"} :
          money' = [money EXCEPT ![r] = m]

GatewayAnswers(r) ==
    /\ money[r] = "under way"
    /\ \E m \in {"by card", "refused"} : money' = [money EXCEPT ![r] = m]
    /\ UNCHANGED asked

Transfer(r) ==
    /\ money[r] \in {"owed", "refused"}
    /\ money' = [money EXCEPT ![r] = "by transfer"]
    /\ UNCHANGED asked

MoneyNext == \E r \in Owed : Ask(r) \/ GatewayAnswers(r) \/ Transfer(r)

MoneySpec == MoneyInit /\ [][MoneyNext]_<<asked, money>>
=============================================================================
