---------------------------- MODULE MCManualCharge ----------------------------
(* Instances of ManualCharge for TLC. *)
EXTENDS ManualCharge, TLC

OneSeat  == <<1>>
Symmetry == Permutations(Panel) \cup Permutations(Updates)

\* A double click while the watchdog and the clean-up work; one charge by hand
\* while the engine works; two changes of card that cross beside the engine.
DoubleClick == [jobs |-> Jobs \ {"charge-departures"}, calls |-> 2,
                changes |-> 1, faults |-> 1]
WithEngine  == [jobs |-> {"charge-departures"}, calls |-> 1, changes |-> 1,
                faults |-> 0]
Crossed     == [jobs |-> {"charge-departures"}, calls |-> 0, changes |-> 2,
                faults |-> 0]
AllCasts    == {DoubleClick, WithEngine, Crossed}

\* Engine, watchdog and panel together, with one failure of a call: the README
\* tells how money is lost from sight then.
Together    == {[jobs |-> Jobs, calls |-> 1, changes |-> 1, faults |-> 1]}
=============================================================================
