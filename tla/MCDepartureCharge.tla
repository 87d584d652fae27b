-------------------------- MODULE MCDepartureCharge --------------------------
(* Instances of DepartureCharge for TLC. *)
EXTENDS DepartureCharge

OneSeat  == <<1>>
TwoSeats == <<1, 1>>
=============================================================================
