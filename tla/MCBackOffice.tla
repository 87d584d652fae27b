--------------------------- MODULE MCBackOffice ---------------------------
(* What the team does in the panel, for TLC: the catalogue, the users of   *)
(* the panel, the data of people, and the guides.  The four share no       *)
(* state, so each behaviour moves one of them and leaves the others as     *)
(* they began.  Guides are followed twice: two of the staff at once and    *)
(* the mails, while nothing else happens; or one of the staff and whatever *)
(* happens to the departure.                                               *)
EXTENDS MCCatalog, PersonalData, Guides

VARIABLE part
everything == <<part, catalog, accounts, data, guideVars>>

Row(st, p, ids) == [status |-> st, pay |-> p, refund |-> "none",
                    contact |-> "first", ids |-> ids, erased |-> FALSE]
AllShapes == [Bookings -> {Row("confirmed", "succeeded", TRUE),
                           Row("pending_minimum", "none", TRUE)}]

InTwoDays == [d \in Outings |-> 2]
FirstOfStaff == CHOOSE s \in Staff : TRUE

BackOfficeInit ==
    /\ part \in {"catalogue", "users", "people", "assignments", "departures"}
    /\ CatalogInit /\ AccountsInit /\ PersonalDataInit /\ GuidesInit
    /\ part # "catalogue" => prices = Rows /\ sched = Sched /\ admin["a1"].form = Refused
    /\ part # "people" => \A b \in Bookings : booking[b].status = "confirmed"

CatalogPart  == /\ part = "catalogue" /\ CatalogNext
                /\ UNCHANGED <<part, accounts, data, guideVars>>
AccountsPart == /\ part = "users" /\ AccountsNext
                /\ UNCHANGED <<part, catalog, data, guideVars>>
PeoplePart   == /\ part = "people" /\ PersonalDataNext
                /\ UNCHANGED <<part, catalog, accounts, guideVars>>
GuidesPart   == /\ part \in {"assignments", "departures"} /\ GuidesNext
                /\ IF part = "assignments"
                   THEN UNCHANGED <<day, tourists, active>>
                   ELSE /\ UNCHANGED post
                        /\ \A s \in Staff \ {FirstOfStaff} : request'[s] = AtDesk
                /\ UNCHANGED <<part, catalog, accounts, data>>

BackOfficeNext == CatalogPart \/ AccountsPart \/ PeoplePart \/ GuidesPart
BackOfficeSpec == BackOfficeInit /\ [][BackOfficeNext]_everything
=============================================================================
