-------------------------------- MODULE Guides --------------------------------
(***************************************************************************)
(* Who guides a departure.  The staff picks a guide in the list of the     *)
(* departures; assignGuide writes the assignment and then the row of its   *)
(* mail, each in a transaction of its own; the job of Outbox sends the     *)
(* mail with a link to the page of the guide.  Guides are deactivated and  *)
(* departures cancelled meanwhile.  The page of the guide and the tray of  *)
(* the departures without a guide are read from the same rows.             *)
(***************************************************************************)
EXTENDS Naturals, FiniteSets

CONSTANTS
    Guides, Staff,
    Outings,        \* departures
    StartDay,       \* when each of them starts
    HorizonDays,    \* guide_warning_horizon_days
    GuideRetries,   \* MAX_ATTEMPTS of the job
    Nobody

ASSUME GuidesAssumption ==
    /\ StartDay \in [Outings -> Nat \ {0}]
    /\ HorizonDays \in Nat \ {0}
    /\ Nobody \notin Guides

VARIABLES
    day,
    cancelled,      \* departures with status cancelled
    tourists,       \* what each departure's bookings come to
    active,         \* users.active of the guides
    assigned,       \* tour_instance_guides: one for each departure
    request,        \* what each member of the staff has under way
    untold,         \* history: assignments whose mail was not enqueued
    mails, post, heard  \* the rows of their mails, and the job

M == INSTANCE Outbox WITH Bookings <- Outings, MaxAttempts <- GuideRetries,
                          notif <- mails, job <- post, told <- heard

guideVars == <<day, cancelled, tourists, active, assigned, request, untold,
               mails, post, heard>>

AtDesk == [pc |-> "idle"]

GuidesInit ==
    /\ day = 0 /\ cancelled = {} /\ untold = {}
    /\ tourists = [d \in Outings |-> "none"]
    /\ active = Guides
    /\ assigned = [d \in Outings |-> Nobody]
    /\ request = [s \in Staff |-> AtDesk]
    /\ mails = [k \in Outings \X Guides |-> M!NoRow]
    /\ post = M!Idle
    /\ heard = [k \in Outings \X Guides |-> M!Untold]

-----------------------------------------------------------------------------
(* What is read: the list of the departures, its tray, the guide's page. *)

\* listUpcomingDepartures
Upcoming == {d \in Outings : StartDay[d] >= day /\ d \notin cancelled}

\* liveTickets: whoever may come to the meeting point
LiveTickets(d) == tourists[d] \in {"unpaid", "confirmed"}

\* Mutant: a guide who was deactivated still counts.
WithoutGuide(d) == assigned[d] = Nobody

\* assignedGuide and assignedGuideActive
NobodyGuides(d) == assigned[d] \notin active

\* needsGuide: the mark in the table
NeedsGuide(d) ==
    /\ StartDay[d] > day /\ StartDay[d] < day + HorizonDays
    /\ LiveTickets(d)
    /\ NobodyGuides(d)

\* What is on top of the page of the departures; it tells how many it leaves out.
GuidelessTray == {d \in Upcoming : NeedsGuide(d)}

\* getGuideUpcomingTours, for whoever has a link that has not expired
GuidePage(g) == IF g \in active THEN {d \in Upcoming : assigned[d] = g} ELSE {}

-----------------------------------------------------------------------------
(* The staff. *)

At(s, pc) == request[s].pc = pc
Proceeds(s, pc) == request' = [request EXCEPT ![s].pc = pc]
Leaves(s) == request' = [request EXCEPT ![s] = AtDesk]

Rest == UNCHANGED <<day, cancelled, tourists, active>>
Mails == UNCHANGED <<mails, post, heard>>

\* GuideAssigner, from the page that was loaded: another one of the active
\* guides, or none.
Pick(s) ==
    /\ request[s] = AtDesk
    /\ \E d \in Upcoming :
          \/ \E g \in active \ {assigned[d]} :
                request' = [request EXCEPT ![s] =
                            [pc |-> "assign", outing |-> d, guide |-> g]]
          \/ /\ assigned[d] # Nobody
             /\ request' = [request EXCEPT ![s] = [pc |-> "unassign", outing |-> d]]
    /\ UNCHANGED <<assigned, untold>> /\ Rest /\ Mails

\* assignGuide looks at the role alone, and the last one to write stays.
AssignGuide(s) ==
    /\ At(s, "assign")
    /\ assigned' = [assigned EXCEPT ![request[s].outing] = request[s].guide]
    /\ Proceeds(s, "look")
    /\ UNCHANGED untold /\ Rest /\ Mails

UnassignGuide(s) ==
    /\ At(s, "unassign")
    /\ assigned' = [assigned EXCEPT ![request[s].outing] = Nobody]
    /\ Leaves(s)
    /\ UNCHANGED untold /\ Rest /\ Mails

Key(s) == <<request[s].outing, request[s].guide>>

\* Mutant: one mail for each departure.
AnyGuideTold(s) == \E g \in Guides : mails[request[s].outing, g].status # "none"

AlreadyTold(s) == mails[Key(s)].status # "none"

\* enqueueAssignmentEmail: reads, and then writes what was not there.
LookForNotice(s) ==
    /\ At(s, "look")
    /\ IF AlreadyTold(s) THEN Leaves(s) ELSE Proceeds(s, "enqueue")
    /\ UNCHANGED <<assigned, untold>> /\ Rest /\ Mails

\* The index allows one row for each departure and guide.
InsertNotice(s) ==
    /\ At(s, "enqueue")
    /\ mails' = [mails EXCEPT ![Key(s)] = M!Inserted(@, M!Now)]
    /\ Leaves(s)
    /\ UNCHANGED <<assigned, untold, post, heard>> /\ Rest

\* A write that fails, or a request that dies, before or after the assignment
RequestFails(s) ==
    /\ request[s] # AtDesk
    /\ untold' = IF request[s].pc \in {"look", "enqueue"}
                 THEN untold \cup {Key(s)} ELSE untold
    /\ Leaves(s)
    /\ UNCHANGED assigned /\ Rest /\ Mails

-----------------------------------------------------------------------------
(* The mail. *)

\* prepareGuideEmail: neither the assignment nor the departure's status is
\* looked at, and each mail carries a token of its own.
Assignment == [mail |-> "assignment"]

SendAssignment ==
    /\ \/ \E k \in Outings \X Guides : M!Fetch(k)
       \/ post.at = "read" /\ M!Prepare(Assignment)
       \/ M!Deliver
    /\ UNCHANGED <<assigned, request, untold>> /\ Rest

-----------------------------------------------------------------------------
(* Everything else. *)

NoRequest == UNCHANGED <<assigned, request, untold>> /\ Mails

\* A guide is deactivated or comes back.
ToggleGuide(g) ==
    /\ active' = IF g \in active THEN active \ {g} ELSE active \cup {g}
    /\ UNCHANGED <<day, cancelled, tourists>> /\ NoRequest

\* Bookings are made, paid and cancelled.
TouristsChange(d) ==
    /\ d \in Upcoming
    /\ \E b \in {"none", "unpaid", "confirmed"} :
          tourists' = [tourists EXCEPT ![d] = b]
    /\ UNCHANGED <<day, cancelled, active>> /\ NoRequest

CancelOuting(d) ==
    /\ d \in Upcoming
    /\ cancelled' = cancelled \cup {d}
    /\ UNCHANGED <<day, tourists, active>> /\ NoRequest

DayPasses ==
    /\ \E d \in Outings : day <= StartDay[d]
    /\ day' = day + 1
    /\ UNCHANGED <<cancelled, tourists, active>> /\ NoRequest

GuidesNext ==
    \/ \E s \in Staff : \/ Pick(s) \/ AssignGuide(s) \/ UnassignGuide(s)
                        \/ LookForNotice(s) \/ InsertNotice(s)
                        \/ RequestFails(s)
    \/ SendAssignment
    \/ \E g \in Guides : ToggleGuide(g)
    \/ \E d \in Outings : TouristsChange(d) \/ CancelOuting(d)
    \/ DayPasses

GuidesSpec == GuidesInit /\ [][GuidesNext]_guideVars

-----------------------------------------------------------------------------
(* Properties. *)

\* A departure with tourists that starts soon is either on the page of a guide
\* who can open it, or in the tray of the team (needsGuide against
\* getGuideUpcomingTours).
SomebodyGoes ==
    \A d \in Upcoming :
        /\ LiveTickets(d)
        /\ StartDay[d] > day /\ StartDay[d] < day + HorizonDays
        => d \in GuidelessTray \/ \E g \in Guides : d \in GuidePage(g)

\* However the staff crosses its assignments, the guide of a departure has a
\* row of the mail that says so, except while the request that assigned goes on
\* or when it died half-way (assignGuide, enqueueAssignmentEmail).
AssignedIsNoticed ==
    \A d \in Outings :
        assigned[d] # Nobody /\ mails[d, assigned[d]].status = "none" =>
            \/ <<d, assigned[d]>> \in untold
            \/ \E s \in Staff : /\ request[s].pc \in {"look", "enqueue"}
                                /\ Key(s) = <<d, assigned[d]>>

=============================================================================
