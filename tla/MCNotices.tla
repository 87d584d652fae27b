------------------------------ MODULE MCNotices ------------------------------
(* One booking whose charges fail and succeed, for TLC: each kind of mail  *)
(* in turn, or the pages and dialogs of the booking.  Mails and pages read *)
(* the same rows and share nothing else, so a behaviour follows one.       *)
EXTENDS ChargeNotices, BookingPages, ChargeBoard

OneSeat == <<1>>

\* The mail of the third rejection stands for the three: it is written like the
\* other two, and from the fourth on its row is used again.
LastFailed == {FailedKind(3)}
AllKinds   == LastFailed \cup {Requires, BelowMin, CancelConfirmed}

VARIABLE part
vars == <<part, db, notif, job, told, who, page>>

TouristInit ==
    /\ part \in {"mails", "pages"}
    /\ NoticesInit /\ PagesInit
    /\ part = "mails" => who = "tourist"
    /\ part = "pages" => DOMAIN notif = Bookings \X {CancelConfirmed}

(* A mail does not look at the marks of a capture and of a cancellation.   *)
Unmarked == \A b \in Bookings : mark'[b].claim = "none" /\ mark'[b].capture = "none"

(* Four rejections, one a tick, write the mail of the third again.  For the *)
(* other mails and for the pages one is enough, and the first tick only     *)
(* passes.                                                                  *)
Rejections == IF DOMAIN notif = Bookings \X LastFailed THEN 4 ELSE 1

Brief == /\ \A b \in Bookings : sched'[b].attempts <= Rejections
         /\ now = 0 /\ Rejections < 4 => now' = 1

MailsPart == /\ part = "mails" /\ NoticesNext /\ Unmarked /\ Brief
             /\ UNCHANGED <<part, who, page>>
PagesPart == /\ part = "pages" /\ PagesNext /\ Brief
             /\ UNCHANGED <<part, notif, job, told>>

TouristSpec == TouristInit /\ [][MailsPart \/ PagesPart]_vars

=============================================================================
