--------------------------- MODULE PersonalData ---------------------------
(***************************************************************************)
(* The data of the people who book: an admin corrects the name and the     *)
(* address of a booking or erases a person, and every night apply-retention*)
(* empties or deletes what is old.  Meanwhile bookings are charged,        *)
(* cancelled and refunded, and the outbox sends links to see them.         *)
(*                                                                         *)
(* The rest of the system is reduced here to what these rules look at.     *)
(***************************************************************************)
EXTENDS Accounts

CONSTANTS
    Bookings,
    Addresses,
    Anon,       \* anonimizado@anonimizado.local
    Late,       \* the bookings of the deferred checkout
    Shapes      \* how the bookings are to begin with

LiveStatus == {"pending_minimum", "pending_payment", "confirmed"}

BookingRow ==
    [status : LiveStatus \cup {"cancelled", "deleted"},
     pay : {"none", "pending", "succeeded", "failed", "closed", "refunded"},
     refund : {"none", "unfinished", "done"},
     contact : Addresses \cup {Anon}, ids : BOOLEAN, erased : BOOLEAN]

\* Nobody was erased yet, nothing was charged before the minimum, and a
\* booking of the deferred checkout has its customer at the gateway.
ASSUME ShapesAssumption ==
    /\ Late \subseteq Bookings
    /\ \A shape \in Shapes :
          /\ shape \in [Bookings -> BookingRow]
          /\ \A b \in Bookings :
                /\ shape[b].status # "deleted" /\ ~shape[b].erased
                /\ shape[b].status = "pending_minimum" => shape[b].pay = "none"
                /\ shape[b].refund = "unfinished" => shape[b].pay = "succeeded"
                /\ b \in Late => shape[b].ids

VARIABLES
    booking,    \* the row of each, what its payment says and its refund
    intent,     \* at OnvoPay: can it still be paid, was it
    age,        \* 0 before the departure, 1 after, 2 after 18 months, 3 after
                \* 5 years
    old,        \* bookings of more than 90 days
    notice,     \* the address of the pending notice of each, if there is one
    links,      \* who has links to it that work
    mailer,     \* the notice being sent, as it was read
    desk        \* what each admin is doing about a person

data == <<booking, intent, age, old, notice, links, mailer, desk>>

NoNotice == "none"
Away == [pc |-> "away"]

PersonalDataInit ==
    /\ booking \in Shapes
    /\ intent = [b \in Bookings |->
          CASE booking[b].pay = "succeeded" -> "paid"
            [] booking[b].pay = "pending" -> "open"
            [] OTHER -> "none"]
    /\ age = 0 /\ old = {}
    /\ notice = [b \in Bookings |-> NoNotice]
    /\ links = [b \in Bookings |-> {}]
    /\ mailer = Away
    /\ desk = [a \in Users |-> Away]

Kept == {b \in Bookings : booking[b].status # "deleted"}
Change(b, rec) ==
    /\ booking' = [booking EXCEPT ![b] = rec]
    /\ UNCHANGED <<age, old, notice, links, mailer, desk>>

-----------------------------------------------------------------------------
(* The rest of the system. *)

StartsCharge(b) ==
    /\ b \in Kept \cap Late /\ age = 0
    /\ booking[b].status = "pending_minimum"
    /\ Change(b, [booking[b] EXCEPT !.status = "pending_payment",
                                    !.pay = "pending"])
    /\ intent' = [intent EXCEPT ![b] = "open"]

\* At OnvoPay, whatever the row of the booking says.
PaysIntent(b) ==
    /\ intent[b] = "open" /\ age < 2
    /\ intent' = [intent EXCEPT ![b] = "paid"]
    /\ UNCHANGED <<booking, age, old, notice, links, mailer, desk>>

\* confirm_booking: paid too late, it is refunded.
Settles(b) ==
    /\ b \in Kept /\ intent[b] = "paid" /\ booking[b].pay # "succeeded"
    /\ booking[b].refund = "none"
    /\ IF booking[b].status = "cancelled"
       THEN Change(b, [booking[b] EXCEPT !.pay = "succeeded",
                                         !.refund = "unfinished"])
       ELSE Change(b, [booking[b] EXCEPT !.pay = "succeeded",
                                         !.status = "confirmed"])
    /\ UNCHANGED intent

EndsBooking(b) ==
    /\ b \in Kept /\ booking[b].status \in LiveStatus /\ age < 2
    /\ CASE booking[b].pay = "succeeded" ->
              Change(b, [booking[b] EXCEPT !.status = "cancelled",
                                           !.refund = "unfinished"])
         [] booking[b].pay = "pending" ->
              Change(b, [booking[b] EXCEPT !.status = "cancelled",
                                           !.pay = "failed"])
         [] OTHER -> Change(b, [booking[b] EXCEPT !.status = "cancelled"])
    /\ UNCHANGED intent

Refunded(b) ==
    /\ b \in Kept /\ booking[b].refund = "unfinished"
    /\ Change(b, [booking[b] EXCEPT !.refund = "done", !.pay = "refunded"])
    /\ UNCHANGED intent

\* close-payment-intents, which looks after the deferred bookings
ClosesIntent(b) ==
    /\ b \in Kept \cap Late /\ booking[b].pay = "failed"
    /\ \/ /\ intent[b] = "open"
          /\ intent' = [intent EXCEPT ![b] = "closed"]
          /\ UNCHANGED booking
       \/ /\ intent[b] = "closed"
          /\ booking' = [booking EXCEPT ![b].pay = "closed"]
          /\ UNCHANGED intent
    /\ UNCHANGED <<age, old, notice, links, mailer, desk>>

\* The links work until the departure.
TimePasses ==
    /\ age < 3 /\ age' = age + 1
    /\ links' = [b \in Bookings |-> {}]
    /\ UNCHANGED <<booking, intent, old, notice, mailer, desk>>

GetsOld(b) ==
    /\ old' = old \cup {b} /\ b \notin old
    /\ UNCHANGED <<booking, intent, age, notice, links, mailer, desk>>

-----------------------------------------------------------------------------
(* The outbox. *)

Enqueues(b) ==
    /\ b \in Kept /\ age = 0 /\ notice[b] = NoNotice
    /\ notice' = [notice EXCEPT ![b] = booking[b].contact]
    /\ UNCHANGED <<booking, intent, age, old, links, mailer, desk>>

FetchNotice(b) ==
    /\ mailer = Away /\ notice[b] # NoNotice
    /\ mailer' = [pc |-> "send", b |-> b, to |-> notice[b]]
    /\ UNCHANGED <<booking, intent, age, old, notice, links, desk>>

\* Every mail has a token of its own.  A booking that is gone or a departure
\* that began is not written about; no mail reaches Anon.
SendNotice ==
    /\ mailer # Away
    /\ LET b == mailer.b
       IN  /\ links' = IF b \in Kept /\ age = 0 /\ mailer.to # Anon
                       THEN [links EXCEPT ![b] = @ \cup {mailer.to}] ELSE links
           /\ notice' = [notice EXCEPT ![b] = NoNotice]
    /\ mailer' = Away
    /\ UNCHANGED <<booking, intent, age, old, desk>>

-----------------------------------------------------------------------------
(* Correcting the data of a booking: correctBookingContact. *)

Moves(a, rec) == desk' = [desk EXCEPT ![a] = rec]
Sits(a) == MayAct(a) /\ desk[a] = Away

\* Mutant: the update trusts what was read.
WhateverHappened(b) == b \in Kept

NotErased(b) == b \in Kept /\ ~booking[b].erased

ReadContact(a, b, to) ==
    /\ Sits(a) /\ NotErased(b)
    /\ Moves(a, [pc |-> "contact", b |-> b, to |-> to,
                 before |-> booking[b].contact])
    /\ UNCHANGED <<booking, intent, age, old, notice, links, mailer>>

CorrectContact(a) ==
    /\ desk[a].pc = "contact"
    /\ LET b == desk[a].b
       IN  IF NotErased(b)
           THEN /\ booking' = [booking EXCEPT ![b].contact = desk[a].to]
                /\ Moves(a, [desk[a] EXCEPT !.pc = "notices"])
           ELSE Moves(a, Away) /\ UNCHANGED booking
    /\ UNCHANGED <<intent, age, old, notice, links, mailer>>

CorrectNotices(a) ==
    /\ desk[a].pc = "notices"
    /\ notice' = [b \in Bookings |->
          IF b = desk[a].b /\ notice[b] # NoNotice THEN desk[a].to
          ELSE notice[b]]
    /\ Moves(a, [desk[a] EXCEPT !.pc = "links"])
    /\ UNCHANGED <<booking, intent, age, old, links, mailer>>

\* Links to another address are revoked; then it says ok.
RevokeLinks(a) ==
    /\ desk[a].pc = "links"
    /\ links' = IF desk[a].before # desk[a].to
                THEN [links EXCEPT ![desk[a].b] = {}] ELSE links
    /\ Moves(a, Away)
    /\ UNCHANGED <<booking, intent, age, old, notice, mailer>>

\* An update fails, or the request dies: the admin sees an error, or nothing.
DeskFails(a) ==
    /\ desk[a] # Away
    /\ Moves(a, Away)
    /\ UNCHANGED <<booking, intent, age, old, notice, links, mailer>>

-----------------------------------------------------------------------------
(* Emptying and deleting rows. *)

\* booking_has_financial_trace
Traced(b) == booking[b].pay \in {"succeeded", "refunded"}

\* Mutant: only what lives keeps a row.
LockedWhileLive(b) ==
    \/ booking[b].status = "pending_minimum"
    \/ booking[b].status = "pending_payment" /\ b \in Late
    \/ booking[b].pay = "pending"

\* booking_retention_locked: the row lives, or its intent may be open.  A
\* payment that failed counts in the deferred checkout only.
Locked(b) ==
    \/ LockedWhileLive(b)
    \/ booking[b].ids /\ booking[b].pay = "failed"

\* anonymize_booking_row, for each of a set.  The customer and the method of
\* payment at OnvoPay stay when the booking lives and is still to come.
Emptied(b) ==
    [booking[b] EXCEPT
       !.contact = Anon,
       !.erased = TRUE,
       !.ids = @ /\ booking[b].status \in LiveStatus /\ age = 0]

Gone(b) ==
    [status |-> "deleted", pay |-> "none", refund |-> "none", contact |-> Anon,
     ids |-> FALSE, erased |-> FALSE]

\* Notices of either go, and links of those that are deleted.
EmptyAndDelete(empty, delete) ==
    /\ booking' = [b \in Bookings |->
          IF b \in delete THEN Gone(b)
          ELSE IF b \in empty THEN Emptied(b) ELSE booking[b]]
    /\ notice' = [b \in Bookings |->
          IF b \in empty \cup delete THEN NoNotice ELSE notice[b]]
    /\ links' = [b \in Bookings |-> IF b \in delete THEN {} ELSE links[b]]

Of(email) == {b \in Kept : booking[b].contact = email}
Owed(email) == \E b \in Of(email) : booking[b].refund = "unfinished"

\* anonymizeCustomerByEmail looks at the refunds, and then the function of
\* the database does again.
PreviewErasure(a, email) ==
    /\ Sits(a) /\ ~Owed(email)
    /\ Moves(a, [pc |-> "erase", email |-> email])
    /\ UNCHANGED <<booking, intent, age, old, notice, links, mailer>>

AnonymizeByEmail(a) ==
    /\ desk[a].pc = "erase"
    /\ LET his == Of(desk[a].email)
       IN  IF Owed(desk[a].email) THEN UNCHANGED <<booking, notice, links>>
           ELSE EmptyAndDelete({b \in his : Traced(b) /\ ~booking[b].erased},
                               {b \in his : ~Traced(b) /\ ~Locked(b)})
    /\ Moves(a, Away)
    /\ UNCHANGED <<intent, age, old, mailer>>

\* The steps of apply-retention are independent, any of them may fail.
AnonymizePastRetention ==
    /\ age >= 2
    /\ EmptyAndDelete({b \in Kept : ~booking[b].erased /\ Traced(b)}, {})
    /\ UNCHANGED <<intent, age, old, mailer, desk>>

PurgeFinancialRecords ==
    /\ age = 3
    /\ EmptyAndDelete({}, {b \in Kept : booking[b].erased
                                          /\ booking[b].refund # "unfinished"})
    /\ UNCHANGED <<intent, age, old, mailer, desk>>

PurgeUnpaid ==
    /\ EmptyAndDelete({}, {b \in Kept \cap old : ~Locked(b) /\ ~Traced(b)})
    /\ UNCHANGED <<intent, age, old, mailer, desk>>

BookingStep(b) ==
    \/ StartsCharge(b) \/ PaysIntent(b) \/ Settles(b) \/ EndsBooking(b)
    \/ Refunded(b) \/ ClosesIntent(b) \/ GetsOld(b)
    \/ Enqueues(b) \/ FetchNotice(b)

DeskStep(a) ==
    \/ \E b \in Bookings, to \in Addresses : ReadContact(a, b, to)
    \/ CorrectContact(a) \/ CorrectNotices(a) \/ RevokeLinks(a)
    \/ \E email \in Addresses : PreviewErasure(a, email)
    \/ AnonymizeByEmail(a)
    \/ DeskFails(a)

PersonalDataNext ==
    \/ \E b \in Bookings : BookingStep(b)
    \/ TimePasses
    \/ SendNotice
    \/ \E a \in Users : DeskStep(a)
    \/ AnonymizePastRetention \/ PurgeFinancialRecords \/ PurgeUnpaid

\* Admins come and go meanwhile.
PeopleNext == \/ PersonalDataNext /\ UNCHANGED accounts
              \/ AccountsNext /\ UNCHANGED data

PersonalDataSpec ==
    AccountsInit /\ PersonalDataInit /\ [][PeopleNext]_<<accounts, data>>

-----------------------------------------------------------------------------
(* Properties. *)

\* A correction that races with the erasure of the person, or with the night
\* that empties the row, never brings the data back.
ErasedStaysErased ==
    [][\A b \in Bookings :
          booking[b].erased
             => booking'[b].contact = Anon /\ (booking'[b].ids => booking[b].ids)
      ]_data

\* Money the gateway may still take, or took, for a deferred booking finds its
\* row: nothing deletes a booking whose intent is open.  (The code accepts
\* that of an immediate checkout that was given up.)
PaymentFindsBooking ==
    \A b \in Late :
       /\ intent[b] = "open" => b \in Kept
       /\ intent[b] = "paid" /\ b \notin Kept => age = 3

\* When a correction says ok, the links sent to another address are dead.
CorrectedLinksEnd ==
    [][\A a \in Users :
          RevokeLinks(a) => links'[desk[a].b] \subseteq {desk[a].to}]_data
=============================================================================
