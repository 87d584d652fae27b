---------------------------- MODULE ManualCharge ----------------------------
(***************************************************************************)
(* DepartureCharge with the panel and the card of the tourist added:       *)
(*                                                                         *)
(*   panel   charges of one booking asked for by the staff, by hand; two   *)
(*           may run at once (a double click, two people);                 *)
(*   update  submissions of the page where a tourist changes the card;     *)
(*   clean   the clean-up of the customers at the gateway.                 *)
(*                                                                         *)
(* The panel charges at once: its intents settle without a capture.  The   *)
(* page makes a new payment method each time it is submitted, so a card    *)
(* is named after the submission that made it.                             *)
(***************************************************************************)
EXTENDS DepartureCharge

CONSTANTS
    Panel,        \* manual charges, each a request of its own
    Updates,      \* submissions of a new card
    PanelAnswers, \* what the gateway may answer to a confirm of the panel
    First,        \* the card of the checkout
    Casts         \* bound: the jobs, manual charges, changes of card and faults of
                  \* a behaviour

Cards == {First} \cup Updates

ASSUME CardsAssumption ==
    /\ First \notin Updates
    /\ PanelAnswers \subseteq Replies \ {"requires_capture"}
    /\ Casts \subseteq [jobs : SUBSET Jobs, calls : Nat, changes : Nat,
                     faults : 0..MaxFaults]

VARIABLES
    cast,     \* who takes part
    panel, update, clean,
    auto,     \* the gateway: intents that settle without a capture
    used,     \* the gateway: the card an intent was confirmed with
    attached, \* the gateway: the cards of the customer of each booking
    card,     \* bookings.payment_method_id
    seen      \* the cards, as the engine read them

cards == <<card, attached, seen, used, auto>>
all   == <<vars, cast, panel, update, clean, cards>>

PanelIdle  == [pc |-> "idle", b |-> 1, k |-> NoId, card |-> First,
               recent |-> FALSE, reply |-> NoReply]
UpdateIdle == [pc |-> "idle", b |-> 1, prev |-> First]
CleanIdle  == [pc |-> "idle", b |-> 1]

CardsTypeOK ==
    /\ TypeOK
    /\ cast \in Casts
    /\ panel \in [Panel ->
          [pc : {"idle", "get", "cancel", "close", "create", "start", "read",
                 "discard", "confirm", "record", "done"},
           b : Nat, k : Nat, card : Cards, recent : BOOLEAN,
           reply : Replies \cup {NoReply}]]
    /\ update \in [Updates ->
          [pc : {"idle", "set", "reject", "reread", "detach", "done"},
           b : Nat, prev : Cards]]
    /\ clean \in [pc : {"idle", "detach"}, b : Nat]
    /\ auto \subseteq Bookings \X Ids
    /\ used \in [Bookings \X Ids -> Cards]
    /\ attached \in [Bookings -> SUBSET Cards]
    /\ {card, seen} \subseteq [Bookings -> Cards]

CardsInit ==
    /\ Init
    /\ cast \in Casts
    /\ panel = [p \in Panel |-> PanelIdle]
    /\ update = [u \in Updates |-> UpdateIdle]
    /\ clean = CleanIdle
    /\ auto = {}
    /\ used = [p \in Bookings \X Ids |-> First]
    /\ attached = [b \in Bookings |-> {First}]
    /\ card = [b \in Bookings |-> First]
    /\ seen = card

\* What holds of every step: who takes part, and the bound on their faults.
Kept == UNCHANGED cast /\ faults' <= cast.faults

-----------------------------------------------------------------------------
(* The manual charge, call by call.  A request that stops early is one that *)
(* threw: the action answers `failed` and nothing else happens.             *)

Now(p)         == panel[p]
PanelGo(p, r)  == panel' = [panel EXCEPT ![p] = r]
PanelAt(p, pc) == PanelGo(p, IF pc = "done" THEN [PanelIdle EXCEPT !.pc = pc]
                             ELSE [Now(p) EXCEPT !.pc = pc])
PanelDb        ==
    UNCHANGED <<gateway, eng, wd, sw, web, update, clean, cards>> /\ Kept
PanelRemote    ==
    UNCHANGED <<db, eng, wd, sw, web, update, clean, card, attached, seen>> /\ Kept

\* loadChargeableBooking, and prepareIntent without a retained intent, which
\* refuses within the hour.
LoadChargeable(p, b) ==
    /\ Now(p).pc = "idle" /\ status[b] = "pending_minimum"
    /\ Cardinality({q \in Panel : panel[q].pc # "idle"}) < cast.calls
    /\ LET recent == sched[b].started = "recent" IN
       /\ PendingOf(b) = NoId => ~recent
       /\ PanelGo(p, [PanelIdle EXCEPT !.b = b, !.k = PendingOf(b),
             !.card = card[b], !.recent = recent,
             !.pc = IF PendingOf(b) # NoId THEN "get" ELSE "create"])
    /\ UNCHANGED db /\ PanelDb

\* resolveRetainedIntent: the GET decides what becomes of the intent that a
\* former attempt left.
ResolveRetained(p) ==
    /\ Now(p).pc = "get"
    /\ LET s == Get(Now(p).b, Now(p).k) IN
       CASE s = "succeeded" ->
              PanelGo(p, [Now(p) EXCEPT !.reply = s, !.pc = "record"])
         [] s = "requires_payment_method" ->
              PanelAt(p, IF Now(p).recent THEN "done" ELSE "cancel")
         [] s \in ClosedIntents -> PanelAt(p, "close")
         [] OTHER -> PanelAt(p, "done")
    /\ UNCHANGED db /\ PanelDb

\* replaceRetained: it may be one of the engine, which only holds the money.
ReplaceRetained(p) ==
    /\ Now(p).pc = "cancel"
    /\ \E ok \in BOOLEAN : /\ CancelIntent(Now(p).b, Now(p).k, ok)
                           /\ PanelAt(p, IF ok THEN "close" ELSE "done")
    /\ UNCHANGED <<used, auto>> /\ PanelRemote

CloseRetained(p) ==
    /\ Now(p).pc = "close"
    /\ PanelAt(p, IF CanClosePending(Now(p).b, Now(p).k) /\ ~Now(p).recent
                  THEN "create" ELSE "done")
    /\ ClosePendingPayment(Now(p).b, Now(p).k)
    /\ PanelDb

\* createPaymentSession, as long as the bound MaxIntents allows.
CreateIntent(p) ==
    /\ Now(p).pc = "create"
    /\ \E k \in FreshIds(Now(p).b) :
          /\ \A i \in 1..(k - 1) : i \notin FreshIds(Now(p).b)
          /\ SetIntent(Now(p).b, k, "requires_payment_method")
          /\ auto' = auto \cup {<<Now(p).b, k>>}
          /\ PanelGo(p, [Now(p) EXCEPT !.pc = "start", !.k = k])
    /\ UNCHANGED <<faults, used>> /\ PanelRemote

\* Mutant: the function starts the charge whatever the booking is doing.
StartsTwice(b, k, c) == card[b] = c /\ status[b] # "cancelled" /\ ~Started

\* charge_booking_start looks at the card the caller is going to charge.
CanStartWith(b, k, c) == CanStart(b, k) /\ card[b] = c

\* startCharge.  An error does not tell whether the function was applied.
StartCharge(p) ==
    /\ Now(p).pc = "start"
    /\ LET b   == Now(p).b
           k   == Now(p).k
           can == CanStartWith(b, k, Now(p).card)
       IN \/ /\ IF can THEN ChargeBookingStart(b, k) ELSE UNCHANGED db
             /\ PanelAt(p, IF can THEN "confirm" ELSE "discard")
             /\ UNCHANGED gateway
          \/ /\ Fault /\ UNCHANGED intent
             /\ IF can THEN ChargeBookingStart(b, k) \/ UNCHANGED db
                ELSE UNCHANGED db
             /\ PanelAt(p, "read")
    /\ UNCHANGED <<eng, wd, sw, web, update, clean, cards>> /\ Kept

\* startWasApplied; when not even that can be read the intent is left alone.
StartWasApplied(p) ==
    /\ Now(p).pc = "read"
    /\ \/ /\ PanelAt(p, IF CanAuthorize(Now(p).b, Now(p).k)
                        THEN "confirm" ELSE "discard")
          /\ UNCHANGED faults
       \/ Fault /\ PanelAt(p, "done")
    /\ UNCHANGED <<intent, used, auto>> /\ PanelRemote

DiscardCreated(p) ==
    /\ Now(p).pc = "discard"
    /\ \E ok \in BOOLEAN : CancelIntent(Now(p).b, Now(p).k, ok)
    /\ PanelAt(p, "done")
    /\ UNCHANGED <<used, auto>> /\ PanelRemote

\* confirmWithPaymentMethod.  An error, as from an intent that was closed, is
\* never followed by another confirm.
ConfirmCard(p) ==
    /\ Now(p).pc = "confirm"
    /\ LET b == Now(p).b
           k == Now(p).k
       IN IF intent[b, k] = "requires_payment_method"
          THEN \E s \in PanelAnswers :
                  /\ SetIntent(b, k, s)
                  /\ used' = [used EXCEPT ![<<b, k>>] = Now(p).card]
                  /\ PanelGo(p, [Now(p) EXCEPT !.pc = "record", !.reply = s])
          ELSE PanelAt(p, "done") /\ UNCHANGED <<intent, used>>
    /\ UNCHANGED <<faults, auto>> /\ PanelRemote

\* recordConfirmResult and settleCharge, which are what the engine does.
RecordResult(p) ==
    /\ Now(p).pc = "record"
    /\ Register(Now(p).b, Now(p).k, Now(p).reply)
    /\ PanelAt(p, "done")
    /\ PanelDb

\* An answer that never came, or a server that died.  Elsewhere the request
\* just takes no further step.
PanelDies(p) ==
    /\ Now(p).pc \in {"read", "confirm", "record"}
    /\ PanelAt(p, "done")
    /\ UNCHANGED db /\ PanelDb

PanelStep(p) ==
    \/ \E b \in Bookings : LoadChargeable(p, b)
    \/ ResolveRetained(p) \/ ReplaceRetained(p) \/ CloseRetained(p)
    \/ CreateIntent(p) \/ StartCharge(p) \/ StartWasApplied(p)
    \/ DiscardCreated(p) \/ ConfirmCard(p) \/ RecordResult(p) \/ PanelDies(p)

-----------------------------------------------------------------------------
(* The tourist changes the card. *)

UpdateGo(u, r) == update' = [update EXCEPT ![u] = r]
UpdateDone(u)  == UpdateGo(u, [UpdateIdle EXCEPT !.pc = "done"])
Detach(b, c)   == attached' = [attached EXCEPT ![b] = @ \ {c}]
CardOnly       ==
    UNCHANGED <<gateway, eng, wd, sw, web, panel, clean, seen, used, auto>> /\ Kept

\* The form makes the payment method, then updateBookingCard reads the
\* booking and the card.
SubmitCard(u, b) ==
    /\ update[u].pc = "idle" /\ status[b] = "pending_minimum"
    /\ Cardinality({v \in Updates : update[v].pc # "idle"}) < cast.changes
    /\ attached' = [attached EXCEPT ![b] = @ \cup {u}]
    /\ UpdateGo(u, [pc |-> "set", b |-> b, prev |-> card[b]])
    /\ UNCHANGED <<db, card>> /\ CardOnly

\* update_booking_payment_method under the lock of the booking.  A card whose
\* data is incomplete never gets here, and the limit of five changes, the expiry
\* of the card and the cap of live seats refuse one too.
CanSetCard(b) ==
    /\ status[b] = "pending_minimum"
    /\ sched[b].recovery # Null => sched[b].recovery > now

\* A booking that was rejected is tried again, one hour after the last time.
NextAttempt(b) ==
    CASE sched[b].attempts = 0        -> sched[b].next
      [] OTHER -> IF sched[b].started = "recent" THEN "later" ELSE "due"

SetCard(u) ==
    /\ update[u].pc = "set"
    /\ LET b == update[u].b IN
       \/ /\ CanSetCard(b)
          /\ card' = [card EXCEPT ![b] = u]
          /\ sched' = [sched EXCEPT ![b].next = NextAttempt(b)]
          /\ UpdateGo(u, [update[u] EXCEPT !.pc = "reread"])
       \/ /\ UpdateGo(u, [update[u] EXCEPT !.pc = "reject"])
          /\ UNCHANGED <<card, sched>>
    /\ UNCHANGED <<now, status, mark, row, refund, event, dep, attached>>
    /\ CardOnly

\* reject: the new card backs no booking.
RejectCard(u) ==
    /\ update[u].pc = "reject"
    /\ Detach(update[u].b, u)
    /\ UpdateDone(u)
    /\ UNCHANGED <<db, card>> /\ CardOnly

RereadCard(u) ==
    /\ update[u].pc = "reread"
    /\ IF card[update[u].b] = u
       THEN UpdateGo(u, [update[u] EXCEPT !.pc = "detach"])
       ELSE UpdateDone(u)
    /\ UNCHANGED <<db, card, attached>> /\ CardOnly

\* Mutant: the card to detach is read after the change.
ReadAfter(u) == card[update[u].b]

Replaced(u) == update[u].prev

DetachReplaced(u) ==
    /\ update[u].pc = "detach"
    /\ Detach(update[u].b, Replaced(u))
    /\ UpdateDone(u)
    /\ UNCHANGED <<db, card>> /\ CardOnly

UpdateStep(u) ==
    \/ \E b \in Bookings : SubmitCard(u, b)
    \/ SetCard(u) \/ RejectCard(u) \/ RereadCard(u) \/ DetachReplaced(u)

-----------------------------------------------------------------------------
(* The clean-up of a customer: every card is detached before the DELETE.   *)

\* isCustomerCleanupDue
HasOpenIntent(b) == \E k \in Ids : row[b, k] \in {"pending", "failed"}
CleanupDue(b) ==
    /\ ~HasOpenIntent(b)
    /\ status[b] = "cancelled" \/ (status[b] = "confirmed" /\ Started)

CleanOnly == UNCHANGED <<vars, panel, update, card, seen, used, auto>> /\ Kept

FetchCandidate(b) ==
    /\ "close-payment-intents" \in cast.jobs
    /\ clean.pc = "idle" /\ CleanupDue(b) /\ attached[b] # {}
    /\ clean' = [pc |-> "detach", b |-> b]
    /\ CleanOnly /\ UNCHANGED attached

\* One request for each card; nothing but a new card changes meanwhile.
CleanupCustomer ==
    /\ clean.pc = "detach"
    /\ attached' = [attached EXCEPT ![clean.b] = {}]
    /\ clean' = CleanIdle
    /\ CleanOnly

-----------------------------------------------------------------------------
(* The steps of DepartureCharge, next to the cards. *)

OwnOnly == UNCHANGED <<panel, update, clean, card, attached, auto>> /\ Kept

\* The engine charges the cards it read with the bookings.
EngineWithCards ==
    /\ "charge-departures" \in cast.jobs
    /\ EngineStep
    /\ eng.pc = "start" /\ eng'.pc = "confirm" =>
          CanStartWith(eng.b, eng.k, seen[eng.b])
    /\ seen' = IF eng.pc = "auth0" THEN card ELSE seen
    /\ used' = IF eng.pc = "confirm"
               THEN [used EXCEPT ![<<eng.b, eng.k>>] = seen[eng.b]] ELSE used
    /\ OwnOnly

EngCardChanged ==
    /\ eng.pc = "start" /\ CanStart(eng.b, eng.k)
    /\ ~CanStartWith(eng.b, eng.k, seen[eng.b])
    /\ Goto("drop")
    /\ EngineOnly /\ OwnOnly /\ UNCHANGED <<seen, used>>

\* A manual charge that was started less than half an hour ago is not yet the
\* watchdog's, and a booking of the panel is not fetched by it.
PanelCharges(b) == \E p \in Panel :
    panel[p].pc \in {"read", "confirm", "record"} /\ panel[p].b = b

\* An intent that settles by itself never waits for a capture.
OthersWithCards ==
    /\ \/ /\ "watch-charges" \in cast.jobs
          /\ WatchStep
          /\ wd.pc = "idle" => ~PanelCharges(wd'.b)
       \/ "close-payment-intents" \in cast.jobs /\ SweepStep
       \/ Environment \/ Crash
       \/ \E c \in Callers : WebStep(c)
    /\ \A p \in auto : intent'[p] = "requires_capture" => intent' = intent
    /\ OwnOnly /\ UNCHANGED <<seen, used>>

\* The tourist answers the challenge of a manual charge.
AutoSettles ==
    /\ \E p \in auto : /\ intent[p] = "requires_action"
                       /\ SetIntent(p[1], p[2], "succeeded")
    /\ UNCHANGED <<db, faults, eng, wd, sw, web, seen, used>> /\ OwnOnly

CardsNext ==
    \/ EngineWithCards \/ EngCardChanged \/ OthersWithCards \/ AutoSettles
    \/ \E p \in Panel : PanelStep(p)
    \/ \E u \in Updates : UpdateStep(u)
    \/ \E b \in Bookings : FetchCandidate(b)
    \/ CleanupCustomer

CardsSpec == CardsInit /\ [][CardsNext]_all

-----------------------------------------------------------------------------
(* Safety.  HeldOnce and MoneyIsTracked say of the manual charge what they  *)
(* say of the engine.                                                       *)

\* No card that may still take money is taken off its customer, neither by a
\* change of card that was refused or overtaken nor by the clean-up: not the
\* one a booking that may be charged has, nor one with money held or asked for.
CardsStayAttached ==
    \A b \in Bookings :
       /\ Live(b) => card[b] \in attached[b]
       /\ \A k \in Ids : intent[b, k] \in Committed \ {"succeeded"} =>
             used[b, k] \in attached[b]

\* Nobody charges a card that the tourist has replaced, however long ago the
\* charge was decided.
ChargesTheSavedCard ==
    [][\A b \in Bookings, k \in Ids :
         /\ intent[b, k] = "requires_payment_method"
         /\ intent'[b, k] \in Committed
         => used'[b, k] = card[b]]_all

=============================================================================
