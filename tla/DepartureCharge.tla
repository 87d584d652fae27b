--------------------------- MODULE DepartureCharge ---------------------------
(***************************************************************************)
(* The deferred charge of one departure.  Four kinds of process share the  *)
(* rows of ChargeDatabase and the intents of the payment gateway, and none *)
(* can hold a row lock while it talks to the gateway:                      *)
(*                                                                         *)
(*   eng   the job charge-departures: authorizes every booking, captures   *)
(*         all of them when the minimum is reached, releases all of them   *)
(*         when the deadline passes;                                       *)
(*   wd    the job watch-charges: charges in flight, expired recoveries    *)
(*         and bookings of a departure that started;                       *)
(*   sw    the job close-payment-intents: intents of cancelled bookings;   *)
(*   web   requests of tourists and staff that cancel a booking.           *)
(*                                                                         *)
(* A step is one call: a query, an SQL function or a request to the        *)
(* gateway.  What a process read in an earlier step may be stale.          *)
(***************************************************************************)
EXTENDS BookingLife

CONSTANTS
    Jobs,        \* the jobs the worker runs
    Answers,     \* what the gateway may answer to a confirm
    Callers,     \* the cancelling requests that can be under way at once
    MaxFaults,   \* bound: failed gateway calls and processes that die
    ReadFaults   \* whether a query of the web may fail

AllJobs == {"charge-departures", "watch-charges", "close-payment-intents"}

ASSUME FaultsAssumption == MaxFaults \in Nat /\ ReadFaults \in BOOLEAN
ASSUME JobsAssumption == Jobs \subseteq AllJobs
ASSUME AnswersAssumption ==
    Answers \subseteq {"requires_capture", "requires_action", "processing",
                       "requires_payment_method", "succeeded", "failed",
                       "canceled"}

VARIABLES
    intent,   \* the gateway: the state of each payment intent
    faults,   \* faults so far
    eng, wd, sw, web

gateway == <<intent, faults>>
vars    == <<db, gateway, eng, wd, sw, web>>

-----------------------------------------------------------------------------
(* The gateway.  "none" is an intent not created yet; "capturing" is one   *)
(* whose capture is in progress, which a GET reports as processing.        *)

IntentStates == {"none", "requires_payment_method", "requires_action",
                 "processing", "requires_capture", "capturing", "succeeded",
                 "canceled", "failed"}
Replies == IntentStates \ {"none", "capturing"}

ClosedIntents == {"canceled", "failed"}
Confirmable   == {"requires_action", "requires_payment_method",
                  "requires_capture"}

\* Can still take money of the tourist, holds it, or took it.
Committed == {"requires_action", "processing", "requires_capture",
              "capturing", "succeeded"}

Get(b, k) == IF intent[b, k] = "capturing" THEN "processing" ELSE intent[b, k]

Fault == faults < MaxFaults /\ faults' = faults + 1

SetIntent(b, k, s) == intent' = [intent EXCEPT ![<<b, k>>] = s]

\* Where an intent may go by itself: the tourist answers a challenge, a payment
\* or a capture settles, a hold expires.
Later(s) ==
    CASE s = "requires_action"  -> {"requires_capture", "requires_payment_method"}
      [] s = "processing"       -> {"requires_capture", "succeeded", "failed"}
      [] s = "capturing"        -> {"succeeded", "requires_capture"}
      [] s = "requires_capture" -> {"canceled"}
      [] OTHER                  -> {}

\* POST cancel.  Only a confirmable intent can be cancelled; a lost answer
\* leaves the caller not knowing whether the request arrived.
CancelIntent(b, k, ok) ==
    \/ /\ ok /\ intent[b, k] \in Confirmable
       /\ SetIntent(b, k, "canceled")
       /\ UNCHANGED faults
    \/ /\ ~ok /\ intent[b, k] \notin Confirmable
       /\ UNCHANGED gateway
    \/ /\ ~ok /\ intent[b, k] \in Confirmable
       /\ Fault
       /\ intent' \in {intent, [intent EXCEPT ![<<b, k>>] = "canceled"]}

-----------------------------------------------------------------------------
(* The processes. *)

Tasks == {"clear", "adopt", "attempt", "capture", "release"}
Modes == {"open", "late", "resolved"}

EnginePcs == {"idle", "due", "auth0", "auth", "adoptGet", "attemptGet",
              "closePay", "discard", "discarded", "create", "start", "drop",
              "confirm", "confirmed", "register", "decide", "before", "cap0", "cap",
              "capMark",
              "capture", "reget", "captured", "resolve0", "resolve",
              "rel0", "rel", "relGet", "relCancel", "relDb", "close",
              "autoCancel"}

NoReply == "none"

EngineIdle == [pc |-> "idle", mode |-> "open", todo |-> [b \in Bookings |-> {}],
               b |-> 1, k |-> NoId, reply |-> NoReply, ok |-> TRUE]
Watchers   == {"idle", "get", "do", "cancelIntent"}
WatchIdle  == [pc |-> "idle", b |-> 1, k |-> NoId, kind |-> "inflight",
               challenge |-> "wait", dead |-> "record", act |-> "wait",
               live |-> FALSE]
SweepIdle  == [pc |-> "idle", b |-> 1, k |-> NoId, act |-> "wait"]
WebIdle    == [pc |-> "idle", b |-> 1, k |-> NoId]

Reasons   == {"action_expired", "recovery_expired", "departure_started"}
WatchActs == {"wait", "settle", "register_action", "record_retryable",
              "record_terminal", "cancel"}

EngineType ==
    [pc : EnginePcs, mode : Modes, todo : [Bookings -> SUBSET Tasks],
     b : Nat, k : Nat, reply : Replies \cup {NoReply}, ok : BOOLEAN]
WatchType ==
    [pc : Watchers, b : Nat, k : Nat,
     kind : {"inflight", "unpaid", "authorized"},
     challenge : {"wait", "register_action"} \cup Reasons,
     dead : {"record"} \cup Reasons,
     act : WatchActs, live : BOOLEAN]
SweepType ==
    [pc : {"idle", "do"}, b : Nat, k : Nat,
     act : {"wait", "settle", "cancel", "mark_closed"}]
WebType ==
    [pc : {"idle", "unpaid", "read", "release", "check", "unclaim", "close"},
     b : Nat, k : Nat]

\* Points where a process holds a booking and, in the second, an intent.
HasBooking == EnginePcs \ {"idle", "due", "auth0", "auth", "decide", "before",
                           "cap0", "cap", "resolve0", "resolve", "rel0", "rel",
                           "close", "autoCancel"}

GatewayTypeOK ==
    /\ intent \in [Bookings \X Ids -> IntentStates]
    /\ faults \in 0..MaxFaults

EngineTypeOK ==
    /\ eng \in EngineType
    /\ eng.pc \in HasBooking => eng.b \in Bookings
    /\ eng.pc \in HasBooking \ {"create"} => eng.k \in Ids

WatchTypeOK ==
    /\ wd \in WatchType
    /\ wd.pc # "idle" =>
          /\ wd.b \in Bookings /\ wd.k \in Ids \cup {NoId}
          /\ wd.k = NoId => wd.pc = "do" /\ wd.act = "cancel" /\ ~wd.live

SweepTypeOK ==
    /\ sw \in SweepType
    /\ sw.pc # "idle" => sw.b \in Bookings /\ sw.k \in Ids

WebTypeOK ==
    /\ web \in [Callers -> WebType]
    /\ \A c \in Callers :
          /\ web[c].pc # "idle" => web[c].b \in Bookings
          /\ web[c].pc \in {"release", "check"} => web[c].k \in Ids

TypeOK ==
    DbTypeOK /\ GatewayTypeOK /\ EngineTypeOK /\ WatchTypeOK /\ SweepTypeOK
      /\ WebTypeOK

Init ==
    /\ DbInit
    /\ intent = [p \in Bookings \X Ids |-> "none"]
    /\ faults = 0
    /\ eng = EngineIdle
    /\ wd = WatchIdle
    /\ sw = SweepIdle
    /\ web = [c \in Callers |-> WebIdle]

-----------------------------------------------------------------------------
(* charge-departures: one run over the departure. *)

Goto(pc) == eng' = [eng EXCEPT !.pc = pc]
Stop     == eng' = EngineIdle

\* Done with a booking: back to the list.
Resume(pc, ok) == eng' = [eng EXCEPT !.pc = pc, !.ok = @ /\ ok, !.b = 1,
                                     !.k = NoId, !.reply = NoReply]
EngineOnly   == UNCHANGED <<db, gateway, wd, sw, web>>
EngineDb     == UNCHANGED <<gateway, wd, sw, web>>
EngineRemote == UNCHANGED <<db, wd, sw, web>>

\* fetchDepartureCandidates and the head of processDeparture: what it reads
\* here of the departure and of the clock holds for the whole run.
EngStart ==
    /\ eng.pc = "idle" /\ "charge-departures" \in Jobs
    /\ \E b \in Bookings : Live(b)
    /\ ~dep.cancelled /\ ~Started
    /\ eng' = CASE dep.resolution # "none" ->
                     [EngineIdle EXCEPT !.pc = "auth0", !.mode = "resolved"]
                [] dep.resolution = "none" /\ ~dep.triggered ->
                     [EngineIdle EXCEPT !.pc = "due"]
                [] dep.resolution = "none" /\ dep.triggered
                     /\ dep.deadline > now ->
                     [EngineIdle EXCEPT !.pc = "auth0"]
                [] OTHER ->
                     [EngineIdle EXCEPT !.pc = "decide", !.mode = "late"]
    /\ EngineOnly

\* departureChargeDue and openDepartureCharge, then the deadline just stamped.
EngOpen ==
    /\ eng.pc = "due"
    /\ IF CanOpenCharge
       THEN /\ OpenDepartureCharge
            /\ eng' = IF CycleDeadline > now
                      THEN [eng EXCEPT !.pc = "auth0"]
                      ELSE [eng EXCEPT !.pc = "decide", !.mode = "late"]
       ELSE Stop /\ UNCHANGED db
    /\ EngineDb

\* canAttempt: a due retry, or a booking that never failed.
CanAttempt(b) == \/ sched[b].next = "due"
                 \/ sched[b].next = "none" /\ sched[b].attempts = 0

\* authorizePending reads the bookings once, then works through the list.
EngFetchAuth ==
    /\ eng.pc = "auth0"
    /\ eng' = [eng EXCEPT !.pc = "auth", !.todo = [b \in Bookings |->
          {t \in {"clear", "adopt", "attempt"} : Live(b) /\
             CASE t = "clear" -> "stale" \in {mark[b].claim, mark[b].capture}
               [] t = "adopt" -> status[b] = "pending_payment" /\ ~mark[b].auth
               [] OTHER       -> status[b] = "pending_minimum" /\ CanAttempt(b)}]]
    /\ EngineOnly

\* The next booking of the list, in the order of created_at.
IsNext(b) == eng.todo[b] # {} /\ \A c \in 1..(b - 1) : eng.todo[c] = {}
ListDone  == \A b \in Bookings : eng.todo[b] = {}
Taken(b)  == [eng.todo EXCEPT ![b] = {}]

EngClear(b) ==
    /\ eng.pc = "auth" /\ IsNext(b) /\ "clear" \in eng.todo[b]
    /\ ClearStaleMarks(b)
    /\ eng' = [eng EXCEPT !.todo[b] = @ \ {"clear"}]
    /\ EngineDb

\* fetchPendingIntent of adoptOrphan and of authorizeOne.
EngLookup(b) ==
    /\ eng.pc = "auth" /\ IsNext(b) /\ "clear" \notin eng.todo[b]
    /\ eng' = [eng EXCEPT !.todo = Taken(b), !.b = b, !.k = PendingOf(b),
          !.pc = IF "adopt" \in eng.todo[b]
                 THEN IF PendingOf(b) # NoId THEN "adoptGet" ELSE "auth"
                 ELSE IF PendingOf(b) # NoId THEN "attemptGet" ELSE "create"]
    /\ EngineOnly

\* adoptOrphan: a hold without a record is recorded, a dead intent is failed.
EngAdoptGet ==
    /\ eng.pc = "adoptGet"
    /\ LET s == Get(eng.b, eng.k) IN
       IF s \in {"requires_capture"} \cup ClosedIntents
       THEN eng' = [eng EXCEPT !.pc = "register", !.reply = s]
       ELSE Resume("auth", TRUE)
    /\ EngineOnly

\* authorizeOne: the intent a former attempt left is settled, closed or
\* discarded before another one is created.
EngAttemptGet ==
    /\ eng.pc = "attemptGet"
    /\ LET s == Get(eng.b, eng.k) IN
       CASE s = "succeeded" ->
              eng' = [eng EXCEPT !.pc = "register", !.reply = s]
         [] s \in ClosedIntents -> Goto("closePay")
         [] s \in {"requires_payment_method", "requires_capture"} ->
              Goto("discard")
         [] OTHER -> Resume("auth", TRUE)
    /\ EngineOnly

EngClosePay ==
    /\ eng.pc = "closePay"
    /\ ClosePendingPayment(eng.b, eng.k)
    /\ Goto("create")
    /\ EngineDb

EngDiscard ==
    /\ eng.pc = "discard"
    /\ \E ok \in BOOLEAN : /\ CancelIntent(eng.b, eng.k, ok)
                           /\ IF ok THEN Goto("discarded") ELSE Resume("auth", TRUE)
    /\ EngineRemote

EngDiscarded ==
    /\ eng.pc = "discarded"
    /\ ClosePendingPayment(eng.b, eng.k)
    /\ IF CanClosePending(eng.b, eng.k) THEN Goto("create")
       ELSE Resume("auth", TRUE)
    /\ EngineDb

\* createManualCaptureIntent.  Past the bound MaxIntents the run goes on with
\* the next booking, as it does after a failed request.
FreshIds(b) == {k \in Ids : intent[b, k] = "none"}

EngCreate ==
    /\ eng.pc = "create"
    /\ IF FreshIds(eng.b) = {}
       THEN Resume("auth", TRUE) /\ UNCHANGED gateway
       ELSE \E k \in FreshIds(eng.b) :
               /\ \A i \in 1..(k - 1) : i \notin FreshIds(eng.b)
               /\ SetIntent(eng.b, k, "requires_payment_method")
               /\ eng' = [eng EXCEPT !.pc = "start", !.k = k]
               /\ UNCHANGED faults
    /\ EngineRemote

\* Mutant: the outcome of charge_booking_start is not looked at.
EngStartAnyway ==
    /\ eng.pc = "start"
    /\ IF CanStart(eng.b, eng.k) THEN ChargeBookingStart(eng.b, eng.k)
       ELSE UNCHANGED db
    /\ Goto("confirm")
    /\ EngineDb

EngStartCharge ==
    /\ eng.pc = "start"
    /\ IF CanStart(eng.b, eng.k)
       THEN ChargeBookingStart(eng.b, eng.k) /\ Goto("confirm")
       ELSE Goto("drop") /\ UNCHANGED db
    /\ EngineDb

EngDrop ==
    /\ eng.pc = "drop"
    /\ \E ok \in BOOLEAN : CancelIntent(eng.b, eng.k, ok)
    /\ Resume("auth", TRUE)
    /\ EngineRemote

\* confirmIntent: a 400, from an intent closed meanwhile, is answered by a GET.
EngConfirm ==
    /\ eng.pc = "confirm"
    /\ IF intent[eng.b, eng.k] = "requires_payment_method"
       THEN \E s \in Answers :
               /\ SetIntent(eng.b, eng.k, s)
               /\ \/ /\ eng' = [eng EXCEPT !.pc = "confirmed", !.reply = s]
                     /\ UNCHANGED faults
                  \/ Fault /\ Stop   \* a timeout ends the departure's run
       ELSE /\ eng' = [eng EXCEPT !.pc = "confirmed",
                                  !.reply = Get(eng.b, eng.k)]
            /\ UNCHANGED gateway
    /\ EngineRemote

\* What an intent's answer means for the booking.
Register(b, k, s) ==
    CASE s = "requires_capture" -> RecordAuthorization(b, k)
      [] s = "requires_action"  -> ChargeRequiresAction(b, k)
      [] s = "succeeded"        -> ConfirmBooking(b, k)
      [] s = "processing"       -> UNCHANGED db
      [] s \in ClosedIntents    -> ChargeAttemptFailed(b, k, TRUE)
      [] OTHER                  -> ChargeAttemptFailed(b, k, FALSE)

EngRegister ==
    /\ eng.pc \in {"register", "confirmed"}
    /\ Register(eng.b, eng.k, eng.reply)
    /\ Resume("auth", TRUE)
    /\ EngineDb

EngAuthDone ==
    /\ eng.pc = "auth" /\ ListDone
    /\ Goto(IF eng.mode = "resolved" THEN "cap0" ELSE "decide")
    /\ EngineOnly

\* Mutant: the holds of a departure below its minimum are let go at once.
EngDecideEarly ==
    /\ eng.pc = "decide"
    /\ Goto(IF Authorized >= Minimum THEN "before" ELSE "rel0")
    /\ EngineOnly

\* cycleInput and decideCycle.
EngDecide ==
    /\ eng.pc = "decide"
    /\ CASE Authorized >= Minimum -> Goto("before")
         [] Authorized < Minimum /\ eng.mode = "open" -> Stop
         [] OTHER -> Goto("rel0")
    /\ EngineOnly

\* captureDeparture counts again before it captures.
EngBefore ==
    /\ eng.pc = "before"
    /\ IF Authorized >= Minimum THEN Goto("cap0") ELSE Stop
    /\ EngineOnly

\* captureAll skips a claimed booking, and then it did not capture all.
EngFetchCapture ==
    /\ eng.pc = "cap0"
    /\ eng' = [eng EXCEPT !.pc = "cap",
          !.ok = \A b \in Bookings : HasAuthorization(b) => mark[b].claim = "none",
          !.todo = [b \in Bookings |->
              IF HasAuthorization(b) /\ mark[b].claim = "none"
              THEN {"capture"} ELSE {}]]
    /\ EngineOnly

EngCaptureLookup(b) ==
    /\ eng.pc = "cap" /\ IsNext(b)
    /\ eng' = [eng EXCEPT !.todo = Taken(b), !.b = b, !.k = PendingOf(b),
                          !.pc = IF PendingOf(b) = NoId THEN "cap" ELSE "capMark"]
    /\ EngineOnly

EngMark ==
    /\ eng.pc = "capMark"
    /\ IF CanMarkCapture(eng.b)
       THEN MarkCaptureStarted(eng.b) /\ Goto("capture")
       ELSE Resume("cap", FALSE) /\ UNCHANGED db
    /\ EngineDb

\* captureIntent.  An error or a lost answer is followed by a GET.
EngCapture ==
    /\ eng.pc = "capture"
    /\ LET b == eng.b  k == eng.k IN
       \/ /\ intent[b, k] = "requires_capture"
          /\ \E s \in {"succeeded", "capturing"} :
                /\ SetIntent(b, k, s)
                /\ \/ /\ eng' = [eng EXCEPT !.pc = "captured",
                              !.reply = IF s = "succeeded" THEN s
                                        ELSE "processing"]
                      /\ UNCHANGED faults
                   \/ Fault /\ Goto("reget")
       \/ /\ intent[b, k] # "requires_capture"
          /\ Goto("reget") /\ UNCHANGED gateway
       \/ /\ intent[b, k] = "requires_capture"
          /\ Fault /\ Goto("reget") /\ UNCHANGED intent
    /\ EngineRemote

EngReget ==
    /\ eng.pc = "reget"
    /\ \/ /\ eng' = [eng EXCEPT !.pc = "captured",
                                !.reply = Get(eng.b, eng.k)]
          /\ UNCHANGED gateway
       \/ Resume("cap", FALSE) /\ Fault /\ UNCHANGED intent
    /\ EngineRemote

\* captureOne: only a charge that confirms its booking counts as done.
EngCaptured ==
    /\ eng.pc = "captured"
    /\ LET b == eng.b  k == eng.k  s == eng.reply IN
       /\ CASE s = "succeeded" -> ConfirmBooking(b, k)
            [] s \in {"requires_capture", "processing"} -> UNCHANGED db
            [] OTHER -> ChargeAttemptFailed(b, k, TRUE)
       /\ Resume("cap", s = "succeeded" /\ ConfirmOutcome(b, k) = "confirmed")
    /\ EngineDb

\* Mutant: the minimum is declared reached with charges left behind.
EngCaptureDoneAnyway ==
    /\ eng.pc = "cap" /\ ListDone
    /\ IF eng.mode # "resolved" THEN Goto("resolve0") ELSE Stop
    /\ EngineOnly

EngCaptureDone ==
    /\ eng.pc = "cap" /\ ListDone
    /\ IF eng.ok /\ eng.mode # "resolved" THEN Goto("resolve0") ELSE Stop
    /\ EngineOnly

EngRecount ==
    /\ eng.pc = "resolve0"
    /\ IF Captured >= Minimum THEN Goto("resolve") ELSE Stop
    /\ EngineOnly

EngResolve ==
    /\ eng.pc = "resolve"
    /\ IF CanResolve("reached") THEN ResolveDepartureMinimum("reached")
       ELSE UNCHANGED db
    /\ Stop
    /\ EngineDb

\* releaseAll; ok while nothing that can hold or take money was left behind.
EngFetchRelease ==
    /\ eng.pc = "rel0"
    /\ eng' = [eng EXCEPT !.pc = "rel", !.ok = TRUE,
          !.todo = [b \in Bookings |-> IF status[b] = "pending_payment"
                                       THEN {"release"} ELSE {}]]
    /\ EngineOnly

EngReleaseLookup(b) ==
    /\ eng.pc = "rel" /\ IsNext(b)
    /\ eng' = [eng EXCEPT !.todo = Taken(b), !.b = b, !.k = PendingOf(b),
                          !.pc = IF PendingOf(b) = NoId THEN "rel" ELSE "relGet"]
    /\ EngineOnly

EngReleaseGet ==
    /\ eng.pc = "relGet"
    /\ LET s == Get(eng.b, eng.k) IN
       CASE s \in Confirmable   -> Goto("relCancel")
         [] s \in ClosedIntents -> Goto("relDb")
         [] OTHER -> Resume("rel", FALSE)
    /\ EngineOnly

EngReleaseCancel ==
    /\ eng.pc = "relCancel"
    /\ \E ok \in BOOLEAN :
          /\ CancelIntent(eng.b, eng.k, ok)
          /\ IF ok THEN Goto("relDb") ELSE Resume("rel", FALSE)
    /\ EngineRemote

EngReleaseDb ==
    /\ eng.pc = "relDb"
    /\ ReleaseAuthorization(eng.b, eng.k)
    /\ Resume("rel", TRUE)
    /\ EngineDb

\* departureSeatCounts and decideRelease, with the clock read again.
EngReleaseDone ==
    /\ eng.pc = "rel" /\ ListDone
    /\ CASE Start - now > EarlyFloor -> Goto("close")
         [] /\ Start - now <= EarlyFloor
            /\ Sold > 0
            /\ AutoCancel /\ eng.ok /\ Authorized = 0
            /\ Start - now > Notice -> Goto("autoCancel")
         [] OTHER -> Stop
    /\ EngineOnly

EngClose ==
    /\ eng.pc = "close"
    /\ CloseDepartureCharge
    /\ Stop
    /\ EngineDb

EngAutoCancel ==
    /\ eng.pc = "autoCancel"
    /\ IF CanAutoCancel THEN ResolveDepartureMinimum("auto_cancelled")
       ELSE UNCHANGED db
    /\ Stop
    /\ EngineDb

\* A call throws, or the worker dies: the run of the departure ends there.
EngAbort ==
    /\ eng.pc # "idle"
    /\ Fault
    /\ Stop
    /\ UNCHANGED <<db, intent, wd, sw, web>>

EngineStep ==
    \/ EngStart \/ EngOpen
    \/ EngFetchAuth \/ \E b \in Bookings : EngClear(b) \/ EngLookup(b)
    \/ EngAdoptGet \/ EngAttemptGet \/ EngClosePay
    \/ EngDiscard \/ EngDiscarded
    \/ EngCreate \/ EngStartCharge \/ EngDrop \/ EngConfirm \/ EngRegister
    \/ EngAuthDone \/ EngDecide \/ EngBefore
    \/ EngFetchCapture \/ \E b \in Bookings : EngCaptureLookup(b)
    \/ EngMark \/ EngCapture \/ EngReget \/ EngCaptured
    \/ EngCaptureDone \/ EngRecount \/ EngResolve
    \/ EngFetchRelease \/ \E b \in Bookings : EngReleaseLookup(b)
    \/ EngReleaseGet \/ EngReleaseCancel \/ EngReleaseDb
    \/ EngReleaseDone \/ EngClose \/ EngAutoCancel

-----------------------------------------------------------------------------
(* watch-charges. *)

WatchOnly == UNCHANGED <<db, gateway, eng, sw, web>>

\* The reason a deadline gives for cancelling a charge in flight.
Dead(b) == IF Started THEN "departure_started"
           ELSE IF sched[b].recovery # Null /\ sched[b].recovery <= now
           THEN "recovery_expired" ELSE "record"
Challenge(b) ==
    CASE Started -> "departure_started"
      [] ~Started /\ sched[b].awaiting # Null ->
            IF sched[b].awaiting > now THEN "wait" ELSE "action_expired"
      [] OTHER -> IF Dead(b) = "record" THEN "register_action" ELSE Dead(b)

\* The grace of 30 minutes, far longer than the timeout of a request: a charge
\* that old is no longer in the hands of the run that started it.
InGrace(b) == eng.pc \in {"confirm", "confirmed"} /\ eng.b = b

\* fetchInFlightCharges, with the times decideInFlight will compare.
WdInFlight(b) ==
    /\ wd.pc = "idle" /\ "watch-charges" \in Jobs
    /\ status[b] = "pending_payment" /\ ~mark[b].auth
    /\ sched[b].started # "none" /\ ~InGrace(b)
    /\ PendingIds(b) # {}
    /\ wd' = [WatchIdle EXCEPT !.pc = "get", !.b = b, !.k = PendingOf(b),
                               !.challenge = Challenge(b), !.dead = Dead(b)]
    /\ WatchOnly

\* fetchExpiredRecoveries and fetchStartedUnpaid.  Without an intent the
\* booking is cancelled at once.
WdUnpaid(b) ==
    /\ wd.pc = "idle" /\ "watch-charges" \in Jobs
    /\ \/ /\ status[b] = "pending_minimum"
          /\ \/ Started
             \/ /\ sched[b].attempts > 0
                /\ sched[b].recovery # Null /\ sched[b].recovery <= now
       \/ Started /\ HasAuthorization(b)
    /\ wd' = [WatchIdle EXCEPT !.b = b, !.k = PendingOf(b), !.act = "cancel",
                  !.kind = IF mark[b].auth THEN "authorized" ELSE "unpaid",
                  !.dead = IF Started THEN "departure_started"
                           ELSE "recovery_expired",
                  !.pc = IF PendingOf(b) = NoId THEN "do" ELSE "get"]
    /\ WatchOnly

\* Mutant: a payment in process counts as paid.
UnpaidActEager(s) ==
    CASE s \in {"succeeded", "processing"} -> "settle" [] OTHER -> "cancel"

\* decideInFlight and decideUnpaidCancel: what the GET says comes first.
InFlightAct(s) ==
    CASE s = "succeeded"  -> "settle"
      [] s = "processing" -> "wait"
      [] s = "requires_capture" ->
            IF wd.dead = "departure_started" THEN "cancel" ELSE "wait"
      [] s = "requires_action" ->
            IF wd.challenge \in Reasons THEN "cancel" ELSE wd.challenge
      [] OTHER -> IF wd.dead \in Reasons THEN "cancel"
                  ELSE IF s \in ClosedIntents THEN "record_terminal"
                  ELSE "record_retryable"

UnpaidAct(s) ==
    CASE s = "succeeded" -> "settle" [] s = "processing" -> "wait"
      [] OTHER -> "cancel"

\* The reason invoked for a charge in flight depends on what the GET said.
WdGet ==
    /\ wd.pc = "get"
    /\ LET s == Get(wd.b, wd.k)
           a == IF wd.kind = "inflight" THEN InFlightAct(s) ELSE UnpaidAct(s)
           r == IF wd.kind = "inflight" /\ s = "requires_action"
                THEN wd.challenge ELSE wd.dead
       IN wd' = IF a = "wait" THEN WatchIdle
                ELSE [wd EXCEPT !.pc = "do", !.act = a, !.challenge = "wait",
                                !.dead = IF a = "cancel" THEN r ELSE "record",
                                !.live = a = "cancel" /\ s \in Confirmable]
    /\ WatchOnly

CanWatchCancel == IF wd.kind = "unpaid" THEN CanCancelUnpaid(wd.b)
                  ELSE CanCancelInFlight(wd.b, wd.dead)

WdDo ==
    /\ wd.pc = "do"
    /\ CASE wd.act = "settle"           -> ConfirmBooking(wd.b, wd.k)
         [] wd.act = "register_action"  -> ChargeRequiresAction(wd.b, wd.k)
         [] wd.act = "record_retryable" -> ChargeAttemptFailed(wd.b, wd.k, FALSE)
         [] wd.act = "record_terminal"  -> ChargeAttemptFailed(wd.b, wd.k, TRUE)
         [] OTHER -> IF ~CanWatchCancel THEN UNCHANGED db
                     ELSE IF wd.kind = "unpaid" THEN CancelUnpaidBooking(wd.b)
                     ELSE CancelChargeInFlight(wd.b)
    /\ wd' = IF wd.act = "cancel" /\ CanWatchCancel /\ wd.live
             THEN [WatchIdle EXCEPT !.pc = "cancelIntent", !.b = wd.b, !.k = wd.k]
             ELSE WatchIdle
    /\ UNCHANGED <<gateway, eng, sw, web>>

WdCancelIntent ==
    /\ wd.pc = "cancelIntent"
    /\ \E ok \in BOOLEAN : CancelIntent(wd.b, wd.k, ok)
    /\ wd' = WatchIdle
    /\ UNCHANGED <<db, eng, sw, web>>

WdAbort ==
    /\ wd.pc # "idle"
    /\ Fault
    /\ wd' = WatchIdle
    /\ UNCHANGED <<db, intent, eng, sw, web>>

WatchStep ==
    \/ \E b \in Bookings : WdInFlight(b) \/ WdUnpaid(b)
    \/ WdGet \/ WdDo \/ WdCancelIntent

-----------------------------------------------------------------------------
(* close-payment-intents.  A row of a cancelled booking stays in its list   *)
(* until it is settled or the gateway says that the intent is closed.       *)

\* Mutants: a payment in process is refunded; the intent of a cancelled
\* booking is closed without a look at what it charged; holds are left alone.
SweepActEager(s) ==
    CASE s \in {"succeeded", "processing"} -> "settle"
      [] s \in Confirmable -> "cancel"
      [] OTHER -> "mark_closed"

SweepActUnsettled(s) ==
    CASE s = "processing"  -> "wait"
      [] s \in Confirmable -> "cancel"
      [] OTHER             -> "mark_closed"

SweepActHolding(s) ==
    CASE s = "succeeded" -> "settle"
      [] s \in {"processing", "requires_capture"} -> "wait"
      [] s \in Confirmable \ {"requires_capture"} -> "cancel"
      [] OTHER -> "mark_closed"

SweepAct(s) ==
    CASE s = "succeeded"        -> "settle"
      [] s = "processing"       -> "wait"
      [] s \in Confirmable      -> "cancel"
      [] OTHER                  -> "mark_closed"

SwGet(b, k) ==
    /\ sw.pc = "idle" /\ "close-payment-intents" \in Jobs
    /\ status[b] = "cancelled" /\ row[b, k] \in {"pending", "failed"}
    /\ SweepAct(Get(b, k)) # "wait"
    /\ sw' = [pc |-> "do", b |-> b, k |-> k, act |-> SweepAct(Get(b, k))]
    /\ UNCHANGED <<db, gateway, eng, wd, web>>

SwDo ==
    /\ sw.pc = "do"
    /\ CASE sw.act = "settle" -> ConfirmBooking(sw.b, sw.k) /\ UNCHANGED gateway
         [] sw.act = "cancel" ->
               /\ \E ok \in BOOLEAN : CancelIntent(sw.b, sw.k, ok)
               /\ UNCHANGED db
         [] OTHER -> RecordIntentClosed(sw.b, sw.k) /\ UNCHANGED gateway
    /\ sw' = SweepIdle
    /\ UNCHANGED <<eng, wd, web>>

SwAbort ==
    /\ sw.pc # "idle"
    /\ Fault
    /\ sw' = SweepIdle
    /\ UNCHANGED <<db, intent, eng, wd, web>>

SweepStep == SwDo \/ \E b \in Bookings, k \in Ids : SwGet(b, k)

-----------------------------------------------------------------------------
(* The web: a request c that cancels a booking nobody paid yet. *)

WebOnly(c, r) == web' = [web EXCEPT ![c] = r]
WebDb         == UNCHANGED <<gateway, eng, wd, sw>>

\* cancelAuthorizedBooking claims first; without an authorization the request
\* goes on to cancel_unpaid_booking.
WebClaim(c, b) ==
    /\ web[c].pc = "idle"
    /\ Live(b)
    /\ IF CanClaim(b)
       THEN /\ ClaimAuthorizationCancel(b)
            /\ WebOnly(c, [WebIdle EXCEPT !.pc = "read", !.b = b])
       ELSE /\ ~HasAuthorization(b)   \* else a capture is in progress
            /\ WebOnly(c, [WebIdle EXCEPT !.pc = "unpaid", !.b = b])
            /\ UNCHANGED db
    /\ WebDb

WebUnpaid(c) ==
    /\ web[c].pc = "unpaid"
    /\ IF CanCancelUnpaid(web[c].b) THEN CancelUnpaidBooking(web[c].b)
       ELSE UNCHANGED db
    /\ WebOnly(c, WebIdle)
    /\ WebDb

\* liveIntentOf reads the intent after the claim.  A query that fails looks
\* like a booking without an intent.
WebRead(c) ==
    /\ web[c].pc = "read"
    /\ \E k \in {PendingOf(web[c].b)} \cup (IF ReadFaults THEN {NoId} ELSE {}) :
          WebOnly(c, [web[c] EXCEPT !.k = k,
                         !.pc = IF k = NoId THEN "close" ELSE "release"])
    /\ UNCHANGED db
    /\ WebDb

WebRelease(c) ==
    /\ web[c].pc = "release"
    /\ \E ok \in BOOLEAN :
          /\ CancelIntent(web[c].b, web[c].k, ok)
          /\ WebOnly(c, [web[c] EXCEPT !.pc = IF ok THEN "close" ELSE "check"])
    /\ UNCHANGED <<db, eng, wd, sw>>

\* isAlreadyReleased: a failed GET counts as not released.
WebCheck(c) ==
    /\ web[c].pc = "check"
    /\ \/ /\ WebOnly(c, [web[c] EXCEPT !.pc =
                 IF Get(web[c].b, web[c].k) \in ClosedIntents
                 THEN "close" ELSE "unclaim"])
          /\ UNCHANGED faults
       \/ WebOnly(c, [web[c] EXCEPT !.pc = "unclaim"]) /\ Fault
    /\ UNCHANGED <<db, intent, eng, wd, sw>>

WebUnclaim(c) ==
    /\ web[c].pc = "unclaim"
    /\ Unclaim(web[c].b)
    /\ WebOnly(c, WebIdle)
    /\ WebDb

WebClose(c) ==
    /\ web[c].pc = "close"
    /\ IF CanCancelAuthorized(web[c].b) THEN CancelAuthorizedBooking(web[c].b)
       ELSE UNCHANGED db
    /\ WebOnly(c, WebIdle)
    /\ WebDb

\* The request ends half-way: the claim stays.
WebCrash(c) ==
    /\ web[c].pc # "idle"
    /\ Fault
    /\ WebOnly(c, WebIdle)
    /\ UNCHANGED <<db, intent, eng, wd, sw>>

WebStep(c) ==
    \/ \E b \in Bookings : WebClaim(c, b)
    \/ WebUnpaid(c) \/ WebRead(c) \/ WebRelease(c) \/ WebCheck(c)
    \/ WebUnclaim(c) \/ WebClose(c)

-----------------------------------------------------------------------------
(* The rest of the world: one call each. *)

Elsewhere == UNCHANGED <<eng, wd, sw, web>>

Book(b)       == CreateDeferredBooking(b) /\ UNCHANGED gateway /\ Elsewhere
CancelPaid(b) == CancelBooking(b) /\ UNCHANGED gateway /\ Elsewhere

\* decideDeparture, by a person of the staff.
StaffDecides(r) ==
    /\ CanResolve(r)
    /\ ResolveDepartureMinimum(r)
    /\ UNCHANGED gateway /\ Elsewhere

\* The webhook: delivered late, more than once, or never.
Webhook(b, k) ==
    /\ intent[b, k] = "succeeded" /\ row[b, k] # "none"
    /\ ConfirmBooking(b, k)
    /\ UNCHANGED gateway /\ Elsewhere

GatewayMoves(b, k) ==
    /\ \E s \in Later(intent[b, k]) : SetIntent(b, k, s)
    /\ UNCHANGED <<db, faults>> /\ Elsewhere

\* Fifteen minutes pass since a mark was set.  A request to the gateway times
\* out in seconds, so the process that set the mark is done or dead by then.
Holding(b) == eng.pc \in {"capture", "reget", "captured"} /\ eng.b = b
Claiming(b) == \E c \in Callers :
    web[c].pc \in {"read", "release", "check", "unclaim", "close"} /\ web[c].b = b

MarkGrowsOld(b) ==
    /\ \/ /\ mark[b].claim = "fresh" /\ ~Claiming(b)
          /\ mark' = [mark EXCEPT ![b].claim = "stale"]
       \/ /\ mark[b].capture = "fresh" /\ ~Holding(b)
          /\ mark' = [mark EXCEPT ![b].capture = "stale"]
    /\ UNCHANGED <<now, status, sched, row, refund, event, dep>>
    /\ UNCHANGED gateway /\ Elsewhere

TimePasses == Tick /\ UNCHANGED gateway /\ Elsewhere

Environment ==
    \/ \E b \in Bookings : Book(b) \/ CancelPaid(b) \/ MarkGrowsOld(b)
    \/ \E r \in {"staff_confirmed", "staff_cancelled"} : StaffDecides(r)
    \/ \E b \in Bookings, k \in Ids : Webhook(b, k) \/ GatewayMoves(b, k)
    \/ TimePasses

Crash == EngAbort \/ WdAbort \/ SwAbort \/ \E c \in Callers : WebCrash(c)

Next ==
    \/ EngineStep \/ WatchStep \/ SweepStep
    \/ \E c \in Callers : WebStep(c)
    \/ Environment \/ Crash

Spec == Init /\ [][Next]_vars

-----------------------------------------------------------------------------
(* Safety. *)

\* A payment row that says that its intent is closed at the gateway
\* (provider_closed_at, after release, a dead attempt, a cancellation or the
\* sweep) is right: that intent can no longer hold or take money.  Nobody
\* looks at such a row again.
ClosedRowIsDead ==
    \A b \in Bookings, k \in Ids :
        row[b, k] = "closed" => intent[b, k] \in ClosedIntents

\* Money held or taken at the gateway is on the list of some job: its row is
\* the pending one of a live booking (the minimum cycle, the watchdog), or an
\* unclosed one of a cancelled booking (the sweep), or it is settled.
MoneyIsTracked ==
    \A b \in Bookings, k \in Ids :
        intent[b, k] \in Committed =>
            \/ row[b, k] = "pending" /\ status[b] = "pending_payment"
            \/ row[b, k] \in {"pending", "failed"} /\ status[b] = "cancelled"
            \/ row[b, k] = "succeeded" /\ intent[b, k] = "succeeded"

\* The tourist's card is held or charged once: a new attempt never starts
\* while an older intent of the booking may still take money.
HeldOnce ==
    \A b \in Bookings :
        \A i, j \in {k \in Ids : intent[b, k] \in Committed} : i = j

\* A confirmed booking was paid for: the gateway charged one of its intents
\* and the row of that intent says so.
ConfirmedIsPaid ==
    \A b \in Bookings :
        status[b] = "confirmed" =>
            \E k \in Ids : row[b, k] = "succeeded" /\ intent[b, k] = "succeeded"

\* The refund of a late charge returns a payment that was really taken.
RefundIsOfACharge ==
    \A b \in Bookings :
        refund[b] # NoId => /\ row[b, refund[b]] = "succeeded"
                            /\ intent[b, refund[b]] = "succeeded"
                            /\ status[b] = "cancelled"

\* The marks exclude each other: while the engine captures the hold of a
\* booking, no tourist and nobody of the staff changes the booking under it.
\* (The watchdog does not look at the mark; see WatchdogLeavesAuthorized.)
CaptureIsExclusive ==
    [][\A b \in Bookings :
         /\ Holding(b) /\ status[b] = "pending_payment"
         /\ status'[b] # "pending_payment"
         => status'[b] = "confirmed" \/ eng' # eng \/ wd' # wd]_vars

\* The departure is declared reached only when the captures are over: nobody
\* is left authorized, neither claimed by a tourist nor waiting for a capture.
ReachedCapturesAll ==
    [][dep.resolution = "none" /\ dep'.resolution = "reached" =>
         \A b \in Bookings : ~HasAuthorization(b)]_vars

-----------------------------------------------------------------------------
(* Liveness.  node-cron starts every job each minute, so a job that has     *)
(* something to do does it; time passes; the gateway settles what it is     *)
(* processing.  Tourists, staff and the webhook may never act again.        *)

GatewaySettles(b, k) ==
    intent[b, k] \in {"processing", "capturing"} /\ GatewayMoves(b, k)

JobsRun == WF_vars(EngineStep) /\ WF_vars(WatchStep) /\ WF_vars(SweepStep)

JobsSpec == Spec /\ JobsRun

FairSpec ==
    /\ JobsSpec
    /\ WF_vars(TimePasses)
    /\ \A b \in Bookings, k \in Ids : WF_vars(GatewaySettles(b, k))

\* No booking waits for its charge for ever: it ends confirmed or cancelled.
BookingsResolve ==
    \A b \in Bookings : Live(b) ~> status[b] \in {"confirmed", "cancelled"}

\* No hold outlives its departure on the tourist's card because everybody
\* believes that somebody else releases it.
HoldsEnd ==
    \A b \in Bookings, k \in Ids :
        intent[b, k] = "requires_capture" ~> intent[b, k] # "requires_capture"

\* A charge that arrives after its booking was cancelled is given back, even
\* when no webhook reports it.
LateChargesAreRefunded ==
    \A b \in Bookings, k \in Ids :
        (/\ intent[b, k] = "succeeded" /\ status[b] = "cancelled"
         /\ row[b, k] # "succeeded")
        ~> (row[b, k] = "succeeded" /\ refund[b] = k)

-----------------------------------------------------------------------------
(* What the documents say and the code does not do; each is refuted by a    *)
(* configuration of its own.                                               *)

\* docs/specs/0033, "Marcas vencidas": the jobs sweep a claim or capture mark
\* whose process died.
StaleMarksAreSwept ==
    \A b \in Bookings :
        (Live(b) /\ ~Started /\ "stale" \in {mark[b].claim, mark[b].capture})
        ~> (Started \/ ~Live(b) \/ "stale" \notin {mark[b].claim, mark[b].capture})

\* docs/specs/0033: when the deadline passes all the authorizations are
\* released first, and only then the cycle of a far departure is closed.
ReleasedBeforeClose ==
    [][~dep.closed /\ dep'.closed =>
         \A b \in Bookings : ~HasAuthorization(b)]_vars

\* cancel-authorized.ts: cancelling in the database without having released
\* the hold would leave money held with no booking to explain it.
CancelledAfterRelease == ClosedRowIsDead

\* decide.ts: an authorized booking is resolved by the minimum cycle, not by
\* the watchdog, until the departure starts.
WatchdogLeavesAuthorized ==
    [][\A b \in Bookings :
         /\ wd.pc = "do" /\ wd' # wd
         /\ HasAuthorization(b) /\ status'[b] = "cancelled"
         => Started]_vars

\* docs/specs/0033, "Recuento después del descarte": if without the claimed
\* bookings the departure no longer reaches the minimum, nothing is captured.
CaptureNeedsMinimum ==
    [][\A b \in Bookings :
         /\ mark[b].capture = "none" /\ mark'[b].capture = "fresh"
         /\ ~eng.ok   \* a claimed booking was discarded before
         /\ dep.resolution = "none"
         => Authorized >= Minimum]_vars

=============================================================================
