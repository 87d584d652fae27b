# A TLA+ model of boka

boka sells seats on tours. Some bookings are paid at once; others, made well in
advance, leave a card that is *authorized* when the departure is near,
*captured* when enough seats are authorized and *released* when they are not.
Paid bookings that are cancelled get their money back. A web application, a
worker with some twenty jobs, a team at a panel, tourists in several tabs and a
payment gateway do all this at the same time, over a database whose transactions
cover none of the calls to the gateway. This directory models those programs,
checks them with TLC and proves part of what matters with TLAPS.

Contents: [the system](#the-system), [the modules](#the-modules),
[the runs](#the-runs), [fairness](#fairness), [where the code and its documents
differ](#where-the-code-and-its-documents-differ), [the proofs](#the-proofs),
[not modelled](#not-modelled), [plan](#plan).

## The system

    browser tabs ──> web (Next.js) ──┬──> PostgreSQL (SQL functions, row locks)
    team ──> panel ──────┘           └──> OnvoPay (payment intents, customers)
    node timers ──> worker jobs ─────┬──> PostgreSQL
                                     ├──> OnvoPay ──webhook──> web
                                     └──> Resend (mails)

An SQL function is a transaction under row locks. Nothing holds a lock while it
talks to OnvoPay or Resend, so every answer may be stale when it is recorded.
Three marks on a booking (`authorized_at`, `cancel_claimed_at`,
`capture_started_at`) let the processes exclude one another, and the functions
look at the row again under `FOR UPDATE`. Server actions of the web are
sequences of such calls without a transaction of their own, and may die between
any two.

| component | state it keeps | operations | what is hard | what makes it correct |
|---|---|---|---|---|
| public site, checkout in the browser | what a tab shows, the captcha, one cookie for all tabs | browse the calendar, submit, card form, widget, restart | prices and sale change under an open form; answers get lost | what is booked is what was accepted |
| seats, both checkouts (036, 054, 063, `create.ts`, `deferred-checkout*.ts`) | holds, `capacity_reserved`, bookings, intents | hold, book, promote, confirm, expire | a request dies anywhere; a hold expires during payment | no seat twice, none lost |
| reconciler, webhook | processed events | recover, cancel stale, confirm | late, repeated, lost, racing answers | money that was taken is recorded |
| deferred charge (044, 047, 049, 055, 057, 063) | bookings, payments, refunds, the minimum cycle of a departure | start, authorize, fail, release, claim, cancel, confirm, close, resolve | callers with stale knowledge | rows and gateway agree on money |
| minimum engine, watchdog, sweep | a list per run | authorize all, capture or release all; settle, fail or cancel; close intents | a crash between gateway and row; a tourist who cancels | all or nothing; every booking ends |
| cancellations from the web | the claim | claim, release, close | the request may die | no capture under a claim |
| manual charge, change of card, clean-up of customers | the saved card, what is attached at the gateway | charge at once; set and detach; detach all | double clicks, crossed changes | one charge; no card detached that is needed |
| refunds (`worker/src/refunds`, retries, transfers) | refunds | post, poll, settle, retry, transfer | a POST with an unknown result, two workers | the money goes back once |
| operation of departures (049, 058, `resolve-minimum`) | departures, review marks | cancel, keep, resolve, review, move a booking | bookings in every state at once | seats and decisions are neither lost nor doubled |
| notifications (`send-notifications`, outbox) | rows with a generation | enqueue, prepare, send, record | the booking changes while a mail is written | what is told is true, the last change is told |
| catalogue and its prices, generation of departures | prices, schedules, departures | save, pause, resume, generate, withdraw | saving is many statements | nobody is left on a withdrawn departure |
| internal users | `users` and the accounts at Auth | invite, accept, deactivate, reactivate | two admins at once | somebody can always get in |
| personal data | names and addresses, links | correct, erase, empty, purge | bookings that still move money | erased stays erased, payments find their booking |
| guides | one assignment per departure, guides on or off | assign, unassign, notify | two of the staff, dying requests | who is assigned is told, or seen as untold |
| panel | – | trays, dialogs, sections | rules of its own for what the database decides again | it offers what is accepted |

`PROJECT.json` lists every component with its files, those left out included,
and the hazards of each, line by line.

## The modules

| module | what it is |
|---|---|
| `ChargeDatabase` | the rows of one departure and the SQL functions: a guard and an effect for each |
| `DepartureCharge` | gateway, engine, watchdog, sweep, cancelling requests, webhook, staff: one action per call |
| `ManualCharge` | `DepartureCharge` with the panel's charge, changes of card and the clean-up of customers |
| `Refunds`, `RefundBoard` | the refund queue call by call, two workers, panel; which actions the panel offers |
| `MoneyBack` | abstract: what the queue promises of each refund; `Refunds` implements it |
| `Checkout` | requests, holds, seats, reconciler, webhook, expiry of holds |
| `TourSite`, `CheckoutTabs` | the page of a tour and its calendar; the checkout as the browser shows it, with the gates of the server actions |
| `Outbox` | the queue of mails, for any booking and kind |
| `Departures`, `DepartureBoard` | the operation of two departures, with the outbox; the panel's trays |
| `BookingLife` | `ChargeDatabase` with whoever may call its functions, without the calls to the gateway: what mails and pages live beside. `DepartureCharge` implements its `LifeSpec` |
| `ChargeNotices`, `BookingPages`, `ChargeBoard` | over `BookingLife`: the mails of the deferred charge, the pages and dialogs of a booking, the list of departures |
| `Seasons`, `Catalog` | the prices of a day as pure operators; the form, the generator, the checkout's reads |
| `Accounts`, `PersonalData`, `Guides` | users of the panel; corrections, erasures, retention; guides and their mails (an instance of `Outbox`) |
| `MC*` | instances for TLC |
| `SumTheorems` | lemmas about sums over finite sets (seats of a departure), for the proofs |
| `*Proofs` | theorems for every value of the constants |

How they compose: `BookingLife` EXTENDS `ChargeDatabase`, `DepartureCharge` EXTENDS
`BookingLife` and `ManualCharge` EXTENDS `DepartureCharge`, so the processes share
the rows and the gateway.
`Departures` EXTENDS `Outbox`; `ChargeNotices` and `Guides` INSTANCE it. The
charge ends where the refunds begin (`refund`, the row that `Refunds` starts
from), the checkout ends where the deferred charge begins (`pending_minimum`).
In `Departures` and `PersonalData` the life of a charge is one step per outcome.
A module that abstracts another says so in its head comment.

### State and actions

| TLA+ | code |
|---|---|
| `status` | `bookings.status`; `"absent"` is a booking not made yet |
| `mark` | the three marks; their age is only compared with 15 minutes (`STALE_MARK_MS`), so it is `none`, `fresh` or `stale` |
| `sched` | `charge_started_at`, `charge_attempts`, `charge_next_attempt_at`, `recovery_deadline`, `awaiting_action_until` |
| `row` | `payments.status` with `provider_closed_at` (`failed` against `closed`), per intent |
| `refund`, `event` | which charge is given back; `processed_webhook_events` |
| `dep` | the minimum cycle of `tour_instances` and its cancellation |
| `intent` | the truth at OnvoPay; `capturing` is a capture in progress, which a GET calls `processing` |
| `eng`, `wd`, `sw`, `web`, `panel`, `update`, `clean` | where each process is, the booking and intent it holds, the answer it remembers, the bookings of its list |
| `card`, `attached`, `used`, `seen` | `bookings.payment_method_id`; cards of the customer at OnvoPay; the card an intent was confirmed with; the card as the engine read it |

Every query and every request is a step of its own, in the order of the code;
what was read earlier is kept in the record of the process. A request that fails
may have arrived or not. A process may stop anywhere (`EngAbort`, `WdAbort`,
`SwAbort`, `WebCrash`, `Undo` in `Checkout`, ...): an exception, a killed worker,
a closed connection.

In `Refunds`, `row` is the refund (`waited`: its backoff is over), `old` the rows
of more than 24 hours, `prov` the refunds really created at OnvoPay in the order
of their POST, `paid` the transfers made, `w` each worker with its batch as it
read it, `panel` each `retryRefund` between its read and its update.

In `Checkout` every request has one hold, one booking and one payment row at
most, for a submission makes a session of its own. `pc` is the call it is at;
`cycle` what the reconciler knows of each booking it visits. `outlived` is
history: a request still running when its hold of 15 minutes lapsed.

In `Outbox`, `job` is the row a cycle is at with the generation it read, and
`told` the last mail of each row the provider accepted. What `prepare` finds is
the operator `Findings` of the module that uses it: it is evaluated on the
booking as it is when the mail is written, and what it said is compared later
with what became of the booking.

In `Departures`, `phase` is how near a departure is (far, 72 hours, 25 hours, a
day, started), `at` the departure of each booking, `review` and `refunded` what
the team owes an answer to or gave back, `policy` what happens below the
minimum. In `ChargeNotices` a mail is kept by what it says of the money and until
when it says to act. In `BookingPages`, `page` is what is in front of one
person, or the step its request is at, while all of `BookingLife` goes on.

In `TourSite`, `view` is what each tab shows, read when it was served; in
`CheckoutTabs`, `req` is the server action of each tab, gate by gate, `captcha`
its widget, `cookie` the one session all tabs share, `accepted` the amount that
was on the screen when the form was submitted.

In `Catalog`, `admin` is the form of each admin, filled in from what the page
had loaded, and how far saving it is; `gen` what the generator read; `dep` the
departure of each schedule and day. In `PersonalData`, `age` is how old the data
are. In `Guides`, `untold` is history: assignments whose mail was not enqueued.

### What is abstracted

- *Money.* Amounts matter where they are compared: prices (`Seasons`,
  `CheckoutTabs`) and a payment of another amount (`Checkout`). Elsewhere a
  payment is of the booking's total and a refund returns it whole.
- *Time.* `DepartureCharge` counts ticks of some hours up to the departure.
  Elsewhere a moment is "lapsed", "old", a `phase` or an `age`. A mark grows old
  only when the process that set it is done or dead: its requests time out after
  15 seconds and the mark after 15 minutes; the same holds for the 30 minutes the
  watchdog leaves to a charge in flight.
- *Batches.* A job has all its rows in one batch; `Refunds` has a bounded one.
- *Names, texts, languages, images, wording.* A mail is its claims, a person a
  value. A throttle, an invalid name, a switched-off sale are one refusal.
- *Requests.* Each person of a model is followed through one operation at a
  time, except where two at once are the subject (two requests, tabs, admins,
  staff, workers, double clicks).

## The runs

Each constant is a bound and each cfg is small on purpose. Behaviours of parts
that share no row are not interleaved: `MCBackOffice`, `MCNotices` and `MCTabs`
choose a `part` at the beginning. Deadlock is not checked where a system really
stops: departure started, queue empty, form left.

| run | instance, distinct states | what it shows |
|---|---|---|
| `one_booking` | one booking, two intents, all jobs, a request, one fault, two ticks; about 2.0 million | rows and gateway never disagree about money; the processes keep to `LifeSpec` (the refinement of `BookingLife`) |
| `two_bookings` | two bookings, the engine, a request, a confirm that holds or is refused | a departure is declared reached only when no authorization is left behind |
| `fair_jobs` | one booking, all jobs, fairness, three ticks, so that a cycle closes and opens again | bookings end, holds end, late charges are refunded |
| `manual_charge` | a double click while watchdog, sweep and clean-up work and the card is changed; one charge and one change while the engine works; or two changes that cross beside the engine; two intents; 1.7 million | money is held once; no needed card is detached |
| `refunds_two_workers` | one refund, two workers, two retries, a transfer, two faults; 84 thousand | `PromiseKept` (the refinement), one POST, the panel's offers, the queue drains |
| `checkout` | two requests for one seat (one of each checkout), or two deferred ones over the cap; one payment of another amount; 140 thousand | seats sold once and never lost, payments recorded |
| `departures` | two departures of two seats; a paid booking with each kind of notice, or beside a deferred one and a hold; 2.5 million | seats, notices and what they say of the money; the trays |
| `back_office` | two admins over 3 races of forms and every table of two seasons in a year of 4 days; two users; one booking; two guides and two of the staff; 838 thousand | see the properties |
| `notices` | one booking, each kind of mail in turn, or one person at its pages; five ticks; four rejections for the mail that is used again, one for the others; 1.2 million | what was written, shown and promised is what happens |
| `tabs` | three departures with an empty month; one tab that submits twice; two tabs with one cookie; 765 thousand | what is booked is what was accepted |
| `read_fault`, `not_charged` | as small as shows it | two statements the code does not keep |

Why the bounds are enough. Two intents put an old hold beside a new one. One
fault loses any one answer or kills any one process at any point; two in
`Refunds` lose an answer and then the process, or both writes of an id.
`MaxAttempts` bounds the rejections that are counted; 2 is a first one and a next. In
the code only the retries are bounded, by the third rejection, and a person may give
card after card. `notices` has `MaxAttempts` = 4, because from the fourth rejection on the row of the third mail is
used again. There `Rejections` allows four only while that mail is followed, and for
the others `Brief` lets the first tick only pass, where nothing is due.
One seat is the smallest departure that can be oversold, two the smallest where
one tourist passes the cap. Two departures are the smallest change of date. A
year of four days has seasons that touch, nest, overlap and cross its end. Two
is the number of workers during a deploy, of tabs that fight over a cookie, and
of admins that deactivate each other.

### The properties

Of the charge (`one_booking`, `two_bookings`, `manual_charge`):

- `MoneyIsTracked`: money held or taken is on the list of some job.
- `HeldOnce`: a booking never has two intents that hold or can take money, not
  even with a double click and an answer that is lost.
- `ConfirmedIsPaid`, `RefundIsOfACharge`: rows claim no charge that was not made.
- `LifeSpec`: the rows live as `BookingLife` allows, which is all that mails, pages
  and trays assume of the jobs: nothing is released, closed or cancelled before its
  deadline, nothing charges a booking again whose time is over.
- `ReachedCapturesAll`: captures are over when the minimum is declared reached.
- `CardsStayAttached`: no card that may still take money, nor the one a live
  booking has, is taken off its customer by a change that crossed another one,
  was refused, or met the clean-up.
- `TypeOK`: the deadlines stay within the departure, whatever clamps them.

Of the refunds: `PostedOnce`, `LiveIsKnown` (a refund that may still be paid is
known by its id, or its row is where no retry posts again), `PromiseKept` (the
refinement of `MoneyBack`), `TransferOfferedWhenOver` (the panel offers a
transfer only when the gateway is out of it, and offers something for every row
that is stuck), `QueueDrains`.

Of the checkout: `NeverOversold`; `PromisedIsHeld` (a booking that waits for its
payment keeps its seats from the moment the checkout answered, and no seat is
kept for a booking that ended); `SeatsComeBack`; `MoneyIsRecorded`.

Of the departures: `SeatsMatch` (the counter is what is confirmed),
`LastMoveIsTold` (the last change of date reaches the tourist however it crosses
the sending of the one before), `MoneyIsTold` (a mail that speaks of a refund is
of one that exists, one that speaks of none stays true), `PanelMatches` (trays and
dialogs offer what the functions accept).

Of the mails and pages of a deferred booking: `NoChargeIsTrue` ("no charge was
made" is never read by somebody who was charged and not refunded),
`RejectionIsTold` (every rejection leaves a notice that waits to be sent, and while
the booking waits for another card the one written for the last rejection is not
withdrawn; see `MCFourth` for the rejection that finds the notice of the one before
still pending), `DeadlineIsKept` (the system does not cancel before the moment
until which it told the tourist to act), `ShownIsDone` (what a page said of the
money before a confirmation is what the confirmation did), `NothingWaitsUnseen`
(a departure that waits for a person is in the tray).

Of the team: `LowestIsCharged` (the "from" price is charged on some day and
none is lower), `NoBookingOnWithdrawn`, `SomeAdmin`, `ErasedStaysErased`,
`PaymentFindsBooking` (no purge or erasure deletes a booking whose intent may
still be paid), `AssignedIsNoticed`, `SomebodyGoes` (the tray of departures
without a guide misses none that somebody travels with).

Of the browser: `BookedAsShown` (the booking has the departure, the tickets and
the amount that were accepted), `TokenIsFresh` (a spent captcha is not sent
again), `NoDayOutOfReach` (every day with a departure can be reached in the
calendar, past a month that has none).

More is stated beside these, for whoever changes that code; add the name to the
cfg of its run: `CaptureIsExclusive` (`MCOne`), `ChargesTheSavedCard`
(`MCManualCharge`), `PromisesFit` (`MCCheckout`), `MinimumIsFinal`
(`MCDepartures`), `LinksOpen` (`MCNotices`), `OnePriceADay` and `WithdrawnStays`
(`MCBackOffice`). They hold there; `PromisesFit`, `MinimumIsFinal`, `OnePriceADay` and
`WithdrawnStays` are also proved.

## Fairness

*Charge.* `JobsRun` is weak fairness of each job's steps: `index.ts` starts each
job on a timer for as long as the worker lives, and a job that failed starts
again. `FairSpec` adds that time passes and that OnvoPay ends what it is
processing. Nothing is assumed of tourists, staff or the webhook, nor that a
challenge is answered. `fair_jobs` has no faults: with finitely many only what
comes after the last one matters.

*Refunds.* The job, the age of a row and its backoff. Neither staff nor OnvoPay
has to act: a refund that stays pending is failed by its age. `MaxFaults` bounds
the GETs that fail; one that failed for ever would keep its row in the queue.

*Checkout.* Holds and bookings age and the jobs run (weak); the GET and the
write of the reconciler are strongly fair, since each cycle repeats them and a
call that is repeated for ever succeeds once. `Webhook` is weakly fair because
the route answers 500 to what it could not process and the gateway sends it
again until it gets a 200; it is the only one who refunds a booking that was
cancelled as stale and then paid. No request is obliged to go on and no tourist
to pay.

The other specifications have no fairness: their properties are invariants and
action properties.

## Where the code and its documents differ

Runs of `PROJECT.json`, with both sides quoted there:

1. `read_fault`: `liveIntentOf` takes a query that failed for a booking without an
   intent; the booking is closed as released and the hold stays, on nobody's list.
2. `not_charged`: the mail of a cancelled departure tells "no charge" from the
   absence of a review mark and of a refund; when the team closes the review
   without a refund before the mail is written, somebody who paid reads that the
   card was not charged.

Configurations that TLC refutes in the same way and that are kept to be run by
hand (`tlc -config <name>.cfg <module>`):

| cfg, module | property | what happens |
|---|---|---|
| `MCOne` with `WatchdogLeavesAuthorized` for its properties | `WatchdogLeavesAuthorized` | on a GET older than the authorization the watchdog cancels an authorized booking; no money is lost, the sweep closes it |
| `MCRecount`, `MCDepartureCharge` | `CaptureNeedsMinimum` | the recount precedes the list to capture: a claim in between leaves the others charged below the minimum |
| `MCCloseHeld`, `MCDepartureCharge` | `ReleasedBeforeClose` | the cycle of a far departure closes with a hold that could not be released |
| `MCStaleMarks`, `MCDepartureCharge` | `StaleMarksAreSwept` | after the deadline nobody clears the mark of a dead process |
| `MCNotices` with `NothingHeldInTray` for its properties | `NothingHeldInTray` | the decision tray shows a departure whose money is still held |
| `MCRefundsMissing`, `MCRefunds` | `PostedOnce` | a failed query reads as a missing payment and is written before the claim, over a row that another worker is posting; the retry posts again |
| `MCNotice`, `MCDepartures` | `ReviewIsTold` | `cancelNotification` has no condition on the generation: a notice enqueued again is cancelled by the result of its former one, and a tourist is never told (`notifications/repository.ts:84` says that results are written by generation) |
| `MCFourth`, `MCNotices` | `FailureIsTold` | from the fourth rejection on the row of the third is used again with `ON CONFLICT DO NOTHING`: pending and read while the fourth attempt was in flight, it is cancelled by the job, and the rejection is not told (044:25, "cada rechazo se notifica", and 047:986, "todo cobro fallido se notifica"); `RejectionIsTold` says what does hold |
| `MCNotices` with `EveryDeadlineIsKept` for its properties | `EveryDeadlineIsKept` | a mail written before the cycle of the departure opened promises a later moment than the cycle then allows |
| `MCFormRows`, `MCCatalog` | `FormRowsStay` | one schedule with its hour cleared does not parse, the list reads as empty, and saving deletes every schedule of the tour that no booking holds (`parse.ts:12`) |
| `MCManualCharge` with `Casts <- Together` and `MoneyIsTracked` or `CardsStayAttached` | the same | the engine reads that the hold of an expired attempt is cancelled; before it records that, the watchdog closes the row and the panel starts a charge with a new intent; `release_departure_authorization` (047:394) then puts the booking back to `pending_minimum` without a look at its live intent; the panel's confirmation succeeds, and the money is on no list (a change of card then detaches a card that may still be charged) |
| `MCOldLinks`, `MCBackOffice` | `CorrectedLinksEnd` | a correction of an address that failed half-way and is sent again answers ok and leaves the links of the wrong address working (`contact-action.ts:76`) |

Other observations, from reading the code for the models:

- *Refunds.* With two panel sessions, a retry decided on a row before another
  session's retry failed again may queue anew a refund whose POST has by then an
  unknown result; the guard of the update is the status alone.
- *Checkout.* The update that moves a hold to `paying` may touch no row, unnoticed;
  that needs a request slower than the 15 minutes of the hold, and ends in a
  refund for overbooking. The page that cancels the widget releases nothing, its
  hold is `paying` by then. A booking whose payment stays `processing` for ever,
  and another amount on a booking that was cancelled, are only alerted.
- *Departures and mails.* Resend treats a repeated key with another body as
  permanent, and each `prepare` issues a new link: a mail that was delivered may
  end as `failed`. A reminder fetched before a change of date is still sent. The
  mail of a departure cancelled for the minimum says that the money was let go
  when the sweep has still to do it. A second challenge is not mailed (accepted in
  0029). `decideDeparture` from an old tray acts on whatever cycle is open then.
- *Guides.* One mail per departure and guide: an assignment after an unassignment
  sends none. A request that dies between the assignment and the row of the mail
  leaves the guide untold until the panel unassigns (the button stays disabled).
- *Catalogue.* Between the DELETE and the UPSERT of prices a checkout may see
  neither form. Saving again after a partial refusal sends new rows without ids.
- *Personal data.* A mail read before a correction still carries a fresh link to
  the wrong address. An immediate booking given up with an intent still open may
  be purged (documented, 044:49). Two admins who invite one address at once may
  remove the first one's account.
- *Card.* Crossed changes leave the overtaken card attached until the clean-up;
  `discardCreated`'s branch for a reused intent is never taken.
- *Browser.* "Start again" in the deferred checkout shows the prices of the page
  as it was loaded, and the immediate form keeps the old total after
  "the amount changed" until it is reloaded; the server refuses both. When the
  script of the captcha is blocked the button keeps verifying, with a notice. The
  widget asks for another token when the answer is another object; `GENERIC`
  (`deferred-checkout-action.ts:65`) is one shared object, and only precedes the
  captcha.

## The proofs

All are theorems of a `Spec`, for every number of bookings, intents, requests,
refunds, workers, departures, notices, retries and faults. They use no assumption
but those of the modules (a booking asks for at least one ticket; what was
confirmed before fits in its departure; the prices there are do not clash; nobody
is erased to begin with; a calendar has days), and four named hypotheses where the
property is false without them: `OneSession` and `SafeLoads` for the refunds,
`OneRequest` and `ReadFaults = FALSE` for the money of a charge. TLC has a
counterexample for each.

Every proof has the same shape. The invariant is a conjunction of named parts; a
part that speaks of one booking, refund or departure is an operator of it, so
that an action is looked at where it works and shown to leave the rest alone.
Between the invariant and the actions stands a layer of lemmas about what a step
*may do* (`DbStep`, `GatewayStep`, `OpStep`, `Frame`), and each action is shown to
be one of these. TLC checked every inductive invariant on a run before its proof.

### The charge (`DepartureChargeProofs`)

`TypeCorrect`, `ConfirmedPaid`, `RefundsCovered` and the invariant they follow
from, `Inductive`.

`ConfirmedIsPaid` is not inductive: a process settles a charge on the strength of
an answer it got some steps ago. `IInv` adds, to the types and to what the rows
say (`BooksInv`), what each process *remembers*: an engine, watchdog or sweep about
to settle holds an intent the gateway did charge (`EngineKnows`, `WatchKnows`,
`SweepKnows`). The others keep this because *succeeded* is the one answer that
never becomes stale. One more part: the intent an engine has created and not
confirmed cannot be charged by anybody, so `charge_booking_start` never reopens a
settled row.

The proof has two layers. Each SQL function is a `DbStep`: it keeps types, never
undoes a settled row, settles only what is charged, never revives a cancelled
booking. Each request is a `GatewayStep`: a charged intent stays charged. One
lemma per action shows that it is made of these and that its process ends up
knowing what `IInv` says.

### The money of a charge (`DepartureChargeProofs`)

`MoneyTracked`, `HeldByOne`, `ClosedIsDead`, from `MoneyInductive`.

That money held is on the list of a job depends on every process at once: on
what the row of an intent says while the gateway moves underneath, and on what
the five kinds of process saw of it before they write. `MoneyInv` says, of each
booking, how rows, marks and intents fit (`RowFacts`), that money is on a list
(`TrackedOf`) and that one intent at most can take it (`OnceOf`); and of each
process, what it saw is still so (`EngineSees`, `WatchSees`, `SweepSees`,
`WebSees`). It is inductive relative to `IInv`.

Some of what a GET tells stays true and some does not, and the proof turns on the
difference. Some of it stays: an intent that is closed (`Closed`), one that was not
confirmed or was rejected (`Spent`), one that held money once (`WasHeld`). The moves
of the gateway alone keep these three, so a process may act on them late. Everything else
must be protected by the mark or the claim that the process wrote before it
asked, and the functions of the database are shown to respect the marks of others
(`DbKeeps`, `ClaimsStay`, `OutsideOf`). Then there is one lemma per action.

Two hypotheses. `ReadFaults = FALSE`: a query of the payment that fails reads as
"no intent", and the hold is lost; this is the run `read_fault`. `OneRequest`: one
cancelling request of a booking at a time. With two requests and two intents TLC
finds a lost hold: the first request, on the answer about the first intent, closes
the row of a new attempt that the second has claimed.

`HeldByOne` is about the jobs, requests, webhook and staff of `DepartureCharge`.
That the panel's own charge keeps `HeldOnce` too is the run `manual_charge`. Its
casts put the panel beside the engine, or beside the watchdog and the sweep, and
not beside all of them: with the three together and a failed call, `MoneyIsTracked`
and `CardsStayAttached` do not hold (cast `Together`, under "Where the code and its
documents differ").

### The life of the bookings (`DepartureChargeProofs`)

`LifeImplemented`: `Spec => LifeSpec`, under the hypotheses of `MoneyInductive`.

Each process decided some calls ago, on an age or a deadline it compared then;
`BookingLife` asks that the decision be right when the row is written. `LateInv`
is what carries it over. An open cycle has a deadline and only its closing takes
it away (`DeadlineSet`); an engine that lets holds go is in a run that found the
deadline over (`EngineLate`), and a deadline that is over stays over; and the
booking the watchdog took as unpaid has no time left (`WatchLate`), and one whose time
is over is not charged again. What was charged, and what an
intent will never be, come from `IInv` and `MoneyInv`. Each action is then a step
of `Life`, a cancellation by hand or a stutter.

### The captures (`DepartureChargeProofs`)

`CapturesInvariant` and `NobodyLeftBehind` (`Spec => ReachedCapturesAll`), with no
hypothesis: not even two requests or a failed query break it.

The run that declares the minimum reached read its list of bookings to capture
many calls before. `CaptureInv` says that a booking that is being charged has a
row that is pending (`HasRow`: without it the run would skip it), and that in a
run that has captured all so far, who is authorized is still on the list or is
the booking in hand (`NobodyLeft`). It holds because holds do not come from
anywhere else: `Unraised` says that a step makes no authorization appear and
loses no pending row, every function but `record_authorization` is shown to be
so, and that one is only called by an engine that is not capturing.

### The refunds (`RefundsProofs`)

`RefundsTypeOK`, `RefundsPostedOnce`, `RefundsLiveIsKnown`, from
`RefundsInvariant`.

Two hypotheses, both necessary: `OneSession`, one panel session retries at a
time, and `SafeLoads`, the query of the payment does not fail while two workers
overlap. Without the first there is the race of two retries above, without the
second the counterexample of `MCRefundsMissing`.

`PostedOnce` holds because of what everybody else must not do while one worker
posts. Its strengthening says that one worker at most posts a refund
(`OnePoster`); that meanwhile no retry queues its row (`Held`); that a worker
about to post, or to give its claim back, knows that nothing exists at the
gateway (`Knows`); that a refund without an id in its row leaves the row where
`retryRefund` refuses it (`UnknownKept`); and that what a panel session read is
still true when it writes (`RetryKnows`). Every step of a worker falls under
`WorkerLemma`: if the step changes only its own worker and row (`Frame`) and
leaves what the invariant asks of them (`Owes`), the invariant holds again.
`OuterStep` and `StillStep` do the same for panel, clock and gateway.

### The refinement (`RefundsProofs`, second half)

`MoneyBack` has, for each refund, how often the gateway was asked and where the
money is: owed, under way, by card, refused, by transfer. Its steps are `Ask`,
`GatewayAnswers` and `Transfer`. `Refunds` maps to it by `Asked` and `Money`, which
look at the gateway and at the transfers, never at the row: an outcome that
`MoneyBack` does not have (`"twice"`) is what a transfer of a refund that the card
pays would map to.

`RefundsPromiseKept` proves `Spec => Promise!MoneySpec` under the same two
hypotheses; `RefundsTransferIsLast` that a transfer is of a refund the gateway
will not pay. They rest on `RefundsMoneyInvariant`, inductive relative to
`RefundsInvariant`: why a row says it failed is true (`Failures`), a worker about
to write a rejection got it (`Answered`), and what goes by transfer is dead at the
gateway (`Transfers`). It is needed because a transfer is decided on the words in
a row, written long after the answer they tell of. Then each action is shown to
be a step of `MoneyBack` or a stutter.

Two more theorems come from the same invariant. `RefundsTransferOfferedWhenOver`:
the panel, which decides by what the row says, offers a transfer only when the
gateway is out of it, and offers something for each row the job has left.
`RefundsPaidOnce`: nobody is paid twice, by any pair of ways.

### Sums (`SumTheorems`)

Seats are sums over sets of bookings and holds, and the library has no theorem
about the fold they are written with. `SumType`, `SumEmpty`, `SumRemove`, `SumAdd`,
`SumMonotone` and `SumUnion` are what the proofs below need. Induction over a set
is not available as a theorem to cite, so `SumType` and `SumRemove` take a smallest
counterexample, which exists since the subsets of a finite set are well founded.

### The checkout (`CheckoutProofs`)

`CheckoutTypeOK`, `CheckoutNeverOversold`, `CheckoutPromisedIsHeld`,
`CheckoutPromisesFit`, from `CheckoutInvariant`.

A request is a sequence of calls that may die after each, while its hold may
expire, the reconciler may cancel its booking and the webhook may confirm it. The
invariant has six parts: at which call a request is against what it has made
(`Stages`, and `Second` for the second step of the deferred checkout, `Widget` for
what the page does and the reconciler sees); what a request that did not outlive
its hold still has (`Kept`); that seats sold and held fit (`HeldFit`); and
`NeverOversold`. `Kept` is why the seats do not slip between hold and booking: a
booking that waits has its hold, and no other hold is `paying`. `CheckoutPromisesFit` is the theorem a tourist
reads: while nobody outlives a hold, whoever pays in time is not turned away. It
speaks of such states only, because the code refunds the others.

### The departures and their mails (`DeparturesProofs`)

`DeparturesTypeOK`, `DeparturesSeatsMatch`, `DeparturesLastMoveIsTold`,
`DeparturesMoneyIsTold`, `DeparturesPanelMatches`, `DeparturesMinimumIsFinal`, from
`DeparturesInvariant`.

The invariant joins the departures to the queue: a notice has a generation that no
sending exceeds (`QueueOK`, `Generations`); a text prepared with the current
generation has the date the booking has (`Dates`); a text about money says what
is so, and what makes it so cannot be undone while the notice lives (`Texted`,
`Ended`); the counter of seats is the sum of the confirmed bookings (`SeatsMatch`).
Every operation of the panel, of the jobs and of the tourist is an `OpStep`: a
notice only goes on (`Later`), a change of date makes its notice one generation
newer in the same step, and what a mail rests on is not taken back. That is
why the sending needs no lock. `DeparturesMinimumIsFinal` is an action
property: no departure that has the minimum, is kept or starts within a day is
cancelled for it, and whoever had paid is refunded in the same step.

### The catalogue (`BackOfficeProofs`)

`CatalogLowestIsCharged`, `CatalogOnePriceADay`, `CatalogNoBookingOnWithdrawn`,
`CatalogWithdrawnStays`, from `CatalogInvariant`.

The price on the site is computed from the list of seasons, the price that is
charged from the day. `LowestOfTheYear` proves them equal for a year of any length:
each season is charged on the day it begins, because no other has that day
(`SharedDay`: two seasons with a day in common overlap, also over the end of the
year), and a base price is charged on a day that no season has, which exists
exactly when the seasons do not cover the year (`CoveredOrNot`). This needs that
rows do not clash, which is what the invariant keeps through any crossing of
saves: deleting rows makes no clash and the constraints of the database refuse
one that an upsert would make. The rest of the invariant is what a customer has
against the departures.

### The team (`BackOfficeProofs`)

Three components, each with an invariant of its own.

*Users.* `AccountsSomeAdmin`: every step keeps an admin, adds one, or deletes an
account. What matters is that the count is taken in the step that deactivates.

*Personal data.* `PeoplePaymentFindsBooking` and `PeopleErasedStaysErased`, from
`PeopleInvariant`, while users come and go (`PersonalDataSpec`). A row may go when its
payment is over, and `PaymentOf` says how the row shows it: an intent that is open
has a payment that is pending or failed, and a row that is not traced has kept the
customer at the gateway, which is what locks it.

*Guides.* `GuidesAssignedIsNoticed` and `GuidesSomebodyGoes`, from `GuidesInvariant`.
A step of one of the staff may overwrite the assignment of another; `StaffFrame`
says what it must leave: that what it was telling is told, is told by itself, or
is known to have failed.

### Mails, pages and trays (`TouristProofs`)

`LifeInvariant` over `LifeSpec`; from it `WaitsInTray`, and with the page or the
queue of mails `ShownDone`, `NoticesInvariant`, `NoChargeTrue`, `DeadlineKept` and
`RejectionTold`. With `LifeImplemented`, what is proved of `LifeSpec` is so beside
the jobs and the gateway too.

`LifeTurn` is what one step may make of a booking: of its money (`MoneyTurn`), of
its attempts and times (`AgendaTurn`), of its status (`StatusTurn`). Every function
is shown to be one; the rest of the module looks at pages and mails only.

*Pages.* `PageInv` relates what a page announced to what was decided and, once it
is done, to the rows: a confirmation that was claimed as unpaid ends with no
charge, or with the charge given back.

*Mails.* `MailHolds` says of a mail, while it is being written and ever after,
that who was told of no charge is free, and that until the moment it names
neither the cycle nor the time of the booking ends. The queue keeps it because it
writes what `Findings` says at that moment, and `LifeTurn` because charges of a
cancelled booking are given back in the same step.

*Rejected charges.* `RejectionTold`, for any number of rejections, from `FailInv`:
there is no notice of a kind before its failure (`UnwrittenYet`), so the insertion
of the first three never meets a row; none is newer than the last failure
(`NoneNewer`), where a row has the generation of the failure it was written for;
what the job works on is pending, unless the booking ended (`AtPending`), so a row
that was processed and replaced is not the one the job has in hand; and the job
that is about to cancel had found that the booking waits for no card, or holds a row
older than the last rejection (`JobSpares`). The last part is why the property is of
the rows written for a rejection: a row that was pending when the next rejection came
is not written again (`MCFourth`).

### The site and the browser (`SiteProofs`)

`BookedIsAsShown`, `TokenStaysFresh` and `DaysInReach`, from `TabsInvariant`, for any
number of tabs, submissions, departures and prices. `TabsSpec` has all of it at
once; the run takes it in parts.

`TabsInv` relates what each tab shows to what it asked for. A request asks for what
its form showed; a card form is of a submission of its own tab, with the amount
that was accepted; a booking is of its own submission (`Agreed`), however many tabs
share the cookie; and a token that was spent is only on a form whose answer is
under way. `InReach` is the part of the calendar: it opens on a day with seats of
every month that has one, and its first and last months have one. Days are never
left out because months follow each other as their days do (`MonthsFollow`).

### Only model-checked

Out of the prover's reach are liveness under fairness and `ENABLED`
(`BookingsResolve`, `HoldsEnd`, `LateChargesAreRefunded`, `SeatsComeBack`,
`MoneyIsRecorded`, `QueueDrains`), and what would need induction over data (the
total of a cart, beyond the lemmas about sums). No module declares a RECURSIVE
operator.

Not proved: `CardsStayAttached`, and `HeldOnce` with what `ManualCharge` adds. A
card is in use as long as money is asked for with it, so this needs the whole
invariant of the money again, with two manual charges, and under a hypothesis that
leaves the cast `Together` out, where it is false.

## Not modelled

- *Batch rotation* (`batch-rotation.ts`): one counter per job; the models have
  no more rows than a batch.
- *Rate limits, clean-up of images and limits, alert of hoarded seats*: counters,
  files and an alert that no modelled rule reads.
- *Sessions and second factor*: Supabase Auth keeps them; the code forwards forms.
- *Settings, reports, static pages, legal texts, generated types, wording of the
  mails*: single statements, sums and texts.
- Inside modelled components: the mode of the engine that only releases and its
  batches of departures; the seven days after which the sweep gives a failed row
  up; purges of tables nobody reads; the mails that confirm a refund; editing a
  name, resending an invitation and resetting a factor; the check-in of the day
  (it reads the status and then updates without a condition on it); a card form
  posted twice with the same token; what the staff writes by hand in the database
  after a manual check; a second worker during a deploy, but for the refunds.

## Plan

1. Proofs: `CardsStayAttached` and `HeldOnce` of `ManualCharge`, for casts without
   engine and panel together; `SettledIsPaid` of
   the refunds with one worker.
2. An abstract specification of the seats, that `Checkout` implements.
3. Two workers during a deploy in `DepartureCharge` and in `Outbox`.
4. Rotation and backoff as pure operators, with a bounded batch in the engine.
