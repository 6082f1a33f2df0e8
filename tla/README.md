# GongGuHaSong: specifications of a group-buying shop

GongGuHaSong sells group purchases of goods. Its back end is six Spring Boot services that share
no database and talk over HTTP and Kafka; its front end is a React application that keeps the cart
and orchestrates the checkout itself. This directory holds TLA+ specifications of the parts whose
correctness depends on concurrency, ordering and failure, the TLC configurations that check them
on small instances, and proofs, checked by TLAPS, of what matters most for instances of any size.

    tlc -config PointLedger.cfg PointLedger.tla           # a run (see "Runs")
    tlapm PointLedgerProofs.tla                           # a proof

## The system

| Component | State | Operations | Talks to |
|---|---|---|---|
| point-service, `PointService` | MySQL `point` (one row per member: available, total, `@Version`), `point_history`; Redis `point:balance:<user>` | getPoint, earnPoints, usePoints, cancelPoints | called by payment-service, member-service and its own Kafka consumer |
| point-service, `RedisLockPointFacade` | Redis `point:lock:<user>` with a lease | usePoints under the Redis lock | the same row as `PointService` |
| payment-service, `PaymentService` | MySQL `payment` | createPayment (a saga: points, card, row; else compensations), refundPayment | point-service, product-service by HTTP; cards locally |
| payment-service, `CompensationService` | MySQL `compensation_outbox` | saveFailedCompensation, the retry job | the same |
| payment-service, `CardService`, `HmacService` | MySQL `cards` (limit, used amount, default) | register, delete, charge, refund, sign | - |
| order-service, `RegistrationController` | MongoDB `order` | place an order | product-service by HTTP; sends `order-events`; WebSocket |
| product-service, `SellController`, `ProductCacheService` | MongoDB `sell` (one document per product); Redis `product:info:<id>`, `product:order-count:<title>` | create, edit, look at, decrementStock, restoreStock | sends `product-events`, consumes `order-events` |
| product-service, `LikeController`, `SurveyController` | MongoDB `like`, `survey` | like, unlike, list, survey, count | - |
| search-service | Elasticsearch index, MongoDB logs, Redis ranking | index, search, rank every minute | consumes `product-events`, `order-events`; WebSocket |
| member-service | MongoDB `member`, `note` | join (10 000 welcome points), edit, notes | point-service by HTTP |
| web client | `sessionStorage` (user, cart), the state of each mounted component | browse, like, survey, put in the cart, order and pay, offer and edit products, cards, search | all of them |

An order is placed (`POST /order`: look at the stock, save the order CONFIRMED, take the stock,
send an event), then paid (`POST /payment`: take points, charge the card, save the payment). The
event earns 100 points a unit in point-service, counts the order in product-service, and is
logged for the ranking. If a payment fails, payment-service gives back what it took, restores the
stock, and takes back the earned points; what it cannot give back it writes to an outbox.

What is hard here, and what must hold all the same:

- *point-service.* Two ways to lock the same row, one of them with a lease; a cache that is
  evicted before the commit; a row that may not exist yet. No update may be lost, no balance
  overdrawn, and nobody may wait for ever.
- *payment-service.* Nothing is in a transaction, every call can fail or be answered too late,
  the process can die between any two steps, and a client repeats what it got no answer for. An
  order must be paid once, and a failed attempt must give back what it took and no more.
- *outbox.* A retry cannot tell a lost call from a lost answer. Every pending row must be settled.
- *cards.* Rows are read, changed in memory and written back whole, with neither lock nor version.
- *order and stock.* A chain of writes to different databases with nothing to undo them, next to
  whole-document writes of the same product. Stock must not be sold twice, and an event must mean
  a sale.
- *Kafka consumers.* At-least-once delivery into operations without a key, beside revocations that
  may come before what they revoke.
- *web client.* Callbacks run with the state of the render they were made in; answers come in any
  order, after the page was left, or never. What a page shows and sends must be what its user
  meant and what the services have.

## Modules

| Module | What it is |
|---|---|
| `AtomicPoints` | What point-service promises a caller: each request takes effect at one instant |
| `PointLedger` | point-service in detail; shown to implement `AtomicPoints` |
| `PaymentSaga`, `MCPaymentSaga` | payment-service over one order: attempts, compensations, outbox, refunds; and its instances |
| `StockOrders`, `MCStockOrders` | order-service and product-service over one product; and the symmetry of its instance |
| `Cards` | CardService over the cards of one user |
| `MyPage` | The card page of the web client, extending `Cards`: the page and the service it calls |
| `OrderEvents` | `order-events` and its three consumer groups, the revocations of failed payments and the retry job |
| `Catalogue` | Documents of products, `product-events` and the search index behind them |
| `Ranking` | search-service's ranking, its cache and pushes, and the page that shows it |
| `Members` | member-service's join and update, and the pages that lead to them |
| `Checkout`, `MCCheckout` | The cart in one browser tab, its page, and the calls of `handlePay` |
| `ProductPage` | Hearts, counts and surveys of one product, over LikeController and SurveyController |
| `ProductLists` | App, its routes and lists, and which page can take the application off the screen |
| `ProductForm` | The forms of a seller |
| `OrderNotification`, `SearchBox` | The notifications at the top; the search of the start page |
| `MCShop` | Composes the modules of one run that share no state (see "Runs") |
| `PointLedgerProofs`, `StockOrdersProofs`, `PaymentSagaProofs`, `ServicesProofs`, `CardsProofs`, `CheckoutProofs`, `PagesProofs`, `ShopProofs` | Proofs (see "Proofs") |

### PointLedger

The account of one member; requests of different members share nothing. `row` is the committed
row, `booked` and `credited` what the committed rows of `point_history` add up to, `rowLock` the
InnoDB lock on the row (or on the row being inserted), `redisLock` the owner of the Redis lock
(`Orphan` when it died), `cache` the cached balance. Per client there is the request, the next
step, the entity in its persistence context (`seen`) and the answer.

| Code | Actions |
|---|---|
| `earnPoints`, `usePoints`, `cancelPoints` | `SelectForUpdate` (the wait, the read, the checks), `InsertRow` / `InsertFails` (no row yet), `Evict`, then `Commit` or `VersionConflict` |
| `RedisLockPointFacade.usePoints` | `TryLock` or `GiveUpLock`, `PlainRead` (no row lock), `Evict`, `Commit` or `VersionConflict`, `Unlock`; `LeaseExpires` at any time |
| `getPoint` | `ReadCache`, `ReadRow`, `InsertRow`, `FillCache`, `CommitNewRow` |
| InnoDB, failures | `LockWaitTimeout`, `Rollback`, `Crash`, `CacheExpires` |

A transaction's writes reach `row` at its commit, as absolute values computed from `seen`, under
`WHERE version = ?`: that is where a lost update would show. The plain read and the cache are
what the locks do not cover. `getPoint` looks at the cache and then returns the row in every case;
its transaction is read-only, so whether the insert of a missing row succeeds depends on the
driver: both outcomes are modelled. Amounts are positive, as all callers in the repository send
them, and unbounded.

### PaymentSaga

One order, any number of `createPayment` calls for it with the same request, and any number of
`refundPayment` calls. The request (`order`) has its method, whether it names points, whether they
leave something for the card, and whether it names a product; `DeductsPoints` and `ChargesCard` are
what the switch makes of it. With CARD no points are deducted, whatever `pointUsed` says, but the
row keeps `pointUsed` and a refund gives it back. Amounts are abstracted to counts: `applied[a][e]`
is how often effect `e` (a deduction, a charge, and the four compensations) has happened on behalf
of attempt `a`; `late[a][e]` counts calls that were not answered and may still take effect
(`LateArrives`). A call ends in one of three ways: `Happens`, `Unanswered`, `Refused`.

| Code | Actions |
|---|---|
| `createPayment` | `Start`, `CheckCompleted`, `UsePoints`, `ChargeCard`, `SavePayment` |
| its catch block | `RefundCard`, `CancelPoints`, `RestoreStock`, `RevokeEarn`, with `SaveFailedCompensation` after each that failed |
| `retryFailedCompensations` | `Poll`, `RetryCall`, `SaveCompleted`, `SaveRetry`, `SaveRetryFails` |
| `refundPayment` | `LoadPayment`, `RefundPoints`, `RefundToCard`, `SaveRefunded` |
| the process dies | `Crash`: every thread stops where it is, the local flags are gone |

`restoreStock` hides its failures from both callers. An exception out of `saveFailedCompensation`
leaves the catch block ("escaped"), and what it had still to do is not done. `SchedulingEnabled`
says whether the retry job runs; in the repository it does not (`PaymentServiceApplication`
enables no scheduling). `overlapped` is a history variable: it tells attempts made one after the
other from those that ran together. A database write that fails is taken to have changed nothing.

### StockOrders

One product and the orders for its title. `doc` is the document, reduced to its stock and the
last editor of its other fields; `cache` its Redis copy. Per order there is the step of
`RegistrationController.save`, the status of its row, its call of `decrementStock` as
product-service has it (which goes on when the caller has given up), whether its units were taken,
and its events. `sold`, `typed`, `overwritten` and `raced` are history variables: the units taken
less those restored, the units sellers added by typing, whether a write put back a stock that was
no longer current, and whether the copy owes its age to a late fill or a failed eviction.

| Code | Actions |
|---|---|
| `RegistrationController.save` | `CheckStock`, `SaveOrder`, `GetAnswer`, `Publish` |
| `decrementStock` | `FindAndModify`, `EvictAfterDecrement`, `DecrementFails` |
| `restoreStock` | `ReadForRestore`, `SaveRestored`, `RestoreFails`, `EvictAfterRestore` |
| `findById` | `LookInCache`, `ReadDocument`, `CacheProduct`; `CacheExpires` |
| `update`, from the form of `Editgonggu.js` | `SaveEdit`, `EvictAfterEdit` |

The form of the seller has the stock as a field: the seller sends back what the form showed, or
types another (`TypedStocks`), and the code asks neither time whether it is still right. Everything
`update` saves except the id and the manager comes from the form, so its read of the document needs
no step. `restoreStock` is called for an order that was placed, any number of times: payment-service
calls it for every attempt to pay the order that failed, and nobody checks whether its units were
given back before. So `StockConserved` does not say that units come back once; it says that the
stock is at all times what the calls made of it. That an order can be restored and then paid is
`PaymentSagaRepay`.

### Cards and MyPage

The rows of one user, and a number of requests under way. A request holds the row it read, as it
changed it, between its read and its save; a save writes all columns. `processCardPayment` is
followed by the rest of its web request: in it the entity manager is still open, so a compensation
finds the object of the charge and not what the table has by then, and its save is a statement
that finds no row if the card was deleted. The retry job has no such context: it merges, and a
merge of a row that is gone inserts it again under a new id. `cdRaced` is a history variable: did
two requests that write to the same cards overlap, or did a deletion die between the row and the
new default card. `MyPage` adds the page: it loads member, points, cards and orders one after the
other, and its handlers set the list from the one of the render in which a button was pressed.
Its behaviours end being followed once its calls have overlapped or failed: that the page may then
show a list that is not the user's is what the model says, and nothing more is to be learnt.

### OrderEvents, Catalogue, Ranking, Members

`OrderEvents`: one partition with an offset per group, committed after a handler has run, so that
a consumer that dies handles again; handlers that swallow their exceptions; `RevokeEarned` at any
time after the order, at first from `createPayment` and then, `MAX_RETRY` times, from the job.
`Catalogue`: `save` looks for the title and inserts, `update` reads and writes, and both send
their event afterwards; events may be lost or overtake each other, and the index consumer may die.
`Ranking`: a ranking is the number of records it was computed from; four kinds of task (a
listener, a search, the scheduler, a page's GET) compute, cache, push or answer in steps of their
own; pushes overtake each other, connections break and come back. `Members`: the two steps of
`join` and its welcome points, and one tab with its login, which may be answered when its page is
long gone, and its form of personal data.

### The web client

`Checkout` is one tab: `sessionStorage`, the cart page with its panel, and each press of the pay
button as a run of `handlePay` with the `cartItems`, the method and the points of its render. The
items of a page are the very objects of the runs pressed on it, and `UpdateQuantity` changes both.
A run goes on when the page is left, and beside another run of a page opened again; a reload ends
it between two steps, and what was on its way may be served all the same. `ProductPage` has the
heart that is set before the service answers and the id that only a list brings, and the percentage
as each component computes it (two cap it at 100, one replaces a `min_count` of 0 by 1, which the
seller's form allows); `ProductLists`
what App fetched when the tab was loaded, which page makes its list when, and what a render reads
of a product that is not there; `ProductForm` the `newform` that every callback spreads, as its
render had it; `SearchBox` the calls of the field and of the button, answered in any order;
`OrderNotification` the timers that remove by order id.

## Runs

| Run | What it shows | Distinct states |
|---|---|---|
| `PointLedger` | books balanced, no overdraft, locked reads current, `AtomicPoints` implemented, every request answered | 366 000 |
| `PaymentSaga` | what a failed attempt may give back, what a payment row and an answer "ok" are worth, one payment per order for a client that waits | 1 358 000 |
| `PaymentSagaOutbox` | with the job scheduled: rows are settled, settled rows stay, repetitions are bounded, known effects are undone | 208 000 |
| `PaymentSagaOverlap` | (violated) a repetition pays only once | |
| `PaymentSagaRepay` | (violated) a paid order keeps its stock and its points | |
| `PaymentSagaUnscheduled` | (violated) a PENDING row is retried | |
| `PaymentSagaRefund` | (violated) a refund gives back what the payment took, once | |
| `StockOrders` | stock conserved and never negative, events mean sales, the causes of a stale copy | 9 135 000 |
| `StockOrdersOversold` | (violated) nothing is sold twice | |
| `Checkout` | what a checkout that announces success has paid, what a failed one leaves unpaid, what the cart page shows | 2 640 000 |
| `CardsOverLimit` | (violated) payments at the same time stay within the limit of a card | |
| `Shop` | pages, forms, cards, members, events, ranking, notifications and search: each area's safety, and that all of them come to rest | 1 371 000 |

`CardsAgree`, `MyPageListsTheCards`, `HeartAgrees`, `FormKeepsWhatWasMeant`, `CatalogueAgrees`,
`MembersAgree` and the search part of `ShopSettles` are conditional on a history variable
(`cdRaced`, `mpRaced`, `ppRaced`, `pfRaced`, `caRaced`, `mbRaced`, `sbRaced`). They say that the
named races are the *only* ways to lose the agreement; they say nothing against the races, which the
code has and the models can do. Where a document of the repository denies one, it is a run that is
violated (`CardsOverLimit`, `StockOrdersOversold`, `PaymentSagaOverlap`, `PaymentSagaRefund`);
where none does, it is in the hazards of `PROJECT.json` with a note and in the list at the end.

The properties in words are in the modules, before each definition. Those of the violated runs
state what the repository's documents say, and `PROJECT.json` quotes them under "findings".

**Shop.** Eleven modules share no variable and no code path that the others would change. `MCShop`
checks them in one run: `area` says which of them a behaviour is about, and the rest keep their
initial state. That is the union of eleven state spaces, not their product, and loses nothing: a
property of an area depends on its own variables only. `DocumentsAgree` is the conjunction of
`CatalogueAgrees` and `MembersAgree`; `ShopSettles` that of the four liveness properties.

**Bounds.** `PointLedger`: two clients make four requests in all, of amounts 1 and 2: enough for
each pair of operations to overlap after a third has created or filled the account, and for a client
to come back to a lock it left behind. Safety with more clients is what the proofs are for.
`PaymentSaga`: two attempts and one refund, one crash: a race needs two attempts, and a repetition
after a failure is also two. `PaymentSagaOutbox`: one attempt, two retries, one crash or failed
save; rows are independent, so one attempt's rows are enough, and with two retries a row is polled
again after a failure. `StockOrders`: two orders of one or two units out of three, so that one or
both fit, two restorations (of two orders or of one), one edit that may type a stock of four (more
than there ever were) and one visitor. `Checkout`: two products of one price, two units in the cart
and two items in all calls of `handlePay`: one checkout of two items or two overlapping ones of one;
points that suffice for one, for both or were typed. `Shop`: two requests and two rows of cards (a
default card and its successor, a deletion beside a charge), a limit of one charge; two events with
one death or failure and two retries; two documents and two writes by two sellers; two records of a
ranking that one page watches through one failure; four messages of two orders where two are kept;
four actions in the search field; three products (running, not yet, over) of which the service may
answer any; a `min_count` of -1, 0 or 2 with up to three units, so that it is not met, met and
exceeded; two files and two values of each field; two joins under two ids. Each bound is a constant
named in the `.cfg`. `MAX_RETRY` is 5 in the code and a constant here.

**Deadlock.** `AllServed`, `AllSettled` and `AllDone` mark the states of the first three systems in
which everything asked for has been done, and any other state without a successor is an error. In
`Checkout` the tab is followed until the last call it may press has ended, and in `Shop` an area
stops when its bounds are used up: both say `CHECK_DEADLOCK FALSE`. `Checkout` uses the symmetry of
its two products, `PaymentSaga` that of attempts and of refunders, and `StockOrders` that of orders
and of restorers: each is interchangeable, and these runs have no temporal property.

**Fairness.** `PointLedger`: each client's thread goes on when it can (weak fairness of `Step`).
Nothing is assumed of lease expiry, crashes or failures. A request that waits for the Redis lock
of a dead process is answered because `tryLock` gives up after ten seconds, one that waits for a
row because InnoDB does. `PaymentSaga`: threads and the scheduler go on; nobody has to send a
request, and an unanswered call need never arrive. These are the guarantees of a running JVM.
`OrderEvents`: a consumer that is up handles what is in its partition, and the job comes round
every 30 seconds (as above, if it is scheduled at all). `Ranking`: what has begun goes on, an open
page reconnects, pushes arrive, and `@Scheduled(fixedRate = 60000)` computes the ranking again;
the page's own GET may never be answered. `OrderNotification`: timers fire. `SearchBox`: a call is
answered or fails. The bounds on records, failures and user actions make "when nothing new
happens" of the properties: failures stop some time, and new orders, searches and keystrokes too.


## Proofs

Eight modules hold proofs, each about the modules it EXTENDS. Every invariant and every action
property that a run checks is stated by a theorem, and so is the refinement. The theorems hold for
every value of the constants, so for any number of clients, orders, cards, clicks and failures, and
rest on the named assumptions of the modules (sizes are numbers, amounts are positive, a value that
stands for "nothing" is not one of the things), which TLC evaluates in every run. `PROJECT.json`
lists the theorems a reader should know of, with the property each one states. The argument is an
inductive invariant in each case; TLC finds the theorems' properties true on the small instances
first.

**PointLedgerProofs.** The balance is its history, is never overdrawn, and a read under the row
lock stays current. None of these is inductive: one has to say which request is at which step
(`KindAtStep`), that who holds the row lock is inside its transaction (`LockHeldInside`), that a
row `getPoint` inserts is seen by nobody before its commit (`InsertedUnseen`), that there are no
points without a row (`NoRowNoPoints`), and, for the path that takes the Redis lock only, that it
read a past row, which is the present one if the version is (`SeenIsPast`, `EnoughSeen`). The last
part is where the proof says why a lease that runs out does no harm: `@Version` carries it alone.

`Atomic` is the refinement: every step of `PointLedger` is a step of `AtomicPoints` or a stutter.
A request takes effect at its commit, or at the read that refuses it or finds its balance, which is
when its answer is there, though the thread has still to fill the cache or to unlock. For it the
invariant also says when a request has been answered (`AnsweredWhenServed`) and which requests go on
only if there is a row (`RowFound`).

**StockOrdersProofs.** Each writer of the stock changes it by what it was asked to and by nothing
else (`StockIsConserved`) as long as no whole-document write put back a stock that was no longer
current, for any number of restorations of one order and any stocks typed; an event means a sale, a
stale copy has one of the named causes. The strengthening: a restorer about to write restores some
order (`RestoresAnOrder`), an order is saved before its call sets out (`SavedBeforeCalled`), units
are taken before anybody is told so (`TakenBeforeTold`), and the event is sent last
(`OnlyThenPublished`).

**PaymentSagaProofs.** `Inv` adds to the types: what the job polled is still PENDING and under the
limit (`JobInv`); no row is there before its compensation failed, and none for an attempt that was
answered (`RowsInv`); an attempt has made no effect whose step it has not reached (the sets
`Before`), has made those it is past, and has a payment row only if it took everything and never
came into the catch block (`CountInv`); refunds load what they refund (`RefundInv`); a catch block
leaves nothing it has passed (`KnownInv`); attempts that do not overlap run one at a time, and none
that is past its check runs beside a completed payment (`SequenceInv`); an "ok" has its row
(`AnswerInv`).

Two of its theorems count, and each holds under an assumption that it names.
`NothingOverCompensated` says that a failed attempt gives back no more than it took, and that a
refund gives back once what the payment row says: with CARD that may be points nobody took, so the
theorem does not say that refunds only return what was taken (`PaymentSagaRefund` shows that they do
not). It needs the job not to run and one refund at most: the job repeats calls whose answer was
lost, and two refunds of one payment both give back. That repetitions are bounded (`BoundedRepeats`)
needs that nothing is refunded, as a refund gives back the same things; each repetition is then paid
for by a counted retry, by a crash or a failed save, or by the row the job has in hand.

`SettledWithoutRetries` is the safety half of `PendingIsSettled` and `KnownEffectsUndone`: when the
job finds nothing to retry, no row is PENDING, and what a failed payment knew of was given back or
has a row that is FAILED. A row becomes COMPLETED only after a call that took effect (`DoneInv`),
also when the first save of it failed and the retry's counter wrote the mark; `restoreStock` is
excepted, as it hides its failures. That the job gets there is the liveness that TLC checks.

**ServicesProofs.** `EarnedOnce`: a consumer that dies goes back to its committed offset, so an
event it has not passed was delivered at most once for each death, and one it has passed once more
(`PassedAndDelivered`); what was revoked had been earned unless something failed or came early
(`RevokedWhenEarned`). What is earned is a sum over the events, a fold in the model; it is counted
instead, as the cells <<event, 1>>, <<event, 2>>, ... of a finite set. `IndexShowsDocuments`: of a
document that no call is about to send, the events say last what the document has (`EventsFollow`),
and of one that no event to come is about the index has what was said last (`IndexFollows`); the
second survives a consumer that goes back, as the events are then to come again.
`MembersWelcomedOnce`: each welcome belongs to a call of `join` that has ended, and without a race
there is one call at a time (`JoinsCounted`, `OneJoin`).

**CardsProofs.** A card is never used above its limit or below zero although rows are written back
whole, because a request holds a row that was within the limits when it was read and stays so as
it changes it (`TypeInv`). That the used amounts are what was charged less what was refunded,
that a number is there once and that there is one default card needs the absence of races:
`AgreeInv` says that requests which do not overlap work on different rows (`Apart`), and hold what
the table has (`Table`, `Faithful`). `PageListsCards` is about the page over the service: without
a race it has at most one call, whose list is that of the page, and what exists now is that list
with or without the card of the call, according to the step of its request (`Follows`).

**CheckoutProofs.** `Sound` is about one call of `handlePay`: before an order everything ordered is
paid, between an order and its payment all but the item of the moment. `CartInv` and `PageInv` are
about the page: what it lists is what the session stores, it has at most one call and its button
knows of it, and a call whose page is mounted has not ended. `CheckoutPays` follows a call item by
item: no product is twice in a cart (`OneOfEach`), what is paid is what the items so far say
(`BoughtSoFar`), and the points asked for are what the items so far are worth, with a card unless
those set aside are used up (`UsedSoFar`). What items are worth is again a fold that is counted
(`TotalIsWorth`, `WorthGrows`), and the bound on units gives the types (`UnitsBound`).

**PagesProofs.** App asks for the products once (`AskedOnce`): lists made before they came are
empty, lists made later are of the products that are there. The three lists of `Sale`, `Wish` and
`Home` are apart by arithmetic on dates, and a seller finds each product in one of them by counting,
for which the sets of products have to be finite. For the page of one product: a full heart has a
like, stored or on its way, that no call is about to delete (`HeartHasLike`), a list is answered
before an id is known (`ListFirst`), and a component that has posted nothing has at most the like it
found (`NothingPosted`). What `Percent` is when the product is achieved, 100 where it is capped and
at least 100 elsewhere, is a fact on division, for a `min_count` above zero. For the form of a
seller: without a race at most one thing is awaited (`OneAwaited`), and what the seller meant is the
form of the render in which a file was chosen, with the photo in its place (`AwaitedCompletes`); so
the callback that spreads an old form undoes nothing.

**ShopProofs.** The run `Shop` and its composition: `ShopInv` is the conjunction of the areas'
invariants, and every step is one of an area that keeps its own and changes no other's variables.
The cards occur twice, beside the page and without it (`CardsShown`). Three areas have their proofs
here: a page shows no ranking ahead of the records (`RankingNotAhead`); when no timer is left the
list of notifications is empty, because each notification has a timer of its order
(`TimersClear`); when no call is under way the search shows what was asked last, unless the user
acted during a call (`AnswersSettle`). These are the safety half of what `ShopSettles` says of
notifications and search; the other half is that timers fire and calls are answered.

*Only model-checked:* liveness (`EveryRequestAnswered`, `PendingIsSettled`, `KnownEffectsUndone`,
`ShopSettles`), which is beyond the prover, as is ENABLED, and with it that these models do not
deadlock. What a fold or a recursive function computes is proved where it is needed by
counting or by a smallest counterexample, as the library's induction theorems cannot be used here.
No module declares a RECURSIVE operator.

## What the models show beside their properties

These are consequences of the code which the models make visible: they are in the actions, and no
run is spent on them.

- A deduction of points that is answered too late is not given back: the catch block compensates
  what it knows of, which is why `KnownEffectsAccounted` is about known effects.
- A refund gives back the `pointUsed` of the row, with CARD points that nobody took; and two refunds
  of one payment at once both read COMPLETED and both give back. `PaymentSagaRefund` has both ways
  and shows the first; with `Orders <- WebOrders` TLC finds the second. A refund whose calls all
  failed is saved as REFUNDED.
- A restoration of stock that fails leaves no row in the outbox, as `ProductRestClient` lets no
  exception out; docs/PAYMENT_TROUBLESHOOTING.md:321 has it recorded and retried.
- An order that `decrementStock` refused stays CONFIRMED and is counted by `/order/count`; README.md:93
  has it refused at once.
- The stock of an order comes back as often as an attempt to pay it failed, and the order may be
  paid all the same.
- The percentage beside a product may be 100 while units are missing (199 of 200), 150 where it is
  not capped, and NaN beside a product of `min_count` 0, which counts as achieved at once.
- When a lease of the Redis lock is over two clients are inside; the version refuses the second.
- The balance in the cache never reaches a caller of `getPoint`.
- A checkout that pays everything empties the cart, with what was added meanwhile. Two overlapping
  checkouts pay the same cart twice.
- The order of the order form is not paid by anything, and may be one of no user.
- The points of a failed payment stay with the user when `order-events` is consumed after the last
  retry of their revocation.
- Resetting the form of a new product keeps the old values in the state; typing while a file or the
  product is loaded is lost; the form of personal data sends an empty password unless one is typed.
- Joining twice at once leaves one document and two welcome earnings.
- `SellController.update` renames a product without asking whether the title is taken.
- A late answer of the search shows suggestions under a field that was emptied.
- The list of a product's buyers (`Check.js`) takes the application off the screen once the service
  answers `GET /sell` with several products, or an order has no sizes.
- nginx.conf sends `/my` to member-service, which has no likes: behind that proxy each call of
  ProductPage ends in `LikeFails`.

## Not modelled

Wording, layout and logging; the copying of DTOs; `HmacService`, whose signature is made and
verified by the same code on the same text. Notes and their pages are single inserts, and queries
that only read are left to the readers that matter. The monolith under `src/main` is superseded by
the services. Deployment files and load tests hold no logic of the shop. The scores of the ranking
and of the search are floating-point sums and Elasticsearch's; that log records drop out after an
hour is left out with them. Negative amounts sent to `decrementStock` and `restoreStock`, which no
client of the repository sends (`POST` and `PUT /sell` refuse negative stocks), amounts near 2^31, a
database write whose acknowledgement is lost, and replicas of a database are outside the models. Of
the pages, Product's own display of the stock, an answer that fails after `Editgonggu` was left, and
what MyPage shows after its first race. `PROJECT.json` says for each component what is modelled, and
lists the hazards with the properties about them.

## Plan

Done, in this order: point-service and its abstract specification, the payment saga with its
outbox, orders and stock, the consumers and the search index, cards, members, the web client;
proofs in the order of the section above, until every invariant, every action property and the
refinement had its theorem, and then the safety halves of `ShopSettles`, `PendingIsSettled` and
`KnownEffectsUndone`. Left: negative amounts of `decrementStock` and
`restoreStock`, which need a client that sends them.
