# TecnoTools: a TLA+ model of the shop's back end

TecnoTools is a web shop: a FastAPI back end (`src/backend/app`) over Postgres, a
browser front end, and a handful of outside services (PayTR and Stripe, an e-invoice
integrator, parcel carriers, product suppliers, SMTP). Every HTTP call is a coroutine
with a database session of its own; a scheduler task and a few background tasks run in
the same process. There is no message queue: calls meet in the database, at READ
COMMITTED, and most of them read rows without a lock, decide, and write later. That is
where this project looks.

## 1. Inventory

| Component | Code | State | What makes it correct | Modules |
| --- | --- | --- | --- | --- |
| Order lifecycle | `routers/orders.py`, `services/tracking.py` | `orders`, items, `order_counters`, audit log | a status and the stock it stands for agree; a deleted order is not revived; the times shown are the order's own | OrderStock, Checkout, Timeline |
| Stock ledger | `services/stock.py` | stock of products and variants, `stock_movements` | each line taken and given back at most once in turns; no lost update | OrderStock, Fulfilment |
| Card payments | `routers/payments.py` | `orders.payment_status` | money that was taken is booked, together with the stock | OrderStock |
| Totals, coupons, loyalty | `routers/orders.py`, `services/loyalty.py`, `routers/coupons.py` | order row, coupon row | amounts agree after rounding; numbers without gaps; points are spent once | Checkout, Register, Money |
| Carrier events | `services/carriers/dispatch.py`, `routers/shipping.py` | `shipment_events`, order status | every event stored once, status explained by an event | Tracking |
| Scheduler | `services/scheduled.py`, `services/backup.py` | tick counters | every task gets its turn | Scheduler |
| Invoices | `routers/invoices.py`, `services/einvoice.py` | `invoices`, `invoice_counters`, the integrator | numbers unique, shop and integrator agree | Invoices |
| Returns | `routers/returns.py` | `return_requests`, stock | decided once, restocked once | Shelf |
| Catalogue, suppliers, imports, pricing rules | `routers/products.py`, `misc.py`, `dropshipping.py`, `pricing_rules.py`, `imports.py`, `services/pricing.py` | `products`, variants, movements | edits do not undo sales; a rule settles | Shelf, Money |
| Waiting lists and favourites | `routers/stock_notifications.py`, `routers/wishlist.py` | notification and wishlist rows | told once; kept until removed | Shelf, Favourites |
| Sessions | `routers/auth.py`, `customer_auth.py`, `admin_users.py`, `services/totp.py` | refresh tokens, password links, one-time-code step | one heir per token; a new password ends the old sessions | Sessions |
| Data requests | `routers/privacy.py`, `customer_auth.py`, `services/privacy.py` | deletion requests and every table with personal data | nothing is left but what the law keeps; nothing is erased that was cancelled | Privacy |
| Event bus | `services/events.py`, `routers/events.py`, `routers/ws.py` | bounded queues, sockets | order kept, only slow readers lose | EventBus, Feed |
| Support chat | `routers/chat.py` | sessions, messages, sockets | a tab misses no message within its history's limit | Chat |
| Campaigns | `routers/campaigns.py` | campaign row, background task | sent once, accounted for, ends | Campaigns |
| Reservations | `routers/reservations.py` | `reservations` | rows of a cart are its last cart | Carts |
| Reviews | `routers/reviews.py` | `product_reviews`, rating of the product | the rating is the average of what is approved | Reviews |
| Exchange rates | `services/currency.py` | cache and lock of the process | one fetch per period, never back to older rates | Rates |
| Scores | `services/segmentation.py`, `forecasting.py`, `risk.py`, `shipping.py`, `gib.py` | none, pure | monotone, within their bounds | Scores |
| Search and suggestions | `services/text_utils.py`, `recommendations.py`, `routers/products.py`, `algorithms.py` | none, pure | scores order what they should, nothing twice | Search, Suggestions |
| General cache, content, administration, start-up | `services/cache.py`, rest of `routers/` | single tables | independent calls | none, section 9 |

How they interact:

* checkout, card notices and status changes all call the stock ledger in the transaction
  that changes the order;
* a booked payment starts the automatic invoice, in a session of its own after the commit;
* carrier events (webhook, admin, scheduler) write the order status without the ledger;
* returns, forms, imports and the supplier synchronisation write the same stock columns
  without the ledger's locks, and returns add movements the ledger counts;
* a form that brings stock back or lowers a price goes on to mail the lists that wait;
* an erasure goes through the rows that checkout, invoices, returns, reviews and chat write;
* every commit is followed by `bus.publish`, which the SSE streams and the WebSocket
  relay read in the same process.

Hard behaviours: reads that are stale when they are used (there is a lock only in the
ledger, in the order counter and in a few atomic UPDATEs); the ORM's habit of writing
only changed columns and of not refreshing objects it already has; notices that are
repeated, overtaken or arrive after a deletion; a crash between an outside effect and the
commit; one duplicate row rolling back a batch; background loops that one failure stops;
queues that drop; a process whose memory a restart empties. PROJECT.json lists forty of
them, each with its line, the properties that watch it and, where a property excuses the
overlap itself, a note that says so.

## 2. The core: OrderStock

`OrderStock.tla` models the order row, its payment and the stock as one component,
because one transaction changes all three.

| TLA+ | Code |
| --- | --- |
| `order[o]` | `orders` row: exists or not, `status`, `payment_status` |
| `stock[t]`, `listed` | `stock` column of a product or variant; rows that still exist |
| `rows[o]` | number of `stock_movements` of the order per reason; `Net` is `_movement_count` |
| `lock[o]` | the `SELECT ... FOR UPDATE` of `_lock_order` (and the row lock an UPDATE takes) |
| `job[w]` | one HTTP call: what it read, what it will flush (`dirty`), what it decided |
| `gateway[o]` | the payment provider: charged or not, with the total of the order or another amount, notices it has still to deliver |

A call is cut where other calls can commit: after its unlocked read (`Checkout`,
`UpdateStatus`, `ApplyEvent`, `ReceiveSuccess`, `ReceiveFailure`), after the row lock and
the count of movements (`LockOrder`), and at its commit (`Commit`, `Write`, `CreateOrder`).
The reads of the target rows, their change and the movements are one action, because the
targets are locked from their read to the commit. Three habits of the ORM matter and
are modelled:

* only columns whose value differs from the one that was *read* are flushed (`Changed`,
  `Flushed`): a call does not touch a column it leaves alone, and does not rewrite one
  whose new value equals its stale reading;
* a cash-on-delivery checkout has its products in the session before it locks them, and
  the locked select does not refresh them: its deduction starts from the old value
  (`shelf`);
* an UPDATE of a row that was deleted matches nothing and raises: the call rolls back
  (`StaleRow`).

A success notice whose amount differs from the total is answered and changes nothing but the
audit log (`AmountMismatch`): the charge is never booked, and an administrator has to settle it.
PayTR's amount must be equal; Stripe's is converted at the rate of the moment, so either
amount may pass or fail (`Fits`, `Differs`). `ChargeIsBooked` speaks of PayTR charges of the
amount that was asked.

`Crash` ends a call at any point before its commit. A notice whose call died, or whose
answer was lost after the commit (`Answer`), is delivered again.

`Fulfilment.tla` is what the component promises, with neither calls nor locks: stock
of an order is held as a whole or not at all, a booking comes with the stock, holding and
releasing alternate, a closed order does not change. `OrderStock` implements it under the
refinement mapping `F` (held from the movements, paid and closed from the row). What
the abstraction does *not* promise is as telling: `Withdraw` keeps the stock, and nothing
ties the status to the stock; section 7 shows why.

Left out: names, addresses and mails (no property reads them), amounts but for whether they
differ; notices with a wrong signature (rejected before any state is read); the locks of single
target rows (`stock.py:64`: `Commit` takes them in one step; a cycle of waits would end one call,
which `Crash` covers); iyzico (no route uses it). Stock edited by hand, refunds and the
clearing of movements by administrators are in `Shelf` (section 5).

## 3. Invoices

`Invoices.tla` models one year's register of e-invoices.

| TLA+ | Code |
| --- | --- |
| `counter`, `holder` | the year's row of `invoice_counters` and the row lock an open UPDATE of it holds |
| `invoices` | committed rows of `invoices`: number, order, status, ETTN |
| `docs` | what the integrator has filed; the position is the ETTN |
| `live` | orders that still exist; deleting one deletes its invoices |
| `job[w]` | one call: order, counter value read, answer |

`next_invoice_no` reads the counter without a lock (`ReadCounter`) and writes it later
(`DrawNumber`). The write waits for a transaction that wrote the row before (`LockFree`)
and then puts its *stale* value over it; what rescues the register are the constraints the
inserted row meets (`Insertable`: one counter row per year, a unique number, an existing
order), which undo the whole transaction (`DrawRefused`). The integrator accepts, rejects,
or files the document and loses its answer (`Accepted`, `Rejected`, `AnswerLost`: the
adapter reports a timeout like a rejection). Automatic and manual issue differ only in how
they report an error, so they share the actions from `Check` to `CommitIssue`. Cancelling
asks the integrator first and commits after (`CancelDoc`, `CommitCancel`); an order cannot
be deleted while an inserted invoice keeps its key locked (`Inserting`). A crash ends a
call at any point; documents filed by it stay filed.

Left out: amounts, the XML and PDF renderings, and other years (each has its own counter).

## 4. Tracking and Scheduler

`Tracking.tla` models parcel events, `Scheduler.tla` extends it by the loop that polls.

| TLA+ | Code |
| --- | --- |
| `history[o]` | what has happened to the parcel, as the carrier would tell it |
| `stored` | rows of `shipment_events`; the unique constraint makes it a set |
| `order[o]` | `status`, `carrier` (set or not) and `shipped_at` of the order |
| `job[w]` | one database session: the events it was told, what it loaded (`seen`), inserted (`ins`), changed (`moved`), locked |
| `phase`, `counter[t]` | where the loop is in its tick, and its counter for each task |
| `since`, `raised` | observed only: ticks since the last alert and backup, and whether a tick was cut short since |

Webhook, sync and poll call `apply_event` for one event after the other in a single
transaction (`Take`, `InsertEvent`, `Align`; cut where other sessions can commit or lock). A
stored event violates the unique constraint, and `apply_event` answers with
`db.rollback()`: everything the call has done so far is undone, and everything it has
loaded is expired (`Duplicate`, `RolledBack`). A webhook then selects the order of its
next event anew and goes on. A sync and the poll hold on to their expired order: the next
attribute they touch would need an implicit load, which an async session refuses, and they
raise (`Raise`). Nobody catches that in the poll, so the tick ends (`PollFails`). An
insert waits for an open insert of the same event, an update for the row lock of another
session; Postgres ends one call of a circle (`Victim`).

The loop runs its tasks in order (`TickOrder`), each if its counter is zero (`Turn`,
`Rest`). A task that raises drops the rest of the tick (`TickFails`), but the counters
advance (`Advanced`), so what was dropped waits for a whole period. `Raising` names the
tasks that may raise for other reasons (database or storage out).

Abstracted: event codes to one per effect (`created` none, `in_transit`, `delivered`,
`returned`); an event's identity, with the date the parser reads (an unreadable date
becomes the time of the call, so such an event is never a duplicate); a webhook body to
one or two different events; audit rows, mails and the bus messages, which are sent
before the commit and are not taken back by a rollback. Not modelled: the answers of an
adapter without an API key, signatures, a tracking number that changes, `delivered_at`,
more than one server process.

## 5. The rest of the shop

### Checkout, Register, Money

`Checkout.tla` is what `POST /checkout` computes: coupon, points, totals, order number, for
one customer, one coupon and one year. Stock and payment are in `OrderStock`; here an order
is an amount that is approved, cancelled, deleted or ages.

| TLA+ | Code |
| --- | --- |
| `order[o]` | row of `orders`: number, status, payment, amounts (`bill`), and whether it is recent enough for its points to count (`loyalty.py` forgets them after their validity) |
| `coupon` | the row of the code, or none |
| `counter`, `lock` | `order_counters.seq` of the year and the transaction that has it locked |
| `job[w]` | one checkout: what it read of coupon and points, its bill |

A checkout is cut after each read: `Begin` and `Quote` read coupon and balance,
`LockCounter` takes the number under `SELECT ... FOR UPDATE`, which `Commit` releases. The
first two orders of a year both find no row (`NoCounter`) and both insert it; one meets the
key (`InsertRefused`) and is answered with an error. Amounts are kurus. `Money` says what the
columns and the code do to a quotient: `NUMERIC(12, 2)` rounds halves up (`Stored`), Python's
`round` of a float may fall to either side at a tie (`Rounded`, a choice).

`Register.tla` is the abstract specification of a yearly register: numbers are appended, each
to one holder, never changed. `Checkout` implements it under the mapping `R`.

### Shelf

`Shelf.tla` has one product with one variant, its movements, and every call that writes the
row without locking it.

| TLA+ | Code |
| --- | --- |
| `product`, `moves`, `order[o]` | product row and variant stock; `stock_movements`; whether the order holds stock |
| `request[r]`, `notice[e]` | `return_requests`; `stock_notifications` |
| `SaveForm`, `Import`, `Sync`, `ApplyRule`, `BulkPrice` | the unlocked calls of `products.py`, `imports.py`, `suppliers/sync.py`, `pricing_rules.py`: read, and at `Commit` write the columns whose value differs from the reading |
| `Decide`, `Withdraw`, `ReadShelf`, `Commit` | a decision on a return; a refund also restocks |
| `Gather`, `Mail`, `CommitNotices` | the mails to customers who wait, one by one, with one commit at the end |

Sales and cancellations lock the row and are one step (`Sell`, `CancelOrder`); `OrderStock`
has their inside. `NewPrice` is `compute_new_price`.

### Sessions

Administrators and customers, their refresh tokens, one-time codes and password links.
A call reads at its first step and writes at its commit. Two statements write
earlier and hold rows until the commit: the rotation locks the token it uses up (`Rotate`,
then `AdminHeir` or `CustomerHeir` issues the successor), a new password locks the account
(`WritePassword`) before it revokes the tokens it finds (`CommitRevoke`). The two can
wait for each other; `BreakDeadlock` is Postgres ending one of them. `Replay` presents a used
token and revokes all. What the properties need and no column holds is in `seen`
and in fields of a token: the number of revocations before a session began (`epoch`), and
whether its call was under way during one (`late`).

### Privacy

An erasure is one transaction of seven statements (`AnonymizeOrders` ... `DeleteMisc`, `Erase`),
each of which finds the rows committed at that moment; other calls write orders, invoices,
returns, reviews, subscriptions and chats between them. `Ask`, `Confirm`, `Cancel`, `Run` are the
handlers with their unlocked reading of the request's status. A customer may be deleted
and come back with a new key. `Exported` is what an export shows. What a row is written with is
one of three parts: the contact (name, e-mail, phone, address), what the invoice needs (tax
number, company) and the buyer's note (`Written`); a mask takes the contact and leaves the
second part of orders and invoices and the note of orders (`Stays`). E-mails are compared as they
are typed, as the columns do, so two spellings are two members of `Emails`.

### Process: EventBus, Feed, Campaigns, Chat

`Process.tla` composes what lives in the memory of the one server process and ends with it:
`Restart` is one step of all three parts.

| Module | TLA+ | Code |
| --- | --- | --- |
| `EventBus` | `queue[q]`, `reader[q]` | `asyncio.Queue` of a subscriber and where its reader waits |
| | `Publish`, `Put` | `publish` with `put_nowait`: a full queue drops the event |
| | `OpenStream`, `StartStream`, `Yield`, `CloseStream` | `GET /events` and its generator, which subscribes before it starts |
| | `TakeEvent`, `SendText`, `Lose` | the relay of `ws.py` and the sockets it awaits in turn |
| `Campaigns` | `Send`, `Begin`, `Mail`, `Complete` | `send_campaign` and the background sender with its commits per batch |
| `Chat` | `ConnectTab`, `ReadHistory`, `Greet` | a tab joins the pool, reads its history, sends it |
| | `Receive` ... `CommitMessage`, `StartSend`, `SendFrame` | a message: unlocked reading, commit, one socket after the other |

The three parts share no variable but the restart, and `MCProcess` lets each behaviour move one
of them beside it; of the bus either the stream or the sockets, whose queues are apart. Everything
runs in one event loop, so a step goes from one `await` that may wait to the next. `Feed.tla` promises a
receiver that events come in order and none twice; `EventBus` implements it. That a receiver
misses nothing else than what a full queue dropped is `OnlyOverflowMissed`: `busPast` remembers
which events met a full queue, and since when a reader is subscribed and a socket connected.
A history holds the *oldest* messages up to its limit, as the query sorts and cuts it; messages
come in the order of their ids.

### Parts of the storefront

Small modules that share no variable; `MCStorefront` lets each behaviour move one of them.

| Module | State and actions | Code |
| --- | --- | --- |
| `Timeline` | orders and the audit log, whose rows carry the start of their transaction; the steps a customer is shown | `services/tracking.py` |
| `Reviews` | reviews of a product and its rating; an edit counts what is committed, then commits | `routers/reviews.py` |
| `Carts` | reservations; a sync of three statements with row locks and the unique key; what is left of products with and without variants | `routers/reservations.py` |
| `Favourites` | wishlist rows and prices; merge, add, remove, the mail for a lower price to members who are not switched off | `routers/wishlist.py`, `products.py` |
| `Rates` | rates per base currency, the lock of the process, callers; a service that fails or answers without rates | `services/currency.py` |
| `Scores` | pure: tax numbers, quintiles and segments, classes, reorder points, risk, delivery fees | `services/gib.py`, `segmentation.py`, `forecasting.py`, `risk.py`, `shipping.py` |
| `Search` | pure: edit distance row by row, trigrams, scores of a text, products bought together | `services/text_utils.py`, `recommendations.py` |
| `Suggestions` | pure: the lists made of them (search, completion, related, trending, session) | `routers/products.py`, `algorithms.py`, `services/recommendations.py` |

The pure modules take one input per behaviour (`ScoresSpec`, `SuggestionsSpec`) and compare the
translated algorithm with what it stands for: the edit distance with the words reachable in
that many edits, a score with its order. Loops are recursive functions (`Table`, `Without`) or
sums over sets, so that they can be proved about. Where the code divides, both sides are
multiplied; equal scores come in any order. Sales lose weight with age by an exponential: the
constant `Weights` has one positive number per paid order instead. A completion reads at most as
many rows as `Cuts` says, any of them, because the query has no order (`RowsRead`). A customer's
value is computed from the days since the first and the last order (`Span`). Prices in
`Favourites` change by the product form only, the one writer that mails; the finding at
`products.py:385` names the others.

Some properties excuse a case in their own words: a rating may be stale if calls
overlapped and none ran alone since, a token may survive a new password if its call was under way. The
excuse is observed exactly (variables `seen`, `past`, `stale`, `mixed`), and the property
says that nothing else goes wrong. Where the repository denies an excused case, section 7 says so.

## 6. What is checked

Ten runs that pass and two that TLC refutes (section 7). Deadlock is checked in `carrier_events`
and `duplicate_events`, whose loop never stops; the others have a bounded number of calls and
end when these are used up.

| Run | Instance | Shows |
| --- | --- | --- |
| `one_order` | one order of two lines, all methods, both gateways, 4 status changes, 1 event, 1 crash; or two orders, one by wire and one by PayTR, an ample and a scarce target, 3 status changes | `AllOrNothing`: the ledger holds all lines or none; `UnitsAccounted`: no unit disappears, no update is lost; `PaymentTakesStock`; `ImplementsFulfilment` |
| `charge_booked` | fair runs with PayTR, an administrator, one crash, a product that may be deleted | `ChargeIsBooked`, `CallsReturn`; `NeverDeductedTwice` even with a partial ledger |
| `invoice_register` | three workers, two deletable orders, five calls, one crash | `Gapless`, `ShopAgrees`, `OrphansExplained`, `StrayedExplained` |
| `carrier_events` | two orders, one call beside the poll, two events, one outage or restart | `StatusExplained`, `BackupOnTime` |
| `order_numbers` | three orders, two at a time, three coupon forms, one crash, one edit, three changes | `BillHolds`, `PointsCovered`, `ImplementsRegister` |
| `stock_writers` | two unlocked calls, two sales or ledger edits, two requests, one customer who waits | `StockAccounted`, `DecidedOnce`, `ToldOnce`, `RuleSettles` |
| `sessions` | an administrator and a customer, two workers, five calls, one link, one account change | `OneHeir`, `RevocationReaches`, `UsedOnce` |
| `privacy` | one e-mail, three rows, two workers, one request, two changes by administrators | `NothingLeft`, `OpenOnlyIfLater`, `CancelledMeansKept`, `ExportComplete` |
| `live_services` | three subscribers, batches of two; a tab and a desk, two messages; queues of two under a stream with four events or two sockets with three; one restart | `MailedOnce`, `Accounted`, `SendingEnds`; `NoneMissed`; `OnlyOverflowMissed`, `ImplementsFeed` |
| `storefront` | one part per behaviour, see below | `TimelineTrue`, `RatingTrue`, `CartHeld`, `FavouritesKept`, `RatesTrue`, `FairScores`, `SearchTrue` |

Why the bounds are enough:

* **OrderStock.** Two workers overlap any two calls in every way. Four status changes reach
  approve, cancel, approve, cancel, the longest cycle that shows the ledger starting over.
  Two lines tell all, some and none apart. An ample target (demand at most the stock)
  and a scarce one (the clamp at zero) are the two cases `_apply` distinguishes. The ledger
  properties hold for any number of workers by proof. The two orders that compete pay by wire
  and by PayTR: two that pay on delivery at once do lose a deduction (section 7).
* **Invoices.** A stale counter value needs a third call to be drawn twice. `Gapless` speaks
  of the time before the first deletion, which takes its invoices along. `OrphansExplained` and
  `StrayedExplained` are the two ways shop and integrator can disagree: a document the shop does
  not know, and one it counts as sent after the integrator has cancelled it; each is traced to a
  crash or a lost answer.
* **Carrier events.** Two events and two sessions give every order of inserts and rollbacks
  on one parcel and circles of waits on two. The periods 12, 2, 48 and 12 are scaled to
  2, 1, 2 and 2 ticks: the poll's still divides the others and a task can miss its turn.
* **Checkout.** One order (300.50) earns points, two (99.75) spend them, with a request within
  the balance and one beyond it; the amounts make tax and discount fall on halves of a kurus.
  The coupon forms are a share, the whole basket, and an amount above the basket.
* **Shelf.** A stale write needs one call over one other; the second pair lets a
  refund overlap a refund and a form overlap a sale. The variant can be present or not.
* **Sessions.** Login, rotation and replay of the rotated token against a new password take
  four calls; a second step of the clock lets a code be tried after its step.
* **Privacy.** Three rows are an order with its copy in an invoice or a return, and one more
  that is written meanwhile.
* **Event bus.** Queues of two places keep their order or not; the third event can be dropped, the
  fourth is read after the loss.
* **Process.** Three subscribers in batches of two show a full batch and a rest; the history
  limit of one is exceeded by the second message.
* **Storefront.** Orders numbered 1 and 10, so that an unpadded number would be a prefix of another;
  two calls of each kind over a clock of five; two carts on one unit of stock with three syncs; rates
  with a life of 2 over a time of 4; all texts of up to three letters over two letters and
  the blank; all rows of sold quantities from five values; searches through two products with
  ratings at both ends, completions that read one row or both, sessions of two products, two viewed, one in the basket, two paid
  orders, and lists of one or two. Some 326 thousand inputs; for inputs of any size
  the proofs speak.

Workers are interchangeable, and so are return requests: symmetry over them is sound, and
is used in runs without liveness only.

Fairness. `charge_booked` uses `Progress`: uvicorn goes on with every call it started,
hence weak fairness for steps nobody can disable. `LockOrder`, `Write` and `Commit` can
be disabled by another holder of the lock or by a crash; Postgres queues lock
waiters, so a call that waits again and again gets its turn: strong fairness. PayTR repeats
a notice until it reads `OK` (`payments.py:59`), so reception is strongly fair. `live_services`
assumes weak fairness of the sender's steps: the event loop runs a task that is
ready. Nothing is assumed of administrators, customers, carriers, crashes or Stripe.

## 7. What the code does not do

Two runs check a statement each that a comment makes of the program, and TLC refutes it with
what the code does. `ship_cancel_race` is a smaller instance of `one_order`, `duplicate_events` the
instance of `carrier_events`; the properties of those runs say what is left.

| Run | Statement | Shortest story |
| --- | --- | --- |
| `ship_cancel_race`: `ApprovedHoldsStock` | an approved order has its stock deducted (`orders.py:495-498`) | an order is in processing; one administrator reads it to ship it, another cancels it; the first writes shipped over it, and the stock is back on the shelf |
| `duplicate_events`: `DuplicatesSwallowed` | a duplicate is swallowed and the other events are applied (`dispatch.py:3-5`) | a webhook brings a new event and a known one; the known one rolls the new one back, and the call is answered as done |

The modules state more of such claims. No run is kept for them, and TLC refutes each one when a
configuration names it as its property.

| Definition | Statement | Shortest story |
| --- | --- | --- |
| `FailedHoldsNothing` | a failed payment leaves stock alone (`backend/README.md:118`) | a failure notice is read; a success notice commits; the failure is written |
| `NeverRestoredTwice` | giving back is idempotent (`stock.py:1`) | a product of a sold order is deleted; a cancellation restores one line of two, the count stays positive; the next restores it again |
| `UnitsAccounted`, with two orders that pay on delivery | locking the targets rules out lost updates (`stock.py:12-15`) | two checkouts read the same stock; the first commits; the second locks the row, but its session still has the old value (`orders.py:293-297`) |
| `CouriersMoveForward` | the status only moves forward (`dispatch.py:5-6`) | two events read processing; delivered is committed; shipped is written over it |
| `InvoicedOnce` | an order with an active invoice is skipped (`invoices.py:267`) | a call finds no invoice; another issues and commits; the first reads the counter after that and issues a second one |
| `BackedUpDaily`, with a poll each tick, a backup every two and a day of four | a backup a day (`scheduled.py:25`) | a shipped order has one stored event; every poll that reads its history meets the duplicate and raises, and each backup stands behind such a poll |
| `PointsClipped` | points are clipped to the balance (`orders.py:180-181`) | two overlapping checkouts read the balance before either commits |
| `CodeOnce` | a one-time code cannot be used again (`totp.py:39-42`) | two logins read the last step before either commits |

PROJECT.json lists under "findings" every other disagreement met while modelling, each
with the line it contradicts. Among them:

| Statement | Shortest story |
| --- | --- |
| past orders are kept anonymously (`customer_auth.py:671-673`) | an erasure masks an order and leaves tax number, company and note |
| returned items cannot exceed those ordered (`returns.py:85`) | two requests for the same unit are both refunded |
| a new password ends stolen sessions (`auth.py:257`) | a rotation that is under way inserts its heir after the revocation |
| an unfinished erasure goes back to pending (`customer_auth.py:723`) | it failed in the database, and so does the commit that would say so |
| a set campaign is sent | a restart leaves it in sending for ever; two starts at once mail everyone twice |
| the history of a chat | the oldest hundred messages: of a longer chat the newest are never shown again |
| rates are real or kept | an answer without rates replaces the ones that were kept, and is told as 1.0 for the time to live |
| the database session is left out of the cache key (`cache.py:8`) | it is hashable and so part of the key: the cache never hits across requests |

## 8. What is proved

Everything in this section holds for every value of the constants, under the assumptions
the modules state on them, and from nothing else unless a table says so. Eight modules hold
proofs: one for each component, one for the modules of the server process
(`Process_proofs`), one for the parts of the storefront and the data requests
(`Storefront_proofs`), and `Totals`, the lemmas on sums, recursive functions and sorted sets. No property of a protocol is inductive:
a call acts on what it read steps ago, so each proof finds what an open call still knows. The
inductive invariants were checked with TLC on the instance of their run before they
were proved. The properties of the pure modules need an induction over the data instead, which
the prover does not offer; how they are proved all the same is told below.

### Totals

Stock and ledger, points and balances are sums over finite sets, and the fold that computes
one is a recursive function whose induction the prover cannot do over an operator. `Totals`
goes another way: a statement about the partial sums of all subsets that failed somewhere
would fail for a smallest subset (`LeastSubset`), and that one has an element whose removal
leaves a subset where it holds. From it follow what a sum is (`SumStep`), that it is an integer,
what removing, changing or renaming an element does to it, and that it is monotone
(`SumSubset`). The same way it shows what a recursive function computes (`Recursion`), statements
about all numbers (`Induct`, `Along`), and that a finite set can be sorted (`BestExists`).

### OrderStock

`OrderStock_proofs.tla`, for any orders, targets, workers, quantities and bounds:

| Theorem | Establishes | Assumes |
| --- | --- | --- |
| `TypeCorrect` | `TypeOK` | |
| `DeductedAtMostOnce` | `NeverDeductedTwice` | |
| `DeletedIsFinal` | `DeletedStaysDeleted` | |
| `LedgerAllOrNothing` | `AllOrNothing` | no target is deleted |
| `NoPaymentWithoutStock` | `PaymentTakesStock` | no target is deleted |
| `Implementation` | `ImplementsFulfilment` | no target is deleted |
| `NoUnitLost` | `UnitsAccounted` | no target is deleted, no cash on delivery |

A call that has decided acts later on what it counted. `LedgerInv` adds that such a call
holds the row lock of its order (`LockHeld`) and that its count is still right
(`CountFresh`); only the holder can change the movements, so both survive every step.
Without deleted targets the count is exact (`CountExact`), and `StrictInv` adds
`BookingTakes`: a call that is about to book goes through the ledger and finds the stock
either free or taken. `RowsKept` says that a locked row cannot vanish. `Commit` is the one
step with work in it; a lemma counts the movements it adds.

`NoUnitLost` adds the stock. Per target, stock and the units of the orders that hold it change by
opposite amounts in `Commit`, or the stock is cut at zero, which only happens where the
demand exceeds it.

The assumptions are the code's limits. With deletions `AllOrNothing` is false, which is why
giving back is not idempotent. With cash on delivery `UnitsAccounted` is false, since that call
writes back a stock it read before it had a lock (`orders.py:293-297`): both are in section 7.

### Invoices

`NumbersGapless` (`Gapless`), `ShopTellsTruth` (`ShopAgrees`), `OrphansAreTraces`
(`OrphansExplained`), `StrayedAreTraces` (`StrayedExplained`) and the types; and `NumbersUnique`,
that no number is given twice (`NumberedOnce`), which no run asks for since the unique constraint
gives most of it. `RegisterInv` adds that whoever has drawn a number holds the counter's row and
that the number is free (`NumberHeld`), and that until a deletion it is the next one while older readings are at
most the counter (`NumberNext`). `ShopInv` adds that a call which is about to commit a
sent invoice owns its document: no other call or row has the same ETTN. From it, no
step makes more than one document unknown to the shop, and a step that makes one is a crash
or a lost answer, each of which is counted. `NotYetCancelled` adds that a call which is about to
record a cancellation still has a sent invoice; a document both cancelled and sent is then
that call's, or a crash has taken the call away.

### Checkout

| Theorem | Establishes |
| --- | --- |
| `AmountsAgree` | `BillHolds`, for every basket, coupon, settings and wish for points |
| `NumbersAreRegister` | `ImplementsRegister`, for any checkouts that overlap, die or are deleted |
| `PointsAreCovered` | `PointsCovered` |

`CheckoutInv` says that a checkout works on an order of its own (`OwnOrders`), that whoever is
about to commit holds the counter and has the next number (`Holding`), that the counter is the
number of orders committed and no two share a number (`Counts`, `OneOwner`), that the amounts
agree from the moment they are computed (`GoodBills`: lemmas on the two roundings of `Money`
bound each of them by half a unit), and that a balance which is still as it was read covers
the points taken from it (`Covered`, over sums of `Totals`).

### Process, Tracking, Scheduler

| Theorem | Establishes | Inductive invariant |
| --- | --- | --- |
| `BusImplementsFeed` | `ImplementsFeed` | `BusInv`: queues rise, a receiver is behind what waits for it, and so is the event in the relay's hand |
| `OverflowIsAllThatIsLost` | `OnlyOverflowMissed` | `BusInv` and the property itself, which every step keeps |
| `NobodyMailedTwice`, `CountsAreTrue` | `MailedOnce`, `Accounted` | `CampaignInv`: unless two senders were started, one sends; whom it has still to mail has no mail; its counts and its rest add up |
| `NoMessageMissed` | `NoneMissed` | `ChatInv`: a message within the limit is with a tab, in its history, or in a frame that will reach it |
| `StatusComesFromEvent` | `StatusExplained` | `TrackingInv` |
| `PollStoresAllOrNothing`, `WebhookStoresLast` | what is left of `DuplicatesSwallowed`: a sync or poll that commits stores all it was told, an acknowledged webhook its last event | `TrackingInv` |
| `SchedulerTracks` | `TracksEvents` | none needed |
| `BackupsOnTime`, `AlertsSpaced` | `BackupOnTime`, `AlertOncePerPeriod` | `TurnsInv` |

`TrackingInv` says of every session that what it inserted is what it has put behind it
(`SessionKnown`), that each status it is about to write is explained by an event it is
about to store (`MovedExplained`), that a sync or a poll has all it was told so far or has lost
everything (`PollWhole`), and that the event before a webhook's position is stored or will
be (`WebhookTail`). `SchedulerTracks` shows that every step of the composed system is a
step of `Tracking` or leaves it alone, which carries the theorems over. `TurnsInv`: a
task has its turn only in its phase, the alert counter is the ticks since the last alert of
this process, and until a tick is cut short the backup counter bounds the ticks since
the last backup.

### Sessions

`OneHeirHolds` (`OneHeir`), `RevocationReachesAll` (`RevocationReaches`), `UsedOnceHolds`
(`UsedOnce`). `SessionsInv`: a token has one call that rotates it (`Rotations`) and one heir,
which comes after it (`Heirs`); what began before a revocation, as a token or a call, is among
its targets or marked as under way (`Epochs`, `Reached`); the row remembers the newest code
unless overlapping calls tore it (`CodesKnown`); a link nobody shares is in the hands of one
call, and has set no password before (`LinksKnown`).

### Shelf

`StockIsAccounted` (`StockAccounted`), `RulesSettle` (`RuleSettles`), `WaitingToldOnce`
(`ToldOnce`), `ReturnsDecidedOnce` (`DecidedOnce`). `ShelfInv` adds the types; which products may
be there (`OnShelf`); what a call that overlapped nothing has read, namely what is on the shelf
now (`Fresh`); that a price a rule is about to write is what the rule computes from the price and
cost it has read (`Priced`); what a decision knows of its request (`Asked`); and, unless two rounds of
mails overlapped or one died, that a customer who waits has no mail and is on one list
(`MailInv`). `RulesSettle` needs that a price computed again from itself is itself; lemmas on
`NewPrice` show it per kind of rule.

### The storefront and data requests

| Theorem | Establishes | Inductive invariant |
| --- | --- | --- |
| `CartsHold` | `CartHeld` | `CartsInv`: what a sync that is alone has locked, cleared and inserted is the cart it was asked for, within the stock |
| `RatingsHold` | `RatingTrue` | `ReviewsInv`: an edit that is alone has counted what will be committed |
| `FavouritesHold` | `FavouritesKept` | `FavouritesInv`: the rows a call found missing are missing, or a meeting is noted (`WishKept`); a form knows the price it started from (`FormTrue`) |
| `RatesHold` | `RatesTrue` | `RatesInv`: kept rates are as new as any told, unless the service answered without any (`KeptInOrder`), no call is from the future (`CallsInPast`), one call fetches at a time and what it found too old is still kept (`OneFetch`) |
| `TimelineHolds` | `TimelineTrue`, if no order number begins another | `TimelineInv`: a status has its log row (`Logged`), times are past (`Dated`, `CallDated`), a call moves on from the status it read (`Following`), the log rises (`Rising`) |
| `PaddedNumbers` | the same for numbers to 9999 | |
| `ErasuresComplete`, `OpenOrdersStay`, `CancelledKeeps`, `ExportsComplete` | `NothingLeft`, `OpenOnlyIfLater`, `CancelledMeansKept`, `ExportComplete` | `PrivacyInv` |

`TimelineHolds` shows what the lookup by prefix (`tracking.py:132`) rests on: numbers are padded to
four digits, so the 10000th order of a year is the first whose number begins with
another's.

`PrivacyInv` follows an erasure through its seven statements. Outside of one, an unmarked row
whose contact stands is newer than every erasure that is over, and an unmarked chat belongs to the account
(`LifeTrue`). During one, all other calls of the customer are marked, every unmarked
row of a table already visited is among the targets, and no target is an order that was open
when the customer asked (`ErasureTrue`); what a call was told of its customer, or of its request, is
still so or it is marked (`CallTrue`, `AskTrue`); a request's status agrees with what was
erased unless calls on it overlapped (`RequestTrue`). That a member's key is given once
(`KeysOnce`) keeps an erased and reopened account apart.

### Scores, searches and suggestions

| Theorem | Establishes | For |
| --- | --- | --- |
| `TaxNumbers` | one mistyped digit makes an accepted tax number invalid | all numbers of ten or eleven digits |
| `ScoresAreFair` | `FairScores`: quintiles, segments, values of customers of one span, classes, reorders, risks and fees | any number of customers and products, any amounts |
| `Distances` | `Levenshtein` is the least number of edits, or that number is above the cut | texts of any length |
| `TextScores` | a text score is a share, and where the query is found decides its range | texts of any length |
| `TogetherMeasure` | being bought together is mutual; a full score means always together | any number of baskets and products |
| `SearchIsTrue` | `SearchTrue`: the three above, `SearchRanks`, `CompletionRanks` and `SessionServed` | any alphabet, catalogue, shelf, limit |

A behaviour of these modules is one input, so no step has to be considered: the work is to show
what a recursive function computes. A least number at which
the claim fails (`LeastNat`) replaces the induction: up to there the function exists and obeys
its equation, so it can be extended by one value. That is `Recursion`; `Induct` and `Along` carry
a statement from each value to the next.

`Distances` has two halves. From above: a number in the table is one of its three neighbours
and at most one edit, so the text of its column is that many edits away (`UpAll`). From below:
one edit of a text changes what stands at the end of its table by at most one, so a text that is
*k* edits away has at most *k* there (`DownAll`); together they are `TableLeast`. A row above the
cut may end the loop because the rows after it are above it too (`FilledAbove`), and the
shorter text may be taken first because edits can be undone (`LeastBack`).

`ScoresAreFair` rests on `Totals` for the classes (what is sold up to a place grows with the
place) and, for tax numbers, on each digit's share in a check digit being another one for
each of its values (`TcknTells`, `VknTells`). `SearchIsTrue` shows that a sorted list of a finite
set exists (`BestExists`) and holds nothing twice, and that cutting, filtering and appending keep
that (`FirstIs`, `WithoutIs`, `JoinedLists`); `RecommendIs` follows the sources of a session one
by one.

### Only model-checked

* `ChargeIsBooked`, `CallsReturn`, `SendingEnds`: liveness under fairness, which needs `ENABLED`.
* `ApprovedHoldsStock` and `DuplicatesSwallowed` are refuted, not proved.

## 9. Plan and limits

Modelling has reached what carries a protocol, and every safety property that a passing run
checks is proved. What is left: `NoUnitLost` with cash on delivery in the shop, for targets no
such call has touched; and what remains of `AllOrNothing` for the lines of an order whose
targets are still there.

### Not modelled

* `services/cache.py`: its key holds the database session, so it never hits across requests
  and has no behaviour but to forget.
* Parsing, formatting and rendering: carrier payloads, supplier answers, import files,
  exports, feeds, sitemaps, PDF and XML of invoices, mail templates, signatures and hashes.
  Where what they do to a value matters (amounts, numbers, prefixes) it is modelled.
* Reports, forecasts and A/B statistics in floating point: no property in integers says
  what their result should be.
* Categories, banners, pages, blog, questions, home page, settings and uploads: independent
  calls on one table each, without a protocol.
* Roles and permissions (static checks on one request), the request limiter (a library),
  profile edits, e-mail verification and the consent log (single reads or inserts).
* A second server process: the code keeps the scheduler, bus and sockets per process and its
  documentation asks for a single instance.
* Migrations, start-up wiring and the browser front end.
