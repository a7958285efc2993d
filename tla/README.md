# guzi-aigc-market: TLA+ models and proofs

Specifications of the marketplace's server side, kept beside the code they
describe. The repository holds

- a Go API (`apps/api`): a modular monolith over MySQL (GORM), Redis and an
  object store;
- a Python worker (`apps/worker`): consumes generation messages from a Redis
  stream, drives an AI provider and reports back to the API over HTTP;
- a React front end (`apps/web`), deployment scripts (`.deploy`) and a
  terminology data set (`rag`).

What can go wrong in it without a test noticing is concurrency: transactions
that read without a lock and write later, two processes handling the same
message, a crash between a write to the database and a write elsewhere. The
specifications are about that.

## 1. The system

| Component | Code | State | Operations | Talks to |
|---|---|---|---|---|
| Generation jobs | `internal/generation/{service,worker,status,model,handler}.go` | `generation_jobs`, `generation_outbox`, `generation_outputs` | create, cancel, retry; claim, progress, fail, complete; timeout watcher | assets (Put, Delete), admin (retry and audit in one transaction) |
| Outbox dispatcher | `internal/generation/{dispatcher,publisher}.go` | `generation_outbox.status`, `.attempts` | one tick per second: publish, mark, count failures | Redis stream `generation_jobs` |
| Worker | `apps/worker/{main,processor}.py` | consumer group, pending entries, the message being handled | read, reclaim, handle, acknowledge | API (HTTP), provider |
| Trade orders, sandbox | `internal/account/{orders,order_status,sandbox}.go` | `trade_orders`, `trade_order_events`, `sandbox_accounts`, `sandbox_holdings`, `products.stock` | place, pay, cancel, ship, confirm; sandbox buy, sell, reset | catalog (price, stock, status) |
| Catalog | `internal/catalog/catalog.go` | `products`, `product_assets` | create, update, publish, off-shelf, delete, upload, remove asset | assets, generation (attach a model) |
| Assets | `internal/asset/*.go` | `assets`, objects | Put, Copy, Delete, content | object store |
| Auth | `internal/auth/auth.go` | `users`, `refresh_tokens` | register, login, refresh, logout | everything behind `Authenticate` |
| Profile, favorites | `internal/account/{profile,favorites}.go` | addresses, preferences, favorites, notifications | CRUD, default address, favorite status | catalog |
| Admin | `internal/admin/admin.go` | `admin_audit_logs` | list, off-shelf, retry, each with an audit record | catalog, generation |
| Prompt preview and optimizer | `internal/generation/prompt.go`, `apps/worker/promptopt` | `generation_prompt_previews` | preview, consume | worker HTTP |
| Providers | `apps/worker/providers` | a remote task | submit, poll, fetch | the provider's API |
| Front end, scripts, terminology data | `apps/web`, `.deploy`, `rag` | none of the server's | | API |

## 2. What is hard, and where

PROJECT.json lists every hazard at its line with the properties that cover it.
In short:

- **Transactions that read without a lock.** `retry` counts the owner's active
  jobs; `FailTimedOut` lists jobs and fails them later; the sandbox reads an
  account and saves the whole row later; the catalog checks a product and then
  updates it.
- **At-least-once delivery.** An outbox row is published and then marked, an
  entry handled and then acknowledged, an idle entry handed to another worker.
- **Writes that are not in the transaction.** `Complete` stores the model on
  another connection and compensates if its own transaction fails.
- **Late and repeated calls.** A worker's call carries an attempt; the job may be
  timed out, retried and running again when it arrives.
- **Statements without a transaction.** The catalog's handlers execute one
  statement after the other, with calls of the object store in between, and undo
  by hand what they did when one fails.
- **Money and stock.** Orders lock the rows they change; the sandbox, on the same
  accounts, does not.
- **Progress.** A job nobody works on must end, an accepted cancellation must
  land, a message must be handled.

What each component must keep, in a sentence:

- *Generation jobs*: an attempt has one outcome; a cancellation that was accepted
  is never overruled; exactly the succeeded jobs have an output, with its asset;
  every open attempt ends.
- *Dispatcher and worker*: an attempt that is open is announced or still to be
  announced, and its message is acknowledged only when the attempt is over.
- *Orders*: a key has one order; stock and money are conserved; the order's
  events tell its story; a payment reaches one party, once.
- *Sandbox*: nobody sells what he never bought; the account holds what was booked
  on it.
- *Catalog and assets*: what is listed can be opened, what is stored is listed;
  limit, cover and model of a product agree with its assets.
- *Sessions*: a family of refresh tokens has one that can be used, and none once it
  was ended; a browser whose requests are answered one by one stays logged in.
- *Job creation*: a key names one job, a preview is spent on one, and a repetition
  gets the job the original created.
- *Account*: the other party hears of every event of an order; one default address,
  the one last chosen; the settings last saved; one favorite per product, which shows
  a change only if there was one.

## 3. Modules

| Module | Models |
|---|---|
| `JobStatus` | statuses, stages and the transition table of a job |
| `JobLifecycle` | abstract: what the owner of a job is promised |
| `GenerationJob` | the service: rows, outbox, outputs, assets, open transactions, the watcher, a crash |
| `GenerationJobProofs` | the inductive invariant and the theorems about the service |
| `JobCreation` | extends `GenerationJob` by prompt previews and the requests to create a job |
| `JobCreationProofs` | the creation's invariant, its theorems, and that it refines the service and implements `IdempotentRequests` |
| `GenerationPipeline` | extends `GenerationJob` by dispatcher, stream, consumer group and workers |
| `GenerationPipelineProofs` | the pipeline's invariant, its theorems, and that it refines the service |
| `Escrow` | abstract: what an order promises to the two who trade |
| `TradeOrders` | orders, their events, stock and accounts |
| `TradeOrdersProofs` | the orders' invariant, its theorems, and that they implement `Escrow` and `IdempotentRequests` |
| `IdempotentRequests` | abstract: what an idempotency key promises, of orders and of jobs |
| `Account` | extends `TradeOrders` by notifications, favorites, addresses and settings |
| `AccountProofs` | the account's invariant and theorems; its steps are steps of `TradeOrders` |
| `Sandbox` | extends `TradeOrders` by the trading sandbox on the same accounts |
| `SandboxProofs` | the invariant of orders and sandbox together, and its theorems |
| `Catalog` | products, links, assets and objects, statement by statement |
| `CatalogProofs` | the catalog's invariant and its theorems |
| `Sessions` | refresh tokens, their families and the cookie a browser's tabs share |
| `TokenFamilies` | abstract: a session is one token that is passed on until it is revoked |
| `SessionsProofs` | the sessions' invariant, its theorems, and that they implement `TokenFamilies` |
| `MCGenerationJob`, `MCJobCreation`, `MCGenerationPipeline`, `MCTradeOrders`, `MCAccount`, `MCSandbox`, `MCCatalog`, `MCSessions` | instances for TLC |

### GenerationJob

One action is one transaction. Every operation but `Create` starts with `lockJob`
(`SELECT ... FOR UPDATE`), so between its first and last statement nothing else
touches the row, and the whole handler is one action that waits for the row
(`Unlocked`). Three operations are split where another actor or a crash can get
in between:

- `Complete` is `CompletePut` (checks and `assets.Put`, row held in `storing`) then
  `CompleteCommit`, `CompleteRollback` (the asset is deleted again),
  `CompleteRollbackLeak` (deleting it fails; the code drops that error) or
  `CompleteUnanswered`: the COMMIT takes effect and its answer is lost, and as after any
  error of the transaction the asset is deleted, that of a job which has succeeded
  (`worker.go:362-368`). `unanswered` is a history variable, the jobs this befell;
- `retry` is `RetryCheck` (row held in `retrying`, count read) then `RetryCommit` or
  `RetryRollback`;
- `FailTimedOut` is `WatchScan`, which reads the jobs into `watch`, then one
  `WatchFail` for each.

`Create` locks the owner's queued and running rows (`service.go:106`), so it waits for a
`Complete` but not for a retry, which holds a FAILED row until it commits. `Crash` rolls open transactions back and keeps what
they stored. A refused or repeated call changes nothing and is a stuttering
step. Calls may carry any attempt opened so far, at any time, any number of
times: that is what a late, duplicated or reordered HTTP request amounts to.
Timestamps are abstracted to null, younger or older than the timeout; the
progress percentage and `version` are left out (`version` is incremented and
never compared).

### JobCreation

`Service.Create` reads twice: a look-up by key, and then a transaction. So it is
`CreateLookup`, which answers a repetition, and one of `CreateCommit` (the `Create` of
`GenerationJob` with the preview's consumption), `CreateRefused` (the preview consumed
or expired, the limit reached), `CreateDuplicate` (the unique key stops the insert, the
key is looked up again) and `CreateFails`. A job is named after the request that
creates it, and `Asked` says what each request asks for: two requests with the same
key, preview and content are an original and a repetition. `fresh` is what `Create`
will find when it compares the preview's expiry with the clock it read before the
transaction. `CreateCommit` may answer with a failure although it committed: the
answer was lost. What the insert collides with (`Colliding`) depends on how the table was
made: the SQL migration's unique index is on user and key, the one AutoMigrate makes from
`model.go:11-12`, where only the key has the tag, is on the key alone, and it is AutoMigrate
that the API and docker-compose run. `KeyPerUser` chooses; the theorems are for both. A
collision that the second look-up, by user and key, does not explain (another user's job,
or the look-up failed) is answered as a conflict (`service.go:164-173`): "unresolved",
a conflict the model does not count as one that was looked up. `raced` is a history variable: requests that were in their
transaction when a repetition of them committed.

### GenerationPipeline

The dispatcher's goroutine publishes one row (`Publish`, `PublishFails`,
`PublishUnanswered`) and then marks it (`MarkPublished`, `MarkFails`). The stream is
a sequence; `lastRead` and `acked` are the consumer group, so the pending entries
are `1..lastRead \ acked`. A worker has a program counter: `idle`, `claim`, one value
per progress report, `complete`, `completing` (waiting for the answer while the row
is held), `failing`, `ack`, `stopped` (the consume task ended). Each call to the API
is the corresponding action of `GenerationJob`; a call that times out takes effect
or not (`CallUnanswered`). `Reclaim` hands any set of pending entries to an idle
worker: time is not modelled, so each entry may have been idle for
`REDIS_PEL_IDLE_MS`, which the code allows because handling a message may take
three times as long. `abandoned` is a history variable: entries a worker gave up
without telling the API (the failure callback failed, or the provider canceled).
A delayed execution of a call that already timed out for the worker is
explored in `GenerationJob`, where any call may arrive at any time, and not again
here.

### TradeOrders and Escrow

A request to place an order is an element of `Request`, and the order it creates
is named after it; several requests may carry the same idempotency key, which is
how repetitions are explored. `placeOrder` looks its key up (`PlaceLookup`) and
then runs a transaction that locks the product's row (`PlaceCommit`,
`PlaceRefused`, or `PlaceDuplicate` when the unique key stops the insert and the
stock goes back with the rollback). `PlaceFails` ends a request with nothing done: a
statement failed, or the address is not there (any more) (`orders.go:226-232`);
`PlaceCommit` may answer "failed" as well, when the answer to its COMMIT is lost. `Pay`, `Ship` and `Confirm` are one
transaction each, on the order's locked row and the account's. `cancelOrder`
decides in which role the actor cancels from a read before its transaction, so it is
`CancelLoad` and then `CancelCommit` or `CancelRefused`. The seller's edits
(`EditLoad`, `EditCommit`) and the shelf (`ShelveProduct`) come from the catalog:
they change the stock, the price and the status under an order. `supplied` is a
history variable, the units the seller has put up: an edit of the stock by form
sets it, an order does not.

`Escrow` is the promise: a deal is agreed, its worth is held by nobody's account
from payment until it is released to the payee or refunded to the payer, and
balances change in these steps only.

`IdempotentRequests` is the promise of an `Idempotency-Key`, and `TradeOrders` and
`JobCreation` both implement it (`OrderKeysKept`, `JobKeysKept`): the calls with one key
make one thing between them; who is answered with a thing asked for exactly that;
a conflict is reported only to who asked for something else than the key has made;
an answer stands. The mapping names a thing after the request that made it, and
takes an answer that was lost for a refusal: the promise is then about the repetition.
An "unresolved" conflict of `JobCreation`, which says nothing of the key, is a refusal too.

### Account

Everything in this module happens next to `TradeOrders`, whose actions it contains.

- *Notifications.* A handler notifies the other party after its transaction, with the
  error dropped: `OrderStep` puts the notification into `telling`, `Notify` writes it, and
  one that is never written stays in `telling`; so does that of an order whose placement
was answered with an error, which `createOrder` does not come to (`Reached`). Whom `cancelOrder` notifies follows
  from the role it chose before the transaction (`CancelTells`).
- *Favorites.* Adding one reads the product (`FavoriteLoad`) and inserts later
  (`FavoriteAdd`), an acknowledgement likewise (`AckLoad`, `AckCommit`); a seller's edit
  comes in between. The copy's `changed` is a history: the product's price was changed
  after it was copied.
- *Addresses.* `LoadAddress` is the read, `ChangeAddress` the transaction of
  `updateAddress` and `setDefaultAddress`; `CreateAddress` and `DeleteAddress` are one
  step. `chosen` and `misled` are histories: the default the user chose last, and
  whether he chose one that had been deleted.
- *Settings.* Profile and preferences are created by whoever asks for them first:
  `LookUp`, then `EnsureRow` if there was no row (its error is dropped), and then
  `SaveForm` or `LeaveSettings`. `submitted` and `unkept` are histories: the form last
  answered as saved, and whether one was saved to a row that was not there.

### Sandbox

A trade or a reset is one transaction, but it reads the account and the holding
without a lock and saves whole rows, so it is `TradeRead` (or `ResetRead`) into
`seen` and then a commit that writes values computed from `seen`. All steps of
`TradeOrders` interleave with it (`OrderStep`). `booked` is what each account should
hold and `raced` the users whose account changed between a read and a save; both
are history variables. The average cost is left out.

### Catalog

No handler of the catalog opens a transaction, so a statement is an action and a
request has a program counter (`request[r].at`) and local variables: the row as it
was read (`seen`), the count, the assets `delete` still has to remove, the asset
being removed, the next cover. `uploadImage` goes through `count`, `put`, `row`, `link`
and, for a first image, `show`; `uploadModel` goes from `row` to `removeAsset` (`find`,
`unlink`, `next`, `point`, `erase`, `wipe`) if the product had a model, and then on to
`link`; `delete` lists the assets and removes one after the other. `create` with a
generated model takes the same places; `ReadyModel` is the choice at its start.
Any statement may fail (`Fails`), and `OnFailure` is the error path of the handler
it belongs to; `Crash` ends every request where it is. A statement may also take effect
and look failed (`FailsLate`): the insert of an asset's row, of a link, or the update of
the model. These three are all that need saying, because the handler then undoes, or
leaves, what it does not know of. After any other statement it goes on as if it had
succeeded, or as if the next one had failed. `assets.Delete` removes the row before the
object, and its links with it if `Cascades`: the foreign key is in
`000002_create_asset_tables.sql`, AutoMigrate makes none. Without it a link whose insert
looked failed outlives its asset. It has no asset row, so the views pass over it, but
`assetCount` counts it, so it takes up room under the limit and lets a draft pass the
check for an image (`catalog.go:582`). A link's `answered` is a history: whether its
insert looked failed. `disturbed` is a history variable: products that two requests worked on at
the same time.

### Sessions

A token is named after the request that issues it. `Login` (and a registration, which
ends in the same `issueSession`) opens a family; `Refresh` is `RefreshRead`, the
look-up without a lock, and then `Replaces`, the guarded update with the insert, or
`ReplaceFindsNone`; `Logout` revokes. The browser is part of the model because the
cookie is where the service's answers meet: it is sent with a request (`Send`) and
set when the answer arrives (`Receive`), so answers of two tabs may overtake each
other. Front-end code keeps one refresh per tab under way (`api.ts:128`); tabs do not
know of each other. `Lose` and `Fails` are lost calls and failed statements, `FailsLate` is
a refresh whose COMMIT takes effect and looks failed, or whose access token cannot be
signed after it (`auth.go:343-350`): the token is replaced, its successor handed to nobody,
and the cookie cleared. A login that fails so ends like one whose answer is lost (no
cookie is set), and a logout does not look at the error. `Expire`
and `CookieExpires` the passing of `expires_at` for the service and the browser.
Where `Refresh` refuses a token it also revokes the family, but in the transaction
its error rolls back, so the model's tables stay as they are. `disturbed` and `family`
are history variables.

`TokenFamilies` is the promise: a login begins a session with one token, which can be
exchanged for another that takes its place, or revoked, which ends the session. It has
no step that gives a used token, or an ended session, anything.

## 4. Runs

| Run | Instance | Shows |
|---|---|---|
| `job_service` | 2 jobs of one owner, 2 attempts, limit 1, 1 fault (a crash, a lost answer or a failed compensation), fair | the safety invariants of the service; that it implements `JobLifecycle`; `AttemptsEnd`, `CancelLands` |
| `job_limit` | the same | violation: two retries, or a retry and a `Create`, exceed the limit |
| `pipe_safety` | 2 workers, 2 attempts, 2 tries to publish, an API crash, 1 mishap of any kind | nothing is lost or acknowledged too early, two deliveries do not overlap, announcements are repeated only after a mishap |
| `pipe_delivery` | 2 workers, fair, 1 mishap | every message is handled in the end; every pipeline step is a step of the service |
| `pipe_failure` | 1 worker, failure callback may fail | violation: its entry is acknowledged |
| `job_creation` | a request, its repetition, their preview under another key, their key with another preview, and another user's request under it; `KeyPerUser = FALSE` | creation implements `IdempotentRequests`: one job per key; one per preview; repetitions get it; creation refines the service |
| `account_service` | a request, its repetition and a larger order, one of which may fail; 1 product, 1 edit; 2 favorites, 2 addresses, 2 visits | stock, money, trails; orders implement `Escrow` and `IdempotentRequests`; notifications, favorites, default address and settings |
| `orders_replay` | a request and its repetition | violation: the repetition is refused for lack of stock |
| `sandbox_service` | a purchase, two sales and a reset of one user, next to an order's life and an edit of the price | what trades that overwrite each other do to holding and account |
| `sandbox_debit` | one purchase and an order | violation: the debit is lost |
| `catalog_safety` | 4 requests of any kind on one product, 2 images at most, 1 fault, `Cascades = FALSE` | links, assets and objects agree; limit, cover and model; what a handler has checked still holds when it acts |
| `sessions_safety` | 5 requests of any kind from one browser | the service implements `TokenFamilies`: one usable token per family, an ended one stays ended; an undisturbed browser keeps its session |

Bounds of the generation runs. Two jobs are the smallest number that can exceed a
limit of one; all other properties are per job. Two attempts give a late call of
an earlier one. The code's limits (5 active jobs, 3 attempts, 20 publications) only
repeat the same steps. Two workers are needed for a reclaim; a third would hold
the same entry. `MaxFaults` and `MaxMishaps` bound how many failures of the
environment one behaviour has; the proofs have no such bound.

`Bound` (`MCGenerationPipeline`) keeps the second worker idle once a publication or
the API has failed, lets two workers overlap after another mishap in the first attempt
only, and explores one of a failure of the API and another mishap; the overlap of two
workers without mishaps, over both attempts, and the retried announcement are each
explored in full.

Bounds of the creation. The four requests of one user are every relation two requests can
have: same key and preview, same preview only, same key only. One job may be active, so
that the limit is reached. The index is the one AutoMigrate makes, the weaker of the two.
`NoTimeout` (`MCJobCreation`) leaves the watcher out, which `job_service` explores, and
`OtherUserFirst` has the other user's job there from the beginning or not at all: it is
there to hold the key. `PlainRuns` leaves to `job_service` what a cancellation does to a
running job and what a lost answer of its `Complete` does.

Bounds of the orders. The statements are about one key (a request and a
repetition of it) and about one product's stock (a competing order that wants all
of it), so three requests of one buyer suffice. Stocks and prices are 1 or 2,
the starting cash is 2, so that an order may be unaffordable, sold out, or both.
`MaxEdits` allows one edit or change of the shelf. A favorite is about one product and
an address operation about one user's addresses, so two requests to add the same
product, two addresses and two visits are the smallest that can get into each other's
way.
`OneAtATime` (`MCAccount`) explores orders, favorites and addresses each next to the
edits but not together: they share no state but the product; settings share none. It also lets one
notification at a time be on its way, and one placement fail where nothing is edited; in
the sandbox none fails (`NoFailure`), since what becomes of one is explored with the
account, and the edit of a product comes before its order (`EditsFirst`). In the sandbox, a purchase of two
units is followed by a sale of all and a sale of a part: the smallest calls that
race for one holding, delete its row or leave it; with the reset and the order every
pair of operations on one account occurs.

Bounds of the catalog. Requests work on one product only: no handler touches two.
Four requests are a draft with two assets and two requests that race for them; a
limit of two images is reached by them (the code's is six). One fault: a second
one would hit a request that is already undoing its work. The links are without the
foreign key, which is what AutoMigrate makes and the weaker case.

Bounds of the sessions. Browsers share nothing, so one is enough. Five requests are
a login, the two refreshes that race for its token, and two more of any kind before,
between or after them, such as a logout and a second login. Two tokens may expire
(`FewExpire`).

Deadlock is not checked: when the jobs are finished, the timeouts have passed,
the orders are over and the requests are answered, there is nothing left to do.

Fairness. `FairSpec` assumes the clock, the watcher's ticker and the end of open
transactions, and that a transaction waiting for a row lock gets it even if
others keep coming (strong fairness: InnoDB grants row locks in turn). It
assumes nothing of workers and owners. `PipeFairness` assumes the dispatcher's
ticker, workers whose loop has not ended, answered calls, and that polling ends
(the poll loop has a deadline); it assumes nothing of the watcher. `Delivered` rests on a
second worker being alive when one dies or its consume task ends, which it does for good
when XREADGROUP raises (`main.py:75`). The code provides for that with `reclaim_pending`,
docker-compose, which starts one worker, does not: there the entries wait until it is
restarted. Orders, sandbox,
catalog and sessions make no progress of their own: every step is somebody's request.

## 5. What is proved

All proofs are for any set of jobs, users, workers, products and requests and any
bounds; they rest only on `ConstantsOK`, `PipelineConstantsOK`, `CreationConstantsOK`,
`TradeConstantsOK`, `AccountConstantsOK`, `SandboxConstantsOK`, `CatalogConstantsOK` and
`SessionConstantsOK`. The type invariants of `JobCreation`, `Account`, `Catalog` and
`Sessions` are among what is proved and therefore not checked by a run as well.

*The service.* `IInv` is the conjunction of the type invariant, the safety
invariants and what makes them inductive: which rows an open transaction may
hold (`storing` only a running row in the same attempt with no cancellation,
`retrying` only a failed row with attempts left, never both), and that the jobs
the watcher carries are older than the timeout. `AssetsAccounted` has one exception, the
jobs in `unanswered`: their output may have lost its asset. `TimeoutsListed` shows what
`Fail`'s comparison of attempts is for: however stale the list, the watcher fails only the
attempts on it. It does not save a job that was claimed since, which is in the
same attempt; and a retry keeps `created_at`, so a job requeued after the timeout is on the
next list at once. Without these `CompleteCommit`
could record an output for a job that has been retried. `Invariance` proves it
action by action; the named invariants follow. `ServiceKeepsLifecycle` proves the
refinement: each action maps to a step of `JobLifecycle` or a stutter, and the
invariant `CancelRequestPins` is what rules out a failed job with a pending
cancellation.

*The limit on active jobs* can be exceeded (run `job_limit`), so what is proved is by how
much. Under the hypothesis `[]RetriesWithin(n)`, that no owner ever has more than `n`
retries open at the same time, he never has more than `n` jobs beyond the limit
(`OvershootBounded`, for every `n`): `n - 1` by the retries themselves and one by a
`Create` that counts while they are open. So the limit holds for an owner who retries one
job at a time and, in a second hypothesis (`CreatesAlone`), creates none meanwhile
(`LimitHeldAlone`). Nothing in the code gives either, which is why they are hypotheses
and not invariants. The invariant, `LimitInv`, counts the open retries with the
active jobs: when one begins, its job is not active yet, and the retry has just read a
count below the limit.

*The pipeline.* `PInv` adds to `IInv`: every stream entry announces an attempt that
was opened, every row marked or being marked has its entry, a worker's entry has
been delivered, a worker past `claim` has an attempt the service opened, a worker
in `completing` holds the row and is alone (`CompletingHoldsRow`, `CompletingAlone`),
and `AckSettled`, the statement that links each worker's position to what it may
acknowledge: a worker at `ack` has an attempt that is over or given up. The key
lemma is that attempts never go back and an attempt that is over never opens
again, so what was true when the worker got its answer is still true when it
acknowledges. `AnnouncedOnce` has an invariant of its own (`AInv`): until something goes
wrong, the row of every entry is marked or about to be, so a row the dispatcher finds
PENDING has no entry yet. `PipelineUsesService` shows that the pipeline refines the service, so
what the owner of a job is promised holds with real workers as well (`PipelineKeepsLifecycle`,
`PipelineOutputs`).

*The creation of jobs.* Every step of `JobCreation` is a step of `GenerationJob` or
leaves its variables alone (`CreationUsesService`), so the service's invariant holds.
`CInv` adds to the properties that a request which created a job has ended
(`CreatedAnswered`), that one in whose transaction's time its key got a job is in `raced`
(`OpenRaced`), and that one which found its preview consumed found it so for good
(`ConsumedSeen`): a repetition that creates the job later would need that very preview. `CreationUsesService` brings the
owner's life cycle and the limit over (`CreatedJobsKeepLifecycle`, `CreationKeepsLimit`).
`CreationKeepsKeys` maps each step to one of `IdempotentRequests`: a look-up that finds the
key returns or conflicts, a commit makes, and a crash refuses every request that was in
its transaction at once.

*The orders.* `TInv` is the type invariant with two links between states:
`OwnOrder` (an order exists only once its request has been answered with it) and
`PaidMatches` (an order's `paid_at` agrees with its status), together with the
invariants that are to be shown. From it follow the
types (no stock and no balance below zero), `OneOrderPerKey` and `TrailComplete`,
and, action by action, that every step of `TradeOrders` is a step of `Escrow` or a
stutter. `StockAccounted` and `MoneyConserved` speak of sums over the orders and accounts
that count at the moment. The invariants `StockInv` and `MoneyInv` add that these are
finitely many, for any `User` and `Request`; a step then adds or removes one term
(`SumAdd`, `SumRemove`) or leaves them alone (`SumSame`), and the other side changes by
as much. These facts about the library's `SumFunctionOnSet` are proved first, in
`TradeOrdersProofs`, for a smallest finite set that would violate them: the sum is a
`CHOOSE` of a recursive function, so `AddingExists` shows that there is one, and
`AddingAgrees` that all of them agree.

`OrdersKeepKeys` maps every step to `IdempotentRequests`; it needs `GivenOwn` besides
`TInv`, that a request which is not answered with an order names itself, so that an answer
never replaces one. `ReplaysFindOrders` says how far the violation that `orders_replay`
shows can go: a repetition is answered with the order; or a statement failed or its
address was gone (`PlaceFails`); or it had looked its key up before the order was there and
the product cannot be ordered any more.

*The account.* `AccountTrades` shows that each step of `Account` is one of `TradeOrders` or
a stutter, which brings `TInv`, the two sums, `Escrow` and the keys over (`AccountKeepsOrders`). `AInv` adds that a cancellation under way has the
role its actor had when it was read, that every copy which differs from the product
is marked as changed (`CopiesTrue`, for the copies of acknowledgements under way as
well: this is what a late `AckCommit` needs), and that a product is wished for once.
The settings' row, once there, is only overwritten by forms that are answered.
The trails are sequences that only grow, so a notification about event `n` stays true.

*The sessions.* `SInv` adds to the type invariant and `OneLivePerFamily` where tokens come
from: an issued token belongs to a request that has been answered
(`IssuedByAnswered`), and cookies and answers carry issued tokens only
(`CarriedIssued`). So the row a refresh inserts is new, and the row it revokes, live by
the update's guard, was the only live one of its family. Every step either
issues nothing (`Kept`) or issues one token into a family with no other live one
(`IssuedAlone`), also where the answer is then an error (`FailsLate`); `OneLivePerFamily` and `EndedStaysEnded` follow from these two
facts alone. `SessionsKeepFamilies` is proved from `SInv` step by step: a login begins a
session, `Exchanged` (of `Replaces` and `FailsLate`) passes a token that its guard has found
usable on to one that was never issued, a logout revokes, and every other step leaves the families as they are. `SessionKept` needs `KInv` as well: tokens, cookies and answers stay with the
browser they were issued to (`Owned`), an undisturbed browser has one request under way
(`Alone`), and what that request was sent with, or will be answered with, is the only
usable token of the session (`KeptFor`).

*The sandbox.* Its steps change accounts under the orders, so what is proved of orders
is proved again: `AccountsApart` shows that the orders' part of `TInv` does not depend on
what an account holds, only on its type. `SandboxInv` adds what an open call may have
read: enough money or units for what it will save (`ReadCovers`), no row half empty
(`ReadConsistent`), and, as long as its user is not in `raced`, the account as it is
(`ReadCurrent`). A balance saved is then the one in the books, and never negative; a
holding saved has units. `BoughtInv` is for `HoldingsBought`: a call that brings back an
old row saves what it has read, so that must have been bought as well (`SeenBought`),
and the sum of what was bought never shrinks. The stock is the orders' alone
(`StockBesideSandbox`).

*The catalog.* `CatalogInv` is about who knows of an asset. Until its request has listed
it, nobody else does (`HiddenUnknown`), so nobody can take its row or its object while
the request is about to link it (`InHand`); a request that deletes an object is past the
deletion of the row (`WipedHasNoRow`), which never comes back, because a row is written
once, by its own request (`NotYetStored`). A link goes before its row: whoever is about to
erase a row has taken its links away (`RemovedUnlisted`), because it found the link under its own
product, and no other request has another product's asset at hand (`OwnAssets`); a request
that takes its own asset back has no link of it, or only one that it was told nothing of
(`Undone`). The foreign key is not needed for that. `ListedOpens` is inductive with these,
wherever a statement fails, with or without effect, or the process dies; since they lean on
`OwnAssets` and on an asset being listed once, the invariant whose induction is carried out is
`TidyInv`, of which `CatalogInv` is a part. For `ObjectsAccounted` the invariant follows an object from hand to
hand as long as nothing failed (`Accounted`): one with a row is listed or held, one
without a row has a request at the statement that removes it, and no request is undoing
anything. A removal that finds the row gone may therefore go on: whoever deleted the
row still has the object to delete. `TidyUnlessDisturbed` needs to know how untidy a
product is at every statement of the one request that works on it (`Stage`): a removal
unlinks first and corrects cover and model afterwards, an upload links before it shows,
and delete goes on with a row it has read before it removed the model (`Follows`). It
also needs that an asset is listed once and only with the product its request is about
(`LinkedOnce`, `OwnAssets`), so that a request about another product disturbs nothing,
and that an upload past its count has room for its image (`Room`).
`ChecksHoldUnlessDisturbed` has `ChecksInv` besides: a handler past its check that nobody
disturbs finds the status it has read, and an image if it is about to publish a draft.

*Only model-checked.* Liveness (`AttemptsEnd`, `CancelLands`, `Delivered`) rests on fairness
and ENABLED, which the prover does not know; every safety property of a passing run has
its theorem. `OneLivePerFamily`, `EndedStaysEnded`, `OneOrderPerKey` and `KeyNamesOneJob` are
proved and not checked by a run of their own: the refinements that the runs check say
more. The violated properties are counterexamples.

## 6. Disagreements with the documents

1. `ActiveLimit`: a retry counts without a lock (`worker.go:458`) and holds a FAILED
   row that `Create` does not lock, so two retries, or a retry and a `Create`, can exceed
   the limit on active jobs.
2. `FailureKeptPending`: the failure callback's exception is swallowed
   (`processor.py:226`), and the message acknowledged. That is on purpose
   (`test_processor.py:92`, `BACKEND_AUDIT_2026-09-06.md:733`); `UNFINISHED_PHASES.md:431`
   says otherwise.
3. `ReplayReturnsOrder`: a repetition that waits for the product's lock is refused
   for lack of stock instead of answered with the order (`orders.go:223`).
4. `CashBooked`: a sandbox trade saves a balance over an order's debit
   (`sandbox.go:188`).

Behaviours the models contain and no run reports: `Complete` deletes the asset of a job that
has succeeded if the answer to its COMMIT is lost (`worker.go:362-368`); a link whose insert
looked failed outlives its asset where the table was made by AutoMigrate, and counts
towards limit and publication (`catalog.go:352-353`); a user whose key another user has
taken is told of a conflict where AutoMigrate made the index (`service.go:164-173`); a refresh
that fails after its commit has used the token up and logs the browser out (`auth.go:344-350`);
the watcher fails a job that was
claimed after it listed it (`worker.go:517`); a reclaimed entry is claimed again
while its first worker is still busy (`worker.go:118`); an order that is paid
between `cancelOrder`'s read and its transaction is canceled in the role chosen
before (`orders.go:137`); a refused refresh leaves the family's other token usable,
because its revocation is rolled back (`auth.go:326`; `UNFINISHED_PHASES.md:68`
expects otherwise); a trade brings back the account a reset replaced
(`sandbox.go:188`); `delete` removes a product that was published after it was
checked (`catalog.go:252`); two uploads at once exceed the image limit
(`catalog.go:326`), two models at once leave a second one linked; a repetition of
`Create` that is in its transaction when the original commits is told that the preview
is consumed, before its key is looked up again (`service.go:102`); a seller who cancels
an order that was paid after `cancelOrder` read it is notified of his own cancellation (`orders.go:137`);
making an address the default that was deleted after it was read clears the old
default, sets none and answers as if it had (`profile.go:207`); a form for a profile
whose row could not be created is answered as saved (`handler.go:103`, `profile.go:86`).

## 7. Not modelled

- Reading operations, and operations that write one row nothing else depends on:
  folders and notes of favorites, marking notifications.
- Activity records and audit rows; the contents of the addresses orders copy; average costs.
- A favorite of a deleted product (status `INVALID`): `Account` deletes no product.
- Validation of requests and files, the texts of prompts, passwords and roles.
- The providers and the optimizer (a choice of outcomes), the front end, start-up,
  scripts and data.

## 8. Plan

All of the modules above are written, and every safety property they state is proved.
What is left to add is a composition of `Catalog` with `TradeOrders`: they share the table
of products, but one changes cover, model and status, the other price, stock and status.
