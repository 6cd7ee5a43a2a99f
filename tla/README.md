# btg-platform: TLA+ models, checks and proofs

btg-platform lets a client subscribe to investment funds. A user starts with a
credit of 500 000 COP; a subscription moves money from the balance into a fund,
a cancellation moves it back. The back end is a FastAPI application (asyncio,
one event loop per worker) on MongoDB; the front end is a React application.
There are no locks: what keeps the money right is the shape of single database
calls, a unique index, transactions where the cluster has them, and hand-written
compensation where it has not. The front end keeps its own copy of the balance,
the subscriptions, the preferences and the transactions, fed by replies that
overtake each other. This project models both sides.

## 1. The system

### Components, their state and operations

| Component | Code | State | Operations |
|---|---|---|---|
| Subscriptions | `api/modules/subscriptions/manager/subscription.py`, `atomic.py` | collections `subscriptions`, `users.balance`; the cached result of the transaction probe | `subscribe`, `cancel`, `_compensate_subscribe`, `_compensate_cancel`, listings, `ensure_indexes`, `atomic_session` |
| Audit log | `subscriptions/manager/transaction.py` | collection `transactions`, append-only | `create`, `list_for_user` (filters, offset pages) |
| Subscription routes | `subscriptions/routes.py` | none | `POST /subscriptions`, `DELETE /subscriptions/{id}`, `GET /subscriptions/me` (three reads put together), background dispatch of notifications |
| Funds catalogue | `funds/manager/fund.py`, `funds/routes.py`, `migrations/seed_funds.py` | collection `funds` with unique `_id` and `nombre` | list, get, create (conflict check, then insert), soft delete, idempotent seed |
| Application shell | `main.py`, `core/settings.py`, `integrations/mongo/client.py` | the stage of the lifespan, the indexes in the database | validate the environment, ping, nine indexes, startup probes |
| Registration | `auth/manager/user.py`, `auth/routes.py` | collection `users` with unique e-mail and phone | `find_conflict` then insert with the initial balance |
| Sessions | `auth/dependencies.py`, `auth/manager/revoked_token.py`, `core/security.py` | collection `revoked_tokens` (TTL index), tokens held by clients | login, `get_current_user`, logout |
| Accounts | `accounts/manager/account.py` | notification flags in `users` | read, update |
| Notifications | `notifications/service.py`, `adapters/`, `dependencies.py` | none persisted; tasks in memory | dispatch on two channels, each gated by the user's flags |
| Diagnostics, health | `notifications/diagnostics.py`, `health.py`, `healthcheck/` | none | probes of AWS and liveness |
| Web: session | `frontend/src/context/AuthContext.tsx`, `services/httpClient.ts` | token, user, status | login, profile fetch, logout, reaction to 401 |
| Web: home | `pages/HomePage.tsx`, `components/funds/*` | balance, subscriptions, pending flags | load, invest, cancel |
| Web: settings | `pages/SettingsPage.tsx` | two optimistic toggles | toggle, roll back |
| Web: transactions | `pages/TransactionsPage.tsx` | items, offset, filter, loading flags | first page, load more, change filter |

### Interaction

The routes call the managers; the managers share the MongoDB collections and
nothing else. Subscriptions read `funds` (through `FundManager.get_fund_by_id`),
write `users.balance`, `subscriptions`, and, through `TransactionManager.create`,
`transactions`. Notifications start after the response, as background tasks in
the memory of the worker. The front end only sees HTTP responses, in the order
in which they happen to arrive.

### Hard behaviours

* Handlers interleave at every `await`; every check made before an `await` may be
  stale after it (existing-subscription pre-check, `activo`, registration
  conflicts, revoked tokens).
* On a standalone `mongod` nothing spans two calls. A failure is compensated by
  inverse calls that may themselves fail; `except Exception` catches neither a
  crash nor a cancelled task; a lost reply makes a done call look undone.
* On a replica set, transactions conflict, abort, expire, and a commit may succeed
  without its client hearing of it. No call is retried.
* Audit rows of one subscription are written by different requests.
* Responses overtake each other in the front end; optimistic updates are rolled
  back to a snapshot that may be old.
* A visitor's registration form, after a time-out, races the request it has given
  up; the process behind it may be between two index builds.
* A token is checked in two reads before the handler; the browser's two copies of
  the session (storage and React state) are written by replies of any age.

`PROJECT.json` lists each hazard at its line, with the properties that cover it
or the reason why none does.

### What makes each component correct

* Subscriptions: no peso created or lost, no overdraft, one subscription per user
  and fund, one cancellation of each, which is final, an answer tells the truth.
* Audit log: replaying it gives the subscriptions that exist.
* Funds, registration: one document per key under concurrent creation; the
  conflict reported is one that exists; who is told "created" owns the document;
  the seed never undoes what an administrator did; one delete of a fund wins.
* Boot: no registration before the unique indexes; a process with a valid
  environment comes up whatever AWS answers; the verdict on AWS is warranted.
* Sessions: a revoked token is refused by every request that starts after logout;
  the browser never shows one user's profile under another's token.
* Notifications: a channel's failure does not reach the other channel; an opt-out
  is respected by a dispatch that begins after it.
* Web: once nothing is under way, what is shown is what the server has; the total
  shown is the sum of the cards shown; no page of rows is skipped; spinners end.

## 2. Modules

| Module | What it is |
|---|---|
| `SubscriptionData` | constants with their assumptions, documents, audit rows, the checks on the amount |
| `Ledger` | abstract specification: `Open` and `Close` move money, holding and audit row in one step |
| `SubscriptionsFallback` | `subscribe` and `cancel` on a standalone `mongod`, with four kinds of faults |
| `SubscriptionsTxn` | the same in multi-document transactions |
| `SubscriptionsMixed` | EXTENDS `SubscriptionsTxn` and instantiates `SubscriptionsFallback`: requests of either mode on the same collections |
| `UniqueRegister` | abstract specification: callers ask, in one step, for a document with unique keys; a refusal names a key that is taken |
| `FundCatalogue` | administrators' creates and deletes, and the seed as a process beside the API; implements `UniqueRegister` |
| `Boot` | the environment's validation, the lifespan, the AWS probes, restarts |
| `Registration` | EXTENDS `Boot`: the form, `POST /auth/register`, retries after time-outs; implements `UniqueRegister` |
| `Sessions` | the API's side of a session: login, the two-read check, roles, logout |
| `AuthContext` | EXTENDS `Sessions`: storage, React context, interceptors and guards of one browser, beside other holders of its tokens |
| `Notifications` | the dispatch over two channels after a commit, the stored preferences |
| `SettingsPage` | EXTENDS `Notifications`: the two optimistic switches that write those preferences |
| `TransactionsPager` | the pages of the audit log as the API counts and reads them and as the page puts them together |
| `HomePage` | the list, the total and the balance of the home page, on a server that commits in one step |
| `SumTheorems` | what a sum over a finite set does when an element joins, leaves or changes; used by the three modules whose properties add up money |
| `...Proofs` | theorems and proofs: `SubscriptionsFallback`, `SubscriptionsTxn` (with `SubscriptionsMixed`), `FundCatalogue`, `Registration`, `SettingsPage` (with `Notifications`), `HomePage` |
| `WebProofs` | theorems and proofs: `AuthContext` (with `Sessions`), `TransactionsPager` |
| `MC...` | the small instances for TLC |

### How the model corresponds to the code

A *request* is one HTTP request that subscribes or cancels. `pc[r]` names the
awaited database call it makes next, or the answer it got: `ok`, `rejected` (a
refusal before anything was written), `failed` (the answer to what was begun and
undone: the exception raised again, a 5xx, or for a lost insert race the 409 of
`AlreadySubscribedError`), `aborted` (a 5xx), `crashed`, and in the transaction mode
`unknown` (the commit happened, the client was not told). `doc[r]` is the local
`subscription_doc` of `subscribe`, or the `doc` that `find_one_and_delete`
returned to `cancel`. A request stands for the ObjectId it mints, so
`doc[r].id = r` tells a subscribe from a cancel.

Fallback mode, one action per await:

| Label | Code (`subscription.py`) | Action |
|---|---|---|
| `idle` | `get_fund_by_id` and the amount checks; or `find_one_and_delete` | `Lookup`; `Take`, `NotFound` |
| `check` | `_has_active_subscription` | `Check` |
| `debit` | `_debit_balance`, the `$gte`-filtered `$inc` | `Debit`, `Insufficient` |
| `insert` | `insert_one` under `uniq_user_fund` | `Insert`, `Duplicate` |
| `audit`, `audit_cancel` | `TransactionManager.create` | `Audit`, `AuditCancel` |
| `credit` | `_credit_balance` | `Credit` |
| `delete`, `refund` | `_compensate_subscribe` | `Delete`, `Refund` |
| `reinsert`, `reinsert_debit`, `debit_back` | `_compensate_cancel` | `Reinsert`, `DebitBack` |

`AfterFailure` is the `except` clause: the flags `balance_decremented`,
`subscription_inserted` and `balance_credited` are set after the call returns, so
they are a function of the label of the call that raised. Every call may be
*refused* (it raises and has no effect), its reply may be *lost* (it has its effect
and raises: the client is built with `retryWrites=False`), a compensating call may
fail (*undo*; it is swallowed and the next one runs), and the process may *crash*
with every request in flight. `FaultKinds` selects which, `hit` remembers the
requests concerned. An administrator may deactivate a fund between any two calls.

Transaction mode: `balance`, `subscriptions` and `transactions` are what is
committed. The writes of a transaction are a function of its label, so no private
copies are kept; `snap[r]` is the balance in its snapshot, taken at its first call
(the debit of a subscribe, the delete of a cancel). A call that writes what another
open transaction has written aborts the request; so does a write on a user document
that was committed after the snapshot (`stale`). MongoDB's part is modelled from how
the code uses it and marked external in the map. A dead process leaves its
transactions open (`abandoned`) until the server expires them, or a commit already
sent takes effect.

`SubscriptionsMixed`. The result of the probe is cached for the life of the process, and a
probe that raises caches `False`. So a cluster with transactions may have workers that
compensate by hand beside workers that do not, and two requests that probe at once may
get different answers. `unsupported` is the set of requests to which `atomic_session()`
yields `None`; the other ones have a session. A request of one kind takes the steps of
`SubscriptionsFallback` and a request of the other those of `SubscriptionsTxn`, on one
`balance`, `subscriptions` and `transactions`. What MongoDB adds (`BareWrite`, external):
a write outside transactions that meets a document or index key an open transaction has
written waits until that has ended, and it makes older snapshots of the user `stale`.

Left out as data in these modules: names, texts, timestamps,
`balance_before`/`balance_after` (nothing reads them), malformed ids (answered like
unknown ones), notifications. The amounts are integers in the code as in the model.

`UniqueRegister`. A caller asks for one document. It is told `created` when the
document is stored, the name of a key when some stored document has that key, or
`unknown`, stored or not; the seed asks for the same document again and may be told
another thing. That is what `create_fund`, the seed's upserts and `UserManager.create`
promise with a pre-check that is not atomic with the insert.

`FundCatalogue`. `pc[r]` is `find_conflict` and `insert_one` for a create, `update`
(the `find_one_and_update` with `activo: true` in its filter) and `find_one` (the
read that tells the two refusals apart) for a delete. The collection is split in
`funds`, which never loses a document, and `activo`. Documents name who asked for
them (`by`), so that a mix-up of two creates is visible. The seed upserts
`MANDATORY_FUNDS` in the order of their ids; a `nombre` taken under another id
raises and ends it. `uniq_nombre` exists once the lifespan or the seed has built it.

`Boot`. `Lifespan` is the sequence of awaited calls of `main.lifespan`; `stage` is
the one that comes next. An index is one `create_index`; the two indexes the code
calls `by_user_recent` (on subscriptions and on transactions) have different names
here. The four probes of `log_startup_validation` read an AWS that may change
between them; `seen` remembers the states it was in. `ValidationRaises` is its `except`:
the validation raises between any two probes, there is no report (`verdicts = {}`), and
the process serves.

`Registration`. Request `<<v, n>>` is the n-th submission of visitor v. `Receive` is
the schema's validation with `str.lower` and the E.164 form; then `find_conflict`
and `insert_one` as above. Which index refuses depends on which are built. A visitor
whose reply is late gets the form back while the request runs on.

`Sessions`. A request goes through `is_revoked`, `get_by_id` and its `handler`, or
`add` for a logout, one action each; `late` remembers requests made after the
session was over. Left out: expiry and the TTL index (an expired token is refused by
`decode_jwt` before either read), password hashing, deleted users.

`AuthContext`. `token` and `stored` are `localStorage`, `user` and `authenticated` the
context; `isAuthenticated` is memoised on the user and reads the token at that
moment, and so does the model. `awaited` are the requests whose reply would still
reach this page. Every reply, time-out or 401 may come at any later moment.

`Notifications`, `SettingsPage`. A dispatch asks for the profile, then for each
channel `can_receive_*` and the adapter. An adapter gives one of the outcomes the code
tells apart: sent, refused or out of reach, and an exception nobody expects. A PUT of
the page is a record with the settings the screen showed before it; it is applied by
the API at some time, replied to, or given up and applied later (`stray`).

`TransactionsPager`. Rows are places in the log. `Count` and `Find` are the two reads
of `list_for_user`: `Matching` is its query, `NewestFirst` its sort (the row whose
`Place` is i comes i-th), `Page` its skip and limit. The page's `requestIdRef` is
`requestId`. Rows are ordered as they
were inserted; the code sorts by `timestamp`, which the same process sets just before
the insert, so two requests racing may be ordered either way, and only one order is
modelled. The three counts above the list are not modelled.

`HomePage`. The load reads `balance` (with the authentication), the items and the
total, in three steps; invest and cancel are records as the PUTs above. Subscribe and
cancel are atomic on the server here: their own steps are the first two modules'. The
list of funds does not change, and the two clicks that confirm a cancellation are one
action. `Return` is a fresh mount with its own load: the histories `torn` and `crossed`
begin again, and `unsure` is left only if an earlier page's call is still under way.
`FundCatalogue` changes the funds, `SubscriptionsFallback` is where an inactive fund
meets a subscribe.

## 3. The runs

| Run | Instance | What it shows |
|---|---|---|
| `fallback_clean` | 4 requests, 1 user, 1 fund, no faults, fairness | `MoneyAccounted`, `DoubleEntry`: no interleaving creates or loses money, counting what is in the hands of requests. `AuditComplete`: the log replays to the subscriptions. `BooksEventuallyBalance`: the docstring's equation becomes true and stays true. `ImplementsLedger`: the fallback is the atomic ledger under a refinement mapping that counts money in hand as the user's and rows about to be written as written |
| `fallback_faults` | 3 requests, 2 users, 1 fund, all faults, at most 2 requests hit | `NoOverdraft`, `OneSubscriptionPerFund`, `CancelIsFinal` (a cancelled subscription is never stored again nor credited by another cancel), `AcceptedIsReal` under every fault; `DamageBounded`: once quiet, a user's books are off by at most the amounts of the user's requests that faults hit |
| `txn` | 3 requests, 1 user, 2 funds, at most 1 fault, fairness | the equation at every instant, `ReplayGivesState` (the log alone gives every balance and the subscriptions), `AnswersAreTrue` (subscribes and cancels answered with an error did nothing, and none is cancelled twice), `TransactionsEnd` (everything is released, no deadlock), `ImplementsLedger` with the identity as mapping |
| `mixed` | 3 requests of either mode, 1 user, 1 fund, a fault or crash of every kind in each mode, fairness | `NoLostUpdate`, `MixedCancelIsFinal`: what the one mode leaves half done never breaks what the other relies on. `MixedDamageBounded`: only the requests that faults hit without a session cost money. `MixedImplementsLedger`: until one is hit the two modes are the atomic ledger together. `MixedRequestsEnd`: nobody waits for ever |
| `fund_catalogue` | 3 admin requests, 2 ids, 2 names, 2 runs of the seed | `ImplementsRegister`: ids and names stay unique, a refusal names a key that is taken, under races, lost replies and crashes. `StoredFundsKept`: no seed undoes a deactivation. `DeleteAnswersTrue`: one delete wins |
| `registration` | 2 visitors with 2 tries each, 3 submissions, one fall; 2 valid environments and an invalid one, 4 states of AWS, fairness | `ImplementsRegister` and `SignedInOwns`: retries, races and restarts give no duplicate and sign nobody in without an account. `VerdictHonest`: the probes' verdict. `ComesUp`: a valid environment is served in the end |
| `sessions` | 3 requests, 2 users, 2 tokens | `EndedIsRefused`, `SignedOutStaysOut`, `ContextIsOwner`: late profiles, logouts, 401s and reloads in every order |
| `notifications` | 1 dispatch, 2 uses of a switch, the AWS adapters | `ChannelIsolation`, `OptOutRespected`, `SettledScreen`, `TogglesIndependent` |
| `transactions_pager` | pages of 1 row, 4 rows, 3 requests, fairness | `NoRowSkipped`: however rows come in, none is left out between the newest of the first page and the oldest shown; `EndIsTrue`, `LoadsSettle` |
| `home_page` | 2 funds, 3 calls of the page, 2 subscriptions, any funds held at first | `ShownTotalIsSum`, `ShownIsServer`: what the page adds up itself is what the server has, through double cancels of one card, lost replies and later loads |
| `compensation_restores` | violation | the docstrings name a failing compensating call as the one inconsistency window; a refused audit insert, compensated in full, with a concurrent cancel of the new subscription pays the money back twice |
| `replay_reconciles` | violation | README: the log is the source of truth, any divergence is reconcilable by replay. In the fallback one reply of a cancel's `find_one_and_delete` is lost: the subscription is gone without a `CANCEL` row, the fund can be subscribed to again, and the log then replays to two subscriptions of one user to one fund, a state the unique index refuses (`ReplayGivesState` is the claim where it holds, in transactions) |

Bounds. The requests of one user interact through the user's balance, the
index key and the document; with one user and one fund all requests meet on all
three, and four of them are enough for two subscribes racing while two cancels race
for the winner. Two users are there where a mistaken cross-user effect could hide.
The amounts are 1 (below the minimum), 2 (the minimum of each
fund) and 3, the balance 5 or 4, so that some pairs of investments fit, some do not,
and the filter of the debit matters. `MaxHit` and `MaxFaults` bound the faults; the
theorems have no such bounds.

In `mixed` every one of the three requests has either mode, so a bare subscribe
meets a transaction that subscribes, one that cancels, and a second bare request. Its
theorems have no bound on requests, users or faults.

In `fund_catalogue` two seeded funds and three requests over the same two ids and names
are enough for a create that races another create, the seed and a delete at once, and
for two deletes racing for one fund. In `registration` one address has two spellings and
one number has no E.164 form; three submissions are a race of two visitors, one of whom
retries. It explores the forms only with the log provider (`MCMaxSubmits`): the provider
decides nothing in `auth`. In `sessions` a sign-in, a logout and one request that is
late for either are three requests, the other holder of the token included. In
`notifications` two uses are two PUTs of one switch or one of each; a third use makes
no new pair. In `transactions_pager` the log may have rows at the start and grow, and
three requests are a first page, a page more and a change of filter. Rows that come in
between two pages are its point, and the bound on them matters: with three rows an
earlier form of `NoRowSkipped`, which asked for every row between the newest and the
oldest shown, held; with five it fails, as after a first page and three new rows the
second page shows one of them and not the other two. `NoRowSkipped` now speaks of rows
no newer than the first one shown, and the theorem about it has no bounds. In `home_page` a
second call crosses the first, or follows it after the page was left, and a third
cancels the card of the first again. Larger instances
passed once and are too slow to keep: `sessions` with 4 requests (17 million states),
`notifications` with 3 uses (18 million), the pager's invariants with 5 rows and pages
of 1 (70 925, two requests), with 6 rows and pages of 2 (216 905).

A run stops where every request has its answer, hence
`CHECK_DEADLOCK FALSE`: a served request does nothing more.

Exceptions. A property that fails in a case the code has is stated with that case
excepted, by a history variable or a label that records exactly it, and its comment
names it. `hit`: after a cancel is answered `ok`, a request that a fault hit and that had
the same document may still compensate: the subscribe refunds it, so it is paid twice
(that is the run `compensation_restores`), or an earlier cancel debits its own credit
back. `unborn`: a delete that met no document, whose fund is created before its second
read. `torn`: a commit between two reads that one reply puts together. `crossed`,
`doubled`: two calls of one page under way together, two PUTs of one switch. `unsure`: a
reply that was lost, a page left before it, another device. `overtaken`: a filter changed
while more was loading; nothing resets `isLoadingMore` then, and more is refused until
the page is left. `stale`: the last profile to arrive was asked for with another
token. `swallowed`: a dispatch ended by a database error. And `EndedIsRefused` is about
requests made after the end of a session; one already under way may still be served.
`PROJECT.json` lists the hazards that are excepted so without a property that covers
them, and says so.

Four of these are at odds with the code's own words. The docstring of `soft_delete_fund`
(`fund.py`:232-244) tells the two refusals apart and does not allow for `unborn`. The
docstring of `service.py` (10-12) says that a failure on one channel affects neither the
other nor the caller; a database error in `can_receive_email` drops the SMS and reaches
the caller. The docstring of `list_my_subscriptions` (`routes.py`:160-165) lets a client
render `total_invested + current_balance` as the initial 500 000; a `torn` reply adds up to
something else. And `hit` is what `compensation_restores` is about. The first three are
stated here and not as runs: each takes a commit or an error in one gap between two
reads, which the listed line shows. The others no document or test of the repository
denies.

The class docstring of `SubscriptionManager` claims its equation "at any instant". In
transactions it holds so (`ConservedAtEveryInstant`). In the fallback it cannot: between
the debit and the insert the money is in neither place, faults or not. There
`MoneyAccounted` counts the money in hand, and `BooksEventuallyBalance` says that the
docstring's own equation (`Conserved`) holds in the end.

Fairness. `WF` on each request's continuation: the asyncio loop resumes every
suspended handler and the driver answers or raises (it has timeouts). No fairness on
the arrival of requests, on faults or on administrators. In the transaction mode also
`WF` on expiry: MongoDB ends transactions older than
`transactionLifetimeLimitSeconds`. With both modes the same fairness is enough: a bare write
that waits for a transaction is enabled again once that has ended, and no two wait for
each other, as a bare request holds nothing while it waits. In `Boot`, `WF` on the steps of the start: the
compose file says `restart: always`, and the lifespan awaits only calls that have
time-outs; an invalid environment ends every start, and `ComesUp` is about valid ones.
In the pager, `WF` on the end of each request: `httpClient` gives every call a time-out.
The other new modules state no fairness and no liveness.

Definitions named `Bug...` are plausible defects of the definition after them. The
specifications do not use them; `PROJECT.json` pairs each property with the one that
breaks it.

## 4. The theorems

For every set of users, funds and amounts, every finite set of requests, and any
number of faults, from the assumptions `DataAssumption` (amounts are positive
integers, each fund's minimum is an amount), `NoneAssumption`, `FaultAssumption`,
`MaxFaultsAssumption` and `MixedAssumption`.

Fallback mode (`SubscriptionsFallbackProofs`). The properties are not inductive: that a
cancel is final depends on who holds which document. `IInv` adds

* `DocsInv`: a busy request has a document, a subscribe its own, a cancel another's;
* `CreatorsInv`: a document that is stored or held was built by its creator, which
  is past its insert, so a document a request is about to insert is nobody else's; and a
  creator that is compensating was hit;
* `HandsInv`: a document is stored or in the hands of one cancel, never both;
* `AcceptedInv`: a subscribe past its insert has its document placed, an answer has
  its row;
* `HitInv`: only a request that was hit reaches a compensating label (other than the
  refund of a lost insert race) or `crashed`.

One lemma per action; steps that move only a label share `LabelStep`. The results are
`TypeCorrect`, `OnePerFund`, `CancelStaysFinal`, `AnswersAreReal`, `NeverOverdrawn`, and
the action property `MoneyMovesInPairs` (`DoubleEntry`): by `InOneHand`, the document
a request pays for or is paid for is in no other hands, so each step leaves the set of
documents paid for alone, or moves one document and exactly its amount. On these rest

* `MoneyIsAccounted`: `DoubleEntry` summed up. A document that enters or leaves the
  finite set `OutOfWallet` changes its sum by the amount the balance moves;
* `LogTellsAll` (`AuditComplete`), with `LogInv`: while no fault has hit, a row is there
  because a request succeeded, and a document that was ever inserted is stored,
  cancelled or being cancelled;
* `DamageIsBounded`, faults of every kind included, with `DamageInv`: there are numbers
  `e[r]`, one for each request, that sum up to the error in a user's books; `LeftBy`
  says for each label what the request may have left there, at most its amount, and
  nothing if it was answered and never hit;
* `FallbackRefinesLedger`: in a behaviour that no fault hits, an insert is the ledger's
  `Open`, a `find_one_and_delete` its `Close`, and every other call, those of the lost
  insert races included, a stutter. `Booked` is the invariant used on both sides of
  a step: the equation of `MoneyIsAccounted` makes the mapped wallet the initial balance
  less the holdings, and `MinimumInv` makes the amount one that the ledger accepts.
  `FaultlessRefinesLedger` is the case of the run without faults, `FaultKinds = {}`.

The proofs are about `WideSpec`, which allows, beside the fallback's own steps, that a
request that has just come is served whole in one step (`Served`): debited, inserted
and logged, or deleted, credited and logged. `SpecIsWide` says that `Spec` implies it.
The theorems are no weaker, and the transactions of other workers fit in.

`CancelStaysFinal` is as strong as the code: the subscribe whose document was cancelled may
still be refunding it, if a fault hit it.

Transaction mode (`SubscriptionsTxnProofs`). `IInv` adds to `NoLostUpdate` that a
snapshot not marked stale is current (`SnapInv`), that a matched debit stays covered
and an inserted key free (`CoveredInv`), that a deleted document is still committed and
deleted by one transaction (`DocsInv`), and that an id is in the collections only if its
creator committed (`JournalInv`). `CancelsInv` says that the CANCEL rows are one for each
cancel that committed. It gives `TypeCorrect`, `SnapshotsAreCurrent`,
`ErrorsDidNothing`, and `TransactionsRefineLedger`: a commit is an `Open` or a `Close`
of `Ledger`, every other step a stutter. `ConservedAlways`, the equation of the class
docstring, follows from the same steps: the collection stays finite, and an `Open` or a
`Close` moves one document and its amount. So does `LogIsTruth` (`ReplayGivesState`): an
`Open` adds its document to those with an OPEN row, a `Close` to those with a CANCEL row,
the second are always among the first, the subscriptions are the difference, and each
balance is the initial one less what was opened plus what was closed.

Both modes (the last part of `SubscriptionsTxnProofs`). The invariant of the transaction
mode is `IInv(others)`, where `others` are the requests without a session, whose ids may
be in the collections too; the mode alone is `IInv({})`. `BareWriteStep` is the lemma that
a write of another request which waits for open transactions, and marks the snapshots it
overtakes, keeps it. In the other direction nothing of the fallback is proved again.
`Seen` is an instance of `SubscriptionsFallbackProofs`, its theorems included, in which a
request with a session is idle until it commits, and answered `ok` from then on (`SeenPc`,
`SeenDoc`): `SeenStep` shows that every step is then one of the fallback, a `Served`
request, or a stutter, so `MixedSpec` implies `Seen!WideSpec` (`SeenSpec`).
`SeenAssumptions` discharges the assumptions of the instance. Results:
`MixedLosesNoUpdate`, `MixedCancelStaysFinal` and `MixedDamageIsBounded`, under every
fault of either mode; and `MixedRefinesLedger`, step by step until a fault hits a request
without a session, with no hypothesis on the rest of the behaviour.

Catalogue (`FundCatalogueProofs`, from `CatalogueAssumption`). `IInv` is `TypeOK` and

* `LabelsInv`: a request at a call of a create or a delete carries the document or id;
* `IndexInv`: whoever writes does so with `uniq_nombre` built, so names stay unique;
* `DeletesInv`: the fund of a delete that won is inactive, at most one delete of a fund
  won, an inactive fund has a delete that won or never learnt its fate.

It gives `TypeCorrect`, `DeletesAnswerTruly`, `SeedKeepsFunds` and `FundsAreARegister`,
the refinement: an insert and an upsert are the register's `Create`, a duplicate and a
conflict found are its refusals, a crash is some `unknown` answers.

Registration (`RegistrationProofs`, from `BootAssumption` and
`RegistrationAssumption`). `IInv` is `TypeOK`; `BootInv`, that the two unique indexes
are built once the lifespan is past them and that the verdicts so far are warranted by
`seen`; and `RegInv`, that a request in flight has a document and a serving process,
that stored documents share no key, and that the last request of a visitor at home was
answered `created` and its document is stored. `IndexInv` is the point where the
modules meet: a request is served only in the last stage, so both unique indexes exist
whenever it inserts. Results: `TypeCorrect`, `VerdictIsHonest`, `SignedInIsOwner`,
`UsersAreARegister`.

Sessions (`WebProofs`, from `SessionsAssumption`). `SessionInv`: a confirmed
logout has its token in `revoked` (`RequestsInv`), and a late request stops at the read
that ends it: `is_revoked` for a token logged out, `get_by_id` for a disabled user
(`LateInv`). `WebInv`: a spinner waits for a profile, a signed-in context has an issued
token, and a profile that is not `stale` is that of the token's owner in storage and in
the context alike. Results: `TypeCorrect`, `LateIsRefused`, `LogoutIsLocal`,
`ProfileIsOwners`.

Settings and notifications (`SettingsPageProofs`, from `NotificationsAssumption` and
`SettingsPageAssumption`). `DispatchInv` relates what a dispatch has logged to its label
and to `ever` and `always`; `PageInv` says what a PUT under way still knows
(`CallsInv`), that a confirmed setting is stored unless a PUT of its switch is under way
(`TogglesInv`), and that the screen is the stored settings but for the PUT under way
(`ScreenInv`). Results: `TypeCorrect`, `OptOutIsRespected`, `ChannelsAreIsolated`,
`SwitchesAreIndependent`, `ScreenSettles`.

Home page (`HomePageProofs`, from `HomePageAssumption` and `NoneAssumption`, for any
finite set of funds and any number of calls). Neither property is inductive, since a call
that was answered and not yet heard of is in the server's state and not on the page.
`IInv` is `TypeOK` and

* `IdsInv`: ids grow, so whatever the page, the load or a call knows of is older than
  the next subscription;
* `PageInv`: cards, dialog and callbacks exist only while the page is ready, and the
  GET only while it loads;
* `HereInv`: an accepted invest the page has yet to hear of is not among its cards, an
  accepted cancel is, and no two calls bring the same news, although a card can be
  cancelled twice at once;
* `TotalInv`: unless `torn` (a commit fell between the two reads of the load the page
  stands on), the total is that of the cards, and what a load has read so far is of one
  time;
* `ServerInv`: unless `unsure`, the API has the cards plus the news of accepted invests
  (`WonBy`) less those of accepted cancels (`LostBy`);
* `BalanceInv`: unless calls `crossed`, the balance in the one answer under way is the
  API's, and with none the balance shown is.

Results: `TypeCorrect`, `ShownTotal`, `ShownServer`.

Transactions page (`WebProofs`, from `TransactionsPagerAssumption`, for any page size,
any number of rows and of requests). What is shown is `Solid`: the oldest row shown is at
least as many places down the list as there are rows shown, and nothing is missing from it
up to the first one shown. A later page is read at an offset that is the number of rows
shown, so it begins at or above the oldest of them, and `SolidAppend` says that what it
brings leaves no gap; rows on top only push the shown ones further down (`SolidGrows`).
`PagerInv` is `PagerTypeOK` and

* `AskedInv`: the newest request asks for the page's filter, at the number of rows shown
  or at 0;
* `CountedInv`: unless `torn`, a total that was read is still that of the rows there are;
* `ReadInv`: a page that was read is that of some earlier length of the log, at which
  what is shown was solid already, and unless `torn` its total is of the same time;
* `ShownInv`: what is shown is solid now, and reaches the oldest row when the page says
  there is no more.

That the i-th place is taken by exactly one row (`PlaceTaken`) needs no induction: places
are an injection of a finite set into as many numbers. Results: `PagerSkipsNoRow`,
`PagerEndIsTrue`.

Sums (`SumTheorems`). The sums are folds, defined by recursion over subsets, and the
library's induction theorems take an operator, which no installed prover can
instantiate. The module does without: a claim about all subsets of a finite set that
is false for some is false for one of the least size (`SmallestSubset`, from the
well-foundedness of `<` on the naturals), and that one contradicts the equation of the
fold. The first result is that equation, `SumEquation`: the `CHOOSE` inside the fold
picks a function that exists and is unique.

Only model-checked:

* liveness (`BooksEventuallyBalance`, `MixedRequestsEnd`, `TransactionsEnd`, `ComesUp`,
  `LoadsSettle`), which needs fairness and `ENABLED`;
* the mutants, and the two runs that end in a violation.

Every other property of the passing runs, safety invariants, action properties and the
five refinements, is a theorem. Type invariants are part of each inductive invariant
and proved (`TypeCorrect`); TLC checks one of them, in `fallback_faults`, as the others
only repeat what their runs compare anyway.

## 5. Plan

Done: the subscriptions in both modes, apart and together, and the ledger they implement;
the register of unique keys, implemented by the catalogue and by registration; boot;
sessions on both sides; notifications and settings; the pager; the home page; the theorems
of section 4. Left:

1. `AuditComplete` with both modes at once. While no fault hits a request without a
   session it follows from `MixedImplementsLedger`, whose rows are the ledger's; a
   statement of its own needs the commits counted in.
2. That the home page's server, which commits in one step, is what `Ledger` promises:
   it starts with funds held and keeps no journal, so the mapping needs a history of it.

## 6. Not modelled

* Health check, message templates, diagnostics' hints, logging, error mapping, layout,
  formatting, client-side format checks: a constant answer, wording, or no state.
* The public listing of funds: one read, put to no use by anything that changes state.
* The three counts above the list of transactions, expiry of tokens and the TTL index,
  password hashing, orders of rows with equal timestamps: see section 2.
* The capability probe as such, its `hello` command and when its answer is cached:
  `SubscriptionsMixed` takes any answer for each request.
