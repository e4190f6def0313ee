# SakuPlan: specification and verification of the ledger, the sessions and the app

SakuPlan is a personal-budgeting product: a Go API (`src/api`: Fiber HTTP
handlers, application services, a PostgreSQL store), an Expo mobile client
(`src/mobile`), the prototype the client was designed from
(`src/design_handoff_sakuplan_rn`), and the documents that say what they must do
(`src/docs`, `src/SakuPlan`). This directory holds TLA+ models of its logic, the TLC
configurations that check them and TLAPS proofs about them.

    tlc -config ledger_reversals.cfg MCLedger      one run
    tlapm LedgerProofs.tla                         its proofs

`PROJECT.json` lists every run, the source lines each definition models, the
faulty variant each property is checked to reject, and the hazards.

## 1. Inventory

| Component | State | Operations | Interacts with | What makes it correct |
|---|---|---|---|---|
| Ledger writes (`application/transactions.go`, store) | `financial_transactions`, `transaction_entries`, `reversed_by_id` | Create (income, expense, transfer, adjustment), Reverse, List, Get | reads accounts and categories; every client retries against it | one row per (operation, key); a transaction is reversed at most once and its pair cancels; an answer stays true; rows obey the rules of their type |
| Bill payments (`bills_goals.go`) | `recurring_bills`, `bill_occurrences` | Create, List, MarkPaid | posts an expense | a period is paid once; expense and occurrence come together |
| Goal contributions (`bills_goals.go`) | `saving_goals`, `saving_goal_contributions` | Create, List, Contribute | posts a debit | debit and contribution come together; the total counts what is in force |
| Accounts, categories | `financial_accounts`, `categories` | Create, Update, Archive, Balance | read by every posting | the balance is derived and equals what is in force |
| Sessions (`auth.go`) | `refresh_sessions`, families | Register, Login, Refresh, Logout, LogoutAll | the mobile session | a refresh token is used once; reuse ends the family; logout ends the session |
| Mobile session (`refreshInterceptor.ts`, `useHydrateSession.ts`, auth screens) | stored refresh token, access token, calls in flight | 401 interceptor, hydrate, login, register, logout, logout-all | sessions | a session is not lost by the client's own steps; a logout leaves nothing; every call and spinner ends |
| Budgets (`budgets.go`, `budgets.tsx`) | `budget_periods`, allocations, status; the wizard | CreateDraft, Activate, Active; suggestion, submit | categories, planning, other devices | active periods do not overlap; an active budget fits its income, and is shown |
| Planning (`planning.go`) | none (derived) | SafeToSpend, Generate | accounts, bills, goals, budgets | what is reserved is what is due before payday; a recommendation adds up to the income |
| Money arithmetic (`money_math.go`) | none | addNonNegativeMoney, proportionalMoney | planning, budgets, reports | exact within 64 bits or refused |
| Reports, export (`reporting.go`) | none (derived) | Dashboard, CashFlow, Export | everything above | pages neither skip nor repeat a row that was there throughout |
| Mobile money screens (`transactions.tsx`, `goals.tsx`, `bills.tsx`, `home.tsx`) | query caches, form fields, mutations in flight | create, reverse, contribute, pay, add an account | HTTP, the phone's calendar | an intent is posted once per answer; the period shown is the period paid; the screen catches up |
| Design prototype (`lib/finance.ts`, `AppStore.tsx`) | one object in memory | record, pay, save, plan, suggest | two screens | balances, budgets, goals and bills agree with the transactions |
| UnitOfWork, pool (`store.go`, `pool.go`) | open transactions, connections | begin, commit, rollback | every write | all of a use case or none of it |
| HTTP layer, profile, seed, bootstrap, UI | none of their own | routing, settings, demo data, screens | | |

The hard behaviour is concurrency and failure. A use case is several SQL
statements at READ COMMITTED: its idempotency look-up runs outside the
transaction, its reads take no lock, and only the INSERTs under unique keys and
one guarded UPDATE serialise anything. Answers get lost, clients repeat
requests, commits can succeed without the handler knowing, accounts and
categories are archived between two statements. On the phone every `await` lets
other calls run, a key is made for every attempt, caches are read after what
they cached has changed, and a day begins when the zone says so. `PROJECT.json` lists the
hazards at their lines, with the properties that cover them or the module
planned for them.

## 2. Modules

| Module | Models |
|---|---|
| `Ledger` | Create, Reverse, MarkPaid, Contribute and the two Archive use cases, run by concurrent handlers, one action per SQL statement |
| `AtomicLedger` | what the ledger promises: every posting with its record or link in one step, at most once per key |
| `MCLedger` | small instances of `Ledger`: accounts, requests, symmetry |
| `LedgerProofs` | theorems about `Ledger` and their proofs |
| `Sessions` | Register, Login, Refresh, Logout and LogoutAll, run by concurrent handlers, one action per SQL statement |
| `SessionFamilies` | what rotation promises: tokens are exchanged one for one within a family, and a family that has ended stays so |
| `MCSessions` | small instances of `Sessions` |
| `SessionsProofs` | theorems about `Sessions` and their proofs |
| `MobileSession` | the tokens of one installation and every call that uses, rotates or clears them, against the server's side of `Sessions` |
| `MoneyScreens` | the forms, the history, the goal cards, their mutations and the cache they invalidate |
| `BillCalendar` | the bills screen, Home's list and the reports in the phone's calendar, against dates of UTC |
| `BudgetWizard` | the wizard, the suggestion, draft and activation, with another device |
| `Prototype` | the operations and derived figures of the design prototype |
| `MCMobileSession`, `MCMoneyScreens`, `MCBillCalendar`, `MCBudgetWizard`, `MCPrototype` | small instances of these |
| `MobileSessionProofs`, `MoneyScreensProofs`, `BillCalendarProofs`, `BudgetWizardProofs`, `PrototypeProofs` | theorems about these and their proofs |
| `SumTheorems` | lemmas about finite sets of numbers and sums over finite sets, for all of them |

### How `Ledger` corresponds to the code

- `ledger`, `reversedBy`, `occurrences`, `contributions` are the committed rows
  of `financial_transactions` with `transaction_entries`, of its one mutable
  column, of `bill_occurrences` and `saving_goal_contributions`. All queries and
  both unique keys carry `user_id`, so the model is one user's ledger.
- A handler `h[p]` is one HTTP request in the server. Its `pc` names the
  statement it runs next: `Lookup` (GetByIdempotency), `ReadAccount` or
  `ReadOriginal`, `Check` (the branch of Create for the type), `Insert` (row and
  entries), then for a reversal, a payment or a contribution the second write
  (`LinkReversal`, `AddOccurrence`, `AddContribution`), `Commit`, `Reply`.
  Statements no other handler can tell apart are one action: the bill or goal
  and its account are read together, since neither bills nor goals ever change
  while the server runs (no endpoint updates them); the row and its entries
  become visible together. Create's two look-ups stay two actions, because an
  account or category can be archived between them.
- READ COMMITTED: reads see committed rows only; a row an open transaction has
  inserted stays in its handler until `Commit`. An INSERT that meets an
  uncommitted duplicate key waits for that transaction: the action is disabled.
  `LinkReversal` waits for another update of the same row and then evaluates
  `reversed_by_id IS NULL` on the new version. The foreign keys take KEY SHARE
  locks on the original, the accounts and the categories, which the updates of
  `reversed_by_id` and `archived_at` (no key columns) do not conflict with.
- Failure: `Fail` rolls back at any statement (an SQL error, a cancelled
  request, a process that dies); `Commit(p, "error")` is a commit whose answer
  is lost; `LoseReply` loses the response. Clients are stateless: any request
  may be sent any number of times, at any time, so retries and duplicates need
  no machinery of their own.
- A payload stands for its SHA-256 hash (equal exactly if the payloads are), a
  key for a trimmed string of legal length. `Resolve` is the clock that fills in
  a missing `occurred_at` before hashing. Notes and the reason's text beyond its `debit:` prefix are left out.
- Bills, goals, accounts and categories exist from the start; nothing deletes
  them. A bill is active: no endpoint deactivates one.

### How `Sessions` corresponds to the code

- `users`, `sessions`, `audits` are the committed rows of `users` (an address
  and its password), `refresh_sessions`, and the number of `user.registered` and
  `session.login` events of each address. A session stands for its refresh
  token, whose hash is unique; a family is named by the session that founds it.
  `known` is what clients have received: they send those tokens, any number of
  times, and call logout-all with the access token that came along.
- A handler's `pc` names its next statement: `register` and `registered` (the
  transaction of Register before and after its first INSERT), `login`, `audit`,
  `read` (GetByTokenHash and the checks after it), `rotate` and `locked` (the
  rotation before and after it has the row), `revoke` and `apply` (a revoking
  UPDATE before and after its snapshot). Users never change once registered, so
  reading one and inserting the session are one action in Login, and the
  GetByID of Refresh is none.
- READ COMMITTED again decides: `SELECT ... FOR UPDATE` and an UPDATE wait for a
  rotation that holds the row and look at its new version; neither sees a row
  that was inserted after its snapshot. So `Lock` and `CommitRotation`,
  `Snapshot` and `Apply` are pairs of actions. A revoking UPDATE takes its rows
  all at once in the model and one by one in PostgreSQL; while it holds some and
  waits for others nobody can rotate those it holds, which the model allows
  (before `Apply`): it has more behaviours, not fewer. Two of them that lock
  their rows in opposite orders are a failed statement.
- The clock is read where the code reads it: by Refresh before its look-up, by
  Login, Logout and LogoutAll at their statement, by Register before its
  transaction. `TTL` is `refreshTTL`.
- `Fail` covers an error of any statement, with the answer the code makes of it
  (Refresh turns errors of its look-up into 401, Logout into 204); the result
  `"error"` of a commit is an answer lost on the way or an access token that
  could not be signed, after the rows are stored.
- Malformed input, hashing, the access JWT and its expiry are left out, and
  every user is active: no endpoint changes the status.

### How `MobileSession` corresponds to the code

- `stored` is the SecureStore entry, `access` and `hydrating` the zustand store,
  `route` whether Index is mounted. A `call` is one request of the app with its
  `pc`: `read` (getRefreshToken before the request), `server`, `rotating`,
  `answered`, then, if it got a first 401, `reread` (refreshSession); `save` and
  `saved`, `clear` and `cleared` are the two sides of the await on storage.
  `refreshing` marks the interceptor's own request, `retried` is `_retry`.
- JavaScript runs without interruption up to an await: that is one action.
  Everything else (other calls, the user, the server) interleaves. There is no
  single flight of refreshes in the code and none in the model.
- The server is `Sessions` seen from one phone: `live`, `exchanged`, `family`; a
  look-up and a rotation are two steps, a reuse ends the family. It keeps no
  rows of tokens nobody holds, so ids can be given out again.
- What the screens allow (`LoginScreen`, `RegisterScreen`, `PrivacyScreen`, the
  two route guards) guards the calls they start; texts and rules that only ask
  for more characters are a Boolean per field.
- `owes` is not in the code: it records whether the user is owed a session
  (they signed in and nothing has happened since that may cost it) or silence
  (they logged out). Its updates name every way in which the code does lose one.

### How `MoneyScreens` corresponds to the code

- A mutation is named by its `Idempotency-Key`, which `generateIdempotencyKey`
  makes anew in every `mutationFn`: `NextKey`. Its status is where its request
  or answer is. `applied` is what the server did, one posting a key, as
  `AtomicLedger` promises.
- `data`, `failed`, `fetch` are the react-query entry of `['transactions']`.
  How react-query joins, restarts and drops fetches is not under `src/` and is
  modelled from how the hooks use it (external in `PROJECT.json`).
- The amount field holds the key its next submission will carry, so that an
  entry submitted again after a failure is told from a new one.
- `twice` is a second tap before React has rendered `isPending`.
- Screens outside the tabs replace them: `Go` discards fields and callbacks,
  while the requests go on.

### How `BillCalendar` corresponds to the code

- Time is counted in parts of a day of UTC, a zone is an offset in parts;
  `Midnight`, `CandidateFor`, `NextBillOccurrence`, `Days` (Math.round) are the
  helpers of `nextBillOccurrence.ts`, `date.ts` and `billUrgency.ts`.
- `seen` is the moment the rows on the screen were made: the render of the bills
  screen, the memo of Home, which depends on the data and not on the day.
- A tap sends the local midnight of the period it sees; the server keeps its UTC
  date under `UNIQUE(bill_id, due_date)`; the cache holds the latest date paid.
- `ReportStart`, `ReportEnd` are what CashFlow makes of a month's ends; the
  months of the reports screen are worked out when its module is loaded.

### How `BudgetWizard` corresponds to the code

- `step`, `asked`, `latest`, `suggestion` are the state of the wizard. Fields
  the user can still edit are chosen at submission; what a suggestion allocates
  has no field, so it is state.
- A submission passes CreateDraft, the answer, Activate's look-up (`CheckDraft`)
  and its UPDATE (`ActivateBudget`), with `budget_periods_no_overlapping_active`
  as `Overlaps`. Budgets are for the current month, so any two overlap.
- `lost` is an app that has given up on a request which may still arrive.
- The draft of a submission is kept while something can come of it: what the server
  stored is what was submitted.

### How `Prototype` corresponds to the code

- Its variables are the fields of AppState that hold amounts, its actions the
  functions of `lib/finance.ts` that AppStore dispatches, its derived figures
  those of computeDerived, attentionItems and billRows. The store runs each
  function in one setState, so there is nothing to interleave but the day.

## 3. Runs

The `ledger_` runs use `MCLedger`, the `sessions_` runs `MCSessions`; the others
the MC module of their component. Distinct states are for the checked
configuration.

| Run | Instance | Shows |
|---|---|---|
| `ledger_reversals` | 2 handlers, 4 ids, 3 payloads and 2 operations on one key, 2 keys reversing any id; 307 k states | `TypeOK`, `OneEffectPerKey`, `ReversalsPaired`, `BalanceOfLiveRows`, `AcksHonoured` |
| `ledger_records` | 2 handlers, 4 ids, 2 keys on one bill period, another period under the first key, a contribution, reversals, archiving; 320 k | `RecordsMatchRows`; implements `AtomicLedger` |
| `ledger_create` | 1 handler with archiving and the clock, 19 requests: every type and every refusal; 197 k | `RowsFollowTheirType` |
| `ledger_liveness` | 2 handlers, 2 keys on a bill period and on the reversal of one id, fairness, no symmetry; 46 k | `Answered` |
| `sessions_rotation` | 2 handlers, 3 sessions, 1 user, every kind of request, every failure, 2 clock values; 670 k | `TypeOK`, `RegisteredWhole`, `OneLivePerFamily`, `FamilyIsChain`, `ExchangedWhileValid`, `PairsAreSessions`, `RevocationReaches`, `Settled`; implements `SessionFamilies` |
| `sessions_liveness` | 2 handlers, 3 sessions, register, refresh and logout-all, fairness, no symmetry; 18 k | `Answered` |
| `mobile_session` | 2 calls at once, 3 in all, of every kind, every fault; 289 k | `TypeOK`, `KeepsSession`, `LoggedOutStays`, `HydrationEnds`, `CallsSettle` |
| `mobile_money` | 3 mutations, 2 of them no reversals, double taps, every fault; 325 k | `TypeOK`, `RecordedOncePerAnswer`, `ConflictMeansReversed`, `HistoryCatchesUp` |
| `mobile_bills` | 2 short months, 3 zones, 2 due days, 2 taps, every fault; 821 k | `TypeOK`, `ChargedOncePerPeriod`, `LunasMeansPaid`, `CountsTheDays`, `ReportsAddUp`, `PaidIsShown` |
| `mobile_bills_wib` | the same east of UTC | violates `StopsAsking` |
| `budget_wizard` | 1 category, amounts up to 2, 2 submissions, another device, every fault; 458 k | `TypeOK`, `OneActiveBudget`, `ActiveIsShown` |
| `prototype` | 3 accounts, 2 bills, 2 transactions, 4 days, 2 suggestions; 518 k | `TypeOK`, `BooksBalance`, `PlannedSpendIsNeutral` |

Bounds. `TxId` bounds the rows that are committed or open at once: four let two
originals, a reversal of each, and an attempt to reverse a reversal coexist.
Two handlers are enough for every wait and every race of the code, which
involve pairs (a key, a row, a period); that more add nothing is proved, not
assumed, for everything in section 4. `MaxTime` bounds the clock (two values:
then and later), `Archivable` names what gets archived. Where ids run out a
handler waits at `Insert` but can fail, so no state deadlocks. `TxId` and
`Handler` are symmetric in the safety runs; the liveness run uses no symmetry.
The four ids of the liveness run suffice for its four keys, so that no handler
waits for want of an id.

In `Sessions`, three ids let a family be exchanged twice, so that a reuse can
meet the exchange of a later token, or one family be exchanged while another
begins. One user is enough for what the properties ask: no statement relates the
sessions of two users, and the proofs are for any number.
The conjunct `RoomLeft` of `Receive` keeps an id for every handler that may still insert
one, so that no state deadlocks for want of ids. With `TTL = 1` and `MaxTime = 1`
a token is valid, or expired, or expires between two statements of its refresh.
`MayFail` names the statements that may fail: all of them.

In `MobileSession` two calls at once are the smallest race of the code (a refresh
against another, or against a hydration, a login or a logout), and a third lets
one begin after the first has ended: sign in, log out, launch again. The storage
and the store hold a token each and a call up to four, so two calls hold ten at
most: with eleven ids none runs out, and
`MobileSessionAssumption` says so for any number of calls. In
`MoneyScreens` two entries and one reversal let an entry be repeated after a lost
answer, and a reversal meet a stale history; with three keys a double tap and a
later submission coexist. In `BillCalendar` a day has three parts, so that a zone
east, west and at UTC differ, and noon is between two of them; the four months
have 1, 2, 1, 1 days, so a due day of 2 is clamped, a period begins on any day and
the months before and after exist. Two taps are one from each of two rows, or one
repeated. In `BudgetWizard` two submissions overlap each other or another
device's, and amounts up to 2 let a budget be under, at and over its income. In
`Prototype` the months have 3, 2 and 3 days, so payday is clamped and today
passes a bill's due day; two transactions suffice for every pair of operations.

Faulty variants. Each module defines one faulty variant per mechanism (no unique
key, an UPDATE without its guard, a hash that is not compared, rows kept after a
rollback...). Each property of a passing run is violated when the variant named
in `PROJECT.json` takes its original's place.

Fairness. `Work` and `Reply` are weakly fair: a Go handler that can run does
run. The statements that can block (three in each module) are strongly fair: PostgreSQL queues
the waiters of a lock in order and wakes them when it is released, so a waiting
statement is not passed over for ever by later arrivals. On the phone, what is ready runs (the JavaScript event loop), a
request that was sent is served or given up, Index redirects once nothing is
hydrating, and a server answers what it is asked; in `BudgetWizard` the draft's
activation is posted only while the app still waits. Nothing is assumed of
users, of clients of the server, failures, archiving or the clock.

What the violated property says. The client takes the UTC date of a local
midnight for the period. It is one date for every tap of a period, in any zone,
which is why `ChargedOncePerPeriod` holds; but east of UTC it is the day before
the due day, and `isPaidForPeriod` compares it with the local midnight: in
Indonesia a paid period never shows "Lunas", although `docs/PROGRESS.md` says the
branch works, and a second tap gets a 409 the screen does not mention. West of UTC
the date is the due day, whose midnight of UTC is still before the local one.
`LunasOnlyAtUTC`, a part of `LunasMeansPaid`, says and `LunasAtUTC` proves for every
calendar that no row is Lunas on any phone but one at UTC; there `PaidIsShown` holds.

Divergences from the documents that no run shows, because the code says them
plainly or because the runs are kept to a dozen:

- TXN-007 (an equivalent repeat returns the original result): of two simultaneous
  requests with one key the second gets a conflict (store.go:231), and a body
  without `occurred_at` is hashed with the time of its arrival, so its own retry
  never matches (bills_goals.go:190, transactions.go:49).
- BR-004, TXN-008: reversing a bill payment or a contribution leaves the period
  paid and the contribution counted (transactions.go:221, store.go:653).
- A transfer is posted to an account that is archived after it was read
  (transactions.go:95).
- AUTH-003, AUTH-004: the UPDATE of a reuse or of LogoutAll does not see the token
  a rotation is just inserting (store.go:127, 131), so the family goes on;
  `RevocationReaches` says what the statement does achieve.
- AUTH-002: Login discards the error of its audit event (auth.go:102).
- The app loses a session when two calls refresh at once, when the answer of a
  rotation is lost, when Index is left after the server rotated, and when a
  hydration is answered with any error, an outage included
  (useHydrateSession.ts:32). These are the cases `owes` lists; `KeepsSession`
  says there are no others. A refresh under way may store its token after a
  logout; `LoggedOutStays` is about logouts that nothing overlaps.
- A bill that is due today is to be called so (SCREENS.md:195). `billUrgency` rounds
  the time since the midnight with which the due day began, and after noon that is
  a day: the line says "Lewat jatuh tempo 1 hari" until midnight (billUrgency.ts:11).
  `CountsTheDays` says it exactly: one day less after noon, none before.
- A category that is archived after Activate has read it stays in the budget that
  becomes active (budgets.go:70).
- A suggestion allocates to "food", "transport" and the like, which are no
  category ids, so the budget made of it is always refused (`StoredAsShown`, a part
  of `OneActiveBudget`, says that none is ever stored), while its amounts
  count against the income without a field; a buffer above the income makes the
  allocations null and adding them up ends the app (budgets.tsx:118).
- A contribution does not refresh the history it appears in
  (useContributeToGoal.ts:33); an activation refreshes no figure that depends on
  the budget (useCreateAndActivateBudget.ts:29).
- Home shows its spinner for ever when its first load fails (home.tsx:128); the
  reports hide all months while the current one is empty (reports.tsx:67).

## 4. Proofs

### Ledger

`LedgerProofs` proves, for any numbers of handlers, ids, requests, accounts and
bills, and under `LedgerAssumption` alone (types of the constants; `None` is not
an id, a row or a result; accounts are finitely many, a bill's amount is
positive, and reversals, payments and contributions name no category):

| Theorem | Statement |
|---|---|
| `TypeCorrect` | `Spec => [](TypeOK /\ ReadsDone)` |
| `Inductive` | `Spec => []IInv` |
| `OneEffect` | `Spec => []OneEffectPerKey` |
| `Paired` | `Spec => []ReversalsPaired` |
| `RecordsAndRows` | `Spec => []RecordsMatchRows` |
| `Honoured` | `Spec => []AcksHonoured` |
| `RowsAndBalances` | `Spec => [](RowsArePosted /\ ReversalsCancel)` |
| `RowsObey` | `Spec => []RowsFollowTheirType` |
| `Balanced` | `Spec => []BalanceOfLiveRows` |
| `Implements` | `Spec => ImplementsAtomicLedger` |

The argument. None of the invariants is inductive alone, because what keeps
them is in the open transactions. `IInv` adds what each lock or key guarantees
of those:

- `UncommittedRowsAreFresh` (unique key): an uncommitted row shares its key and
  id with no committed and no other uncommitted row. `Insert` waits for open
  duplicates and refuses committed ones, so it holds on entry, and no commit can
  break it because the committed row was itself fresh.
- `UncommittedReversals` (row lock): an uncommitted reversal offsets a committed
  original entry by entry; once linked, that original is in force and no other
  linked handler has the same target.
- `UncommittedRecords` (bill-period key) likewise for occurrences.
- `ReadsDone`: what an entry is built from was read before; `RepliesHonoured`:
  an "ok" under way names a posted row.

The proof groups the actions once (`StepKinds`) into the five kinds the
invariants can tell apart: a quiet step (nothing stored, no row kept), an
insert, a second write, a commit, and a step of the environment. Each pair of
invariant and strengthening is then shown over these five (`KeyStep`,
`ReversalStep`, `RecordStep`, `AckStep`). The refinement uses the same cases: a
commit is the posting of `AtomicLedger`, a delivered "ok" its acknowledgement,
all else stutters.

Rows and balances need no locks, only what a row is made from. `RowsArePosted`
says that every row, committed or not, was built for a request that passed all
checks of its type (`FollowsItsType`: archiving undoes none of them), and that a
reversal copies a row of that kind; `RowsFollowTheirType` is part of it.
`ReversalsCancel` says that the rows not in force add nothing to any account:
by the strengthening above, a commit of a reversal turns its original and itself
from one in force into two that offset each other, and any other commit adds one
row in force. `BalanceOfLiveRows` follows by exchanging the order of two sums
(`SumSwap`), each transfer adding up to nothing over its two accounts.

Only model-checked: `Answered` (liveness).

### Sessions

`SessionsProofs` proves, for any numbers of handlers, sessions, users and
passwords, any `TTL` and any clock, and under `SessionsAssumption` alone:

| Theorem | Statement |
|---|---|
| `SessionsInductive` | `Spec => []IInv` |
| `SessionsTyped` | `Spec => []TypeOK` |
| `OneLive` | `Spec => []OneLivePerFamily` |
| `Chains` | `Spec => []FamilyIsChain` |
| `ExchangedInTime` | `Spec => []ExchangedWhileValid` |
| `Pairs` | `Spec => []PairsAreSessions` |
| `Reaches` | `Spec => []RevocationReaches` |
| `Whole` | `Spec => []RegisteredWhole` |
| `Settles` | `Spec => Settled` |
| `Implements` | `Spec => ImplementsFamilies` |

The argument. A step treats `refresh_sessions` in one of four ways (`StoreStep`):
not at all, a new session founds a family, a live one is exchanged, live ones
are revoked. Each keeps the chains (`Chained`), rewrites no settled row
(`RowsStay`) and is a step of `SessionFamilies`, whatever handlers there are.
That the actions of the handlers are such steps (`StepStores`) needs what the
code holds between two statements, which `IInv` adds:

- `LockedIsLive` (FOR UPDATE): the row a rotation holds is live, and it alone
  holds it. `Apply` and `Lock` wait for it, so no other step can revoke the row.
- `NewIsOwn` (random ids): the session a handler is about to insert is not
  there, and is no other handler's and no client's.
- `OneRegistration` (unique address): one open transaction per address.
- `Established`: a session that was found unexpired still is when it is
  rotated, since expiry never changes and the time was read before.

Only model-checked: `Answered`.

### Sums

Balances, totals and derived figures are sums over sets whose size is not known,
and TLC's fold over a set is defined by a recursive function. `SumTheorems`
proves what all the proofs need of it: a sum does not depend on the order of its
elements (`SumRemove`), what it does when an element is added, changes
(`SumExchange`) or is prepended to a sequence (`SumPrepend`), and that two sums
may be exchanged (`SumSwap`). The library's induction theorems take a predicate,
which the provers cannot instantiate; `NatSetInduction` and `FiniteInduction`
take the set of the numbers, or subsets, that have the property instead, and
follow from well-ordering (`LeastNat`) and from cardinality.

### Mobile session

`MobileSessionProofs`, for any number of calls at once, of launches, of tokens
(more than can be held) and any faults:

| Theorem | Statement |
|---|---|
| `SessionInductive` | `Spec => []IInv` |
| `SessionTyped` | `Spec => []TypeOK` |
| `SessionIsKept` | `Spec => []KeepsSession` |
| `StaysLoggedOut` | `Spec => []LoggedOutStays` |

`KeepsSession` says where a live token is, not why the next step leaves it
there; `IInv` adds that. While a session is owed (`SessionKept`): no call logs
out, clears or was refused; at most one has read the stored token and may write
it back, and the token it presents is live and in nobody else's answer; and a
live pair is either stored or in the hands of that one call. `Leaving` and
`Silent` say the like of a logout that is alone, and `Shaped` where a call can
hold an answer at all. A token issued is one that nobody holds
(`HeldFinite`), which is why the number of tokens matters.

### Money screens

`MoneyScreensProofs`, for any accounts, number of mutations and faults:

| Theorem | Statement |
|---|---|
| `ScreensInductive` | `Spec => []IInv` |
| `ScreensTyped` | `Spec => []TypeOK` |
| `ConflictsAreReversals` | `Spec => []ConflictMeansReversed` |
| `RecordedOnce` | `Spec => []RecordedOncePerAnswer` |

`RecordedOncePerAnswer` counts the postings of one intent. `RepeatsExplained`
says of each two submissions of an intent why there is a second (the first had
failed or was lost, or a double tap follows it), and `AmountStands` why no further
one begins: an amount that is in the field after it was saved has been submitted
again since. The bound follows by mapping each posting to the submission
that explains it.

### Bill calendar

`BillCalendarProofs`, for any calendar of months, any zones less than a day from
UTC, any due days, and any number of taps:

| Theorem | Statement |
|---|---|
| `CalendarInductive` | `Spec => []IInv` |
| `CalendarTyped` | `Spec => []TypeOK` |
| `ChargedOnce` | `Spec => []ChargedOncePerPeriod` |
| `LunasIsTrue` | `Spec => []LunasMeansPaid` |
| `LunasAtUTC` | `Spec => []LunasOnlyAtUTC` |
| `DaysAreCounted` | `Spec => []CountsTheDays` |
| `ReportsCount` | `Spec => []ReportsAddUp` |

The arithmetic comes first: the months partition the days (`DayInMonth`,
`MonthOrder`), the UTC date of a local midnight is that day, or the one before
it everywhere east of UTC (`Midnights`), hence different for the due days
of different months (`CandidateOrder`), and every instant is counted in exactly one
month of the reports (`CountedInOne`). `IInv` carries it through the steps: a tap
asks for the due date of a month of use however late it is served (`TapsAreDue`),
no two payments have one date (`OneDateAPeriod`), and what the phone holds, or is
about to be told, was the date of a payment (`CacheWasTrue`). The two theorems about
Lunas add that no period is paid before the screen has come to it (`NeverAhead`,
since what is seen only moves on): a date that passes the comparison is then of
the very period shown, and its midnight of UTC can be no earlier than the local
one only where they are the same.

### Budget wizard

`BudgetWizardProofs`, for any finite set of categories, amounts, submissions and
faults:

| Theorem | Statement |
|---|---|
| `WizardInductive` | `Spec => []IInv` |
| `WizardTyped` | `Spec => []TypeOK` |
| `OneBudgetAMonth` | `Spec => []OneActiveBudget` |

`OneActiveBudget` counts active budgets and asks of each that it fits its income
and holds nothing the wizard had no field for. `IInv` says the first of every pair
and of the other device (`NoTwoActive`), and that no submission, activated or not,
spends more than its income (`WithinIncome`): the screen refuses those before the
server could (`SubmittedDraft`), whatever a suggestion has allocated. What a
suggestion has allocated is submitted; that it goes no further rests on the
server's look-up of every category (`StoredIsChecked`).

### Prototype

`PrototypeProofs`, for any data of the shape of `seed.ts` (`SeedAssumption`: no
budget is named like the categories the store writes itself, and a suggested
budget is not there yet), any calendar, and any number of transactions:

| Theorem | Statement |
|---|---|
| `PrototypeInductive` | `Spec => []IInv` |
| `PrototypeTyped` | `Spec => []TypeOK` |
| `PrototypeBalances` | `Spec => []BooksBalance` |
| `PlansAreCounted` | `Spec => PlannedSpendIsNeutral` |

`BooksBalance` is nearly inductive: it needs that a bill's status is as it was or
"paid" (`BillsGetPaid`), so that a payment is the first of its bill, and that a
budget's category is none of the store's own (`BudgetsGrow`). `BooksStep` shows
once what a transaction adds to each of the four sums; an operation only has to
change what its transaction names. `PlannedSpendIsNeutral` relates three sums
before and after a step: cash falls by the amount (`CashMoved`), and the unpaid
bills, or what the budgets have left, fall by the same; what the screens show of
it for a day follows (`ShownFollows`). `TypeOK` includes that
payday lies ahead (`PaydayAhead`) and that some goal leads (`AGoalLeads`, as
fractions are totally ordered).

### What is not proved

Every invariant and action property of a passing run is a theorem. Liveness stays
with TLC: `Answered` of `Ledger` and of `Sessions`, `HydrationEnds` and
`CallsSettle`, `HistoryCatchesUp`, `PaidIsShown`, `ActiveIsShown`. Their arguments
need ENABLED of the fair actions, which the proof system does not support.
The runs check the properties that each `IInv` implies, not the `IInv` itself.

## 5. Not modelled, and the plan

In this order:

1. `Planning`: payday and due-day arithmetic over a small calendar, what
   SafeToSpend reserves and bills that have been paid, against the prototype's
   definition of the same figure.
2. `MoneyMath`: 64-bit arithmetic with `% 2^w` against exact definitions, and
   conservation of the recommended amounts.
3. `Export`: keyset pagination while rows are posted and reversed.
4. A pool limit in the unit of work.

Not planned: the seed tool, bootstrap and configuration, password hashing and
token signing (library calls), routing and JSON, the profile form (one validated
UPDATE), layout primitives and themes, the prototype's notifications and its
chart of placeholder data, `design_handoff_sakuplan_rn/reference` (the runtime of
the design tool), and `api/generated/types.ts` beyond the requests and answers the
models name. They keep no state the properties above depend on.
