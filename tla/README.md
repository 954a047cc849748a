# A TLA+ verification of CastraNova POS

CastraNova POS is a point-of-sale and stock system: a FastAPI backend over
PostgreSQL (`src/backend/app`) and a React client that keeps working offline
(`src/frontend/src`). Almost all of its logic that can go wrong in ways a unit
test does not reach is in `src/backend/app/crud.py`: many request handlers, each
in a thread and a database transaction of its own, read, lock and change the same
few rows. The rest is in the browser: a queue of mutations made offline, the
session it needs to replay them (`src/frontend/src/lib`), and some forty screens, each
with component state that scans, answers, polls and other users' changes reach in any
order (`src/frontend/src/routes`, `components`). This directory models the three,
checks them with TLC and proves the most important of the results with TLAPS.

Contents: [inventory](#1-inventory) · [modules](#2-modules-and-how-they-correspond-to-the-code) ·
[runs](#3-runs) · [fairness](#4-fairness) · [proofs](#5-proofs) ·
[findings](#6-findings) · [what is not modelled](#7-what-is-not-modelled) ·
[plan](#8-plan) · [how to run](#9-how-to-run)

## 1. Inventory

The transaction isolation is PostgreSQL's default, READ COMMITTED: every
statement sees the rows committed when it starts. `get_db` (`api/deps.py`) opens
one SQLModel session per request and rolls it back when an exception leaves the
handler; `main.py` turns an `IntegrityError` that reaches the application into a
409, and nothing else: the victim of a deadlock gets a 500. There is no retry on the
server.

| Component | State | Operations | Interacts with | What is hard |
|---|---|---|---|---|
| Quantity stock | `part_batch(received_qty, remaining_qty)`, `cost_line`, `stock_movement` | `receive_quantity`, `consume_quantity_fifo` (sale, ticket, pull, write-off), `_return_part_line` | every selling endpoint, through row locks on batches | lost updates, stale rows of the session's identity map, lock order, shortage decided on a snapshot |
| FIFO and return plan | local variables over the locked rows | the loop of `consume_quantity_fifo`, the newest-first walk of `_return_part_line` | called by the above | boundaries of the total, partial returns that must compose |
| Serialized units | `unit.current_state`, `unit_movement` | sale, return, pull, write-off, all through `core/state_machine.py` | sales, pulls, returns, adjustments compete for a unit | a unit taken twice, returned from the wrong sale |
| Sales and returns | `sale`, `sale_line`, `sale_return`, `sale_return_line`, their UNIQUE idempotency keys | `create_sale`, `create_sale_return` | units, batches, overrides | retries that overlap the first attempt, over-return, partial failure of a multi-line request |
| Project pulls | `project_pull.state`, `project_pull_line.line_state` | create, `fulfill_project_pull`, `cancel_project_pull` | units and batches | fulfilled twice, cancelled while being fulfilled, lines that end SHORT |
| Pricing overrides | `pricing_override_request.state` and its consumer | request, `decide_pricing_override`, single use by a sale or ticket | sales, tickets | single use against concurrent sales and decisions |
| Service tickets | `service_ticket` and its lines | `record_service_ticket` | batches, overrides | as for sales |
| Stock adjustments | `stock_adjustment` | `create_stock_adjustment` | units, batches | as for sales; the lookup by key comes before the lock |
| Batch numbers | `part_batch.batch_no`, an advisory lock | `next_batch_no` | receipts, adjustments | scan and insert must be under one lock |
| Offline queue | persisted mutations of the browser (`lib/query-client.ts`), `sync_review` rows | pause, replay, divert stale or conflicting mutations, resubmit | the endpoints above, by retries | lost, duplicated and late calls; an answer that is lost after the commit |
| Browser session | tokens, the dead-session latch (`lib/auth-session.ts`), the query cache, the menu, the guarded pages | single-flight refresh, retry of a 401, logout, login as somebody else | every call | a refresh that answers after a new login; rows cached for the user before |
| Sale screen | cart, open dialog, pending override (`routes/_layout/sale.tsx`) | scan, edit, ask for an override, check out | lookups, overrides, sales | an answer that arrives when its line is gone or another one is in the dialog |
| Ticket screen | parts and one key per repair (`tickets.tsx`) | scan, edit, close | part lookup, tickets | the answer of a close is lost and the user presses again |
| Stock-request screen | queue page, selected pull, draft, request form (`pulls.tsx`, `lib/pull-*.ts`) | poll, select, scan, give out, request | pulls | the pull vanishes from the page while its draft is edited; a line the payload forgets is given out in full |
| List screens | filter, page, rows, open row (18 pages, sheets and tables) | type, pick, clear, turn the page, open, decide | queries, decisions | rows of another filter or page under the user's click |
| Forms | draft, request (21 dialogs and pages) | type, submit, dismiss, reset | creates, edits, a paused mutation | what is sent is not what was shown; success or a refetch wipes or reverts edits |
| Date and month fields | value, bound, popover, focus (`components/ui/calendar.tsx`, `lib/date-field.ts`) | keyboard, mouse, caption, today, clear | their form, midnight | month ends, leap days, a bound that was computed yesterday |
| Telegram connect | one-time codes, `user.telegram_chat_id`, the card that polls | mint, confirm, disconnect | notifications | lock order of user and code; a code used twice; answers lost or late |
| Notifications | preferences; crossing set of low stock | preference page; post-commit dispatch (`services/notify.py`) | sales, pulls, reviews | edits against refetches; sent for work that rolled back or was replayed |
| Users | `user.is_superuser`, `is_active` | update, delete, the last-superuser guard | sessions | two guards that each count the other's user |
| Catalogue, customers, suppliers, projects, settings | single rows | create, read, update | foreign keys | on the server nothing beyond one row; in the browser lists and forms |
| Reports, audit, search, dashboards | none on the server | read-only queries behind filters | - | as for lists |
| Receipts, labels, generated client, UI kit, migrations | none of their own | rendering, deployment | - | - |

What makes the core correct, in words:

* a piece of stock is never taken twice, never comes back twice, and the balance
  of a batch is always what its ledger says;
* a request takes effect completely or not at all, and once, however often it is
  sent;
* costs are drawn oldest batch first, and a return gives back the pieces drawn
  last;
* a unit is out on one document at a time, and comes back only from the sale it
  left with;
* a pull settles once and agrees with the movements it wrote; an override prices
  one line, and only when approved;
* no set of handlers waits for itself, and every request is answered;
* what was done offline is done once, or is in the review queue, or is still in the
  browser's queue, unless a 401 that ended the session dropped it, and the queue empties
  once there is a connection and a session;
* only a dead refresh cookie, or the user, ends a session;
* what a screen sends is what it showed: an override prices the line it was asked for,
  a pull gives out what was confirmed, a save writes what was on the form, a decision
  is taken on a row the filter asked for;
* an answer that is late, lost, or for somebody else changes nothing it was not
  asked for.

`PROJECT.json` lists the components (`components`) and, line by line, the places
where this could fail (`hazards`), each with the properties that cover it or the
module planned for it.

## 2. Modules and how they correspond to the code

```
Fifo ─┬─ ConsumeLoop ── ReturnLoop ── ConsumeLoopProofs
      ├─ FifoTheorems
      └─ StockTx ─┬─ MCStockTx
                  ├─ ShortageHistory ─┬─ MCShortage
                  │                   └─ StockTxProofs ── StockBalanceProofs
                  └─ (implements) StockLedger
UnitTx ─┬─ MCUnitTx
        ├─ UnitTxProofs
        └─ (implements) UnitCustody
OfflineQueue ── OfflineQueueProofs

Tab ─┬─ SaleScreen ───────┐
     ├─ TicketScreen ─────┤
     ├─ PullScreen ───────┤
     ├─ ListScreen ───────┤
     ├─ FormScreen ───────┼─ Terminals ── MCTerminals
     ├─ SharedDevice ─────┤
     ├─ DatePicker ───────┤     ScreenProofs: the seven above
     ├─ TelegramCard ─────┤     ServerProofs: the three below
     ├─ AccountScreen ────┤     MCAccounts: the accounts alone
     └─ BatchNumbers ─────┘
```

**How a handler is modelled.** A step is one statement another transaction can
observe or be blocked by. A query takes its own snapshot of the committed rows.
`SELECT ... FOR UPDATE` picks its rows by that snapshot, then locks them one by one
in `ORDER BY` order and reads each again when it gets it. The `INSERT` of a header
claims its UNIQUE idempotency key; a second `INSERT` of the same key waits until
the first transaction ends. Writes become visible at COMMIT, and locks are given
back at COMMIT or ROLLBACK. Because nothing a transaction wrote is visible before,
uncommitted rows (`cost`, `checked`, `seen`) are kept per handler, and a handler's
`pc` is either where it stands or its outcome: `created`/`done`, `replayed`,
`conflict`, `shortage`, `overReturn`, `notFound`, `refused`, `deadlock` (chosen by
PostgreSQL as victim) or `lost` (its process died). A handler's identifier also
names the document it creates, so that "the sale of this return" is a handler.

**`Fifo`** has the arithmetic of a FIFO store in closed form: `FifoTake` (the
oldest pieces that make up a quantity), `LifoPrefix` (the newest) and `ReturnPlan`
(the newest pieces after those already returned). Batches are their rank in
`(received_at, id)` order, which is the `ORDER BY` of every query on them.

**`ConsumeLoop`** and **`ReturnLoop`** are the two loops of the code, one iteration
per step, checked against the closed forms: `consume_quantity_fifo` from the check
of `total_available` to the last `CostLine`, and then, on the cost lines it left,
`_return_part_line` under a sequence of partial returns (`to_skip`, `to_restore`, the
defensive raise at the end of the walk). They justify the single step `Draw` and `PlanReturn` of
`StockTx`: between the lock and the commit nobody else touches these rows.

**`StockTx`** is the core. Its variables are the committed rows (`remaining`,
`received`, `lineId`, the random order of a sale's line ids), the unique index on
keys, the row locks on batches and sale lines, and the handlers.

| Action | Code |
|---|---|
| `Replay`, `NoSuchSale`, `Begin` | the lookup by idempotency key at the top of each handler, and the 404 for a missing sale |
| `LockSaleLine`, `ForeignLine`, `LinesLocked` | `create_sale_return` locks the cited lines in id order; a line its sale does not have is a 404 (section 7) |
| `InsertHeader`, `DuplicateHeader` | `session.add(header); session.flush()`, and the IntegrityError it may raise |
| `Receive`, `ReceiveReplayed` | `receive_quantity`; the loser of a race on the movement's key returns the winner's batch |
| `QueryStock`, `LockBatch`, `Shortage`, `Draw` | `consume_quantity_fifo`: the snapshot that picks the rows, FOR UPDATE, the 409, the loop |
| `OverReturn`, `PlanReturn`, `LockBatch`, `Restore` | `create_sale_return` and `_return_part_line`: the over-return check, the unlocked join that loads the batches, FOR UPDATE with `populate_existing`, the `+=` |
| `Commit` | COMMIT: the ORM writes the values computed from the locked copies |
| `DeadlockVictim`, `Crash` | `deadlock_timeout` in a waiter of a cycle; the backend process dies |

`create_sale`, `record_service_ticket` and a negative `create_stock_adjustment`
share their steps (a header, then `consume_quantity_fifo` per product in product
order), and so are three kinds of the same handler. **`StockLedger`** is what they
promise together: atomic `Consume`, `GiveBack` and `Receive`. `StockTx` implements
it under the mapping that shows only committed cost lines.
**`ShortageHistory`** adds a history variable, whether the committed stock was
ever below what a request asks for while that request was in hand, to judge the
409 for insufficient stock.

**`UnitTx`** models the handlers over serialized units and over override and pull
rows. Here the row locks are uniform: `Needs(t)` is the set of rows a request
locks, `TableOrder` the order in which its code goes through the tables, `RowOrder`
the `ORDER BY` within one. `LockRow` is one row of a FOR UPDATE query, `Stop` the
exception the handler raises on what it has read (`Verdict`), `CheckLine` and
`OverReturn` the over-return count a return makes before it locks each unit,
`DuplicateKey` the IntegrityError of the header, `Build` the end of the checks and
`Commit` the writes (`WriteUnits`, `WritePull`, `WriteOverrides`). The state
machine of `core/state_machine.py` appears as the guards in `Verdict` and as
`StateAfter`. **`UnitCustody`** is the abstract promise: a document takes free
units, all at once and once, and a return gives them back.

**`OfflineQueue`** is one browser and the server behind it. JavaScript runs one task
at a time, so a step is one task: from an event, an answer or a settled promise to
the next `await`. `at` says where the page has each mutation (`paused`, `stored` on
the disk and not yet restored, `sent` with a valid or an about-to-be-refused token,
`refreshing` in the interceptor) or how it ended (`refused` to the screen, `unauthorized`
by the 401 that ended the session, `gone`). `token` and `disk` survive a reload,
`latched`, `refresh`, `awaiting`, `managerOnline` and `at` do not: after a load TanStack
Query's `onlineManager` starts online, whatever `online`, the browser's connection, is.

| Action | Code |
|---|---|
| `Submit` | `mutate(queued(body, key))` (`sync-producer.ts`): paused when offline, else sent |
| `GoOffline`, `GoOnline` | `onlineManager`, and the `online` listener of `main.tsx`: replay with a valid token, else ask for a refresh first; then, when the `onlineManager` turns online, TanStack Query's own resume of what is paused, with the token there is |
| `Focus` | the page becomes visible: TanStack Query resumes what is paused, if its `onlineManager` is online |
| `Query`, `Unauthorized` | a 401 in the interceptor of `auth-session.ts`: one shared refresh, then a retry; with a dead session, `endSession` |
| `ServeRefresh`, `FailRefresh`, `RefreshRenews`, `RefreshDenies`, `RefreshThrows` | `POST /login/refresh` and what each caller of `refreshAccessToken` does with its answer |
| `Login`, `Logout`, `TokenExpires`, `IdleHours`, `WeekPasses` | `useAuth.ts`; the ends of the access token (15 min), of the cookie (12 h), and the cap of seven days |
| `Reload`, `Navigate`, `Restore`, `Persist` | a load of the page with its boot check, `onSuccess` of `PersistQueryClientProvider`, the persister of `query-client.ts` |
| `Replay`, `Dispatch`, `Stale` | `divertStaleMutations()` followed by `resumePausedMutations()` |
| `Serve`, `DivertConflict`, `NetworkError` | the answer, and `handleMutationError`: an offline-origin 409 goes to the review queue |
| `ServeOrphan` | a request that is served after its page is gone |
| `PostArrives`, `PostLost` | `postSyncReviewItem` and `POST /sync-review`, which looks the key up; a failure is swallowed |

What it abstracts: the server answers a mutation in one step, with what `StockTx`
promises of it (a key that has taken effect is answered with the first result, any
other request may be refused); the answer arrives with the serving, since nothing of
the page depends on the time between, except a load, which is `ServeOrphan`; each
mutation has one key, as `queued()` is called once per attempt. What TanStack Query
does by itself is taken from version 5 of the library (`bun.lock` has query-core 5.90.20):
`QueryClient.mount`, which `QueryClientProvider` calls, subscribes to `onlineManager` and
`focusManager`, and both resume paused mutations. The page is taken to be visible when a
connection comes back; a resume that goes unseen in a hidden page happens at the next
`Focus`. A refusal other than an offline 409 is shown to the
screen whether or not the screen is still open. A behaviour starts in a browser that
was used before: it may be offline, with paused mutations, a week old or not, and with
an expired token and a dead cookie.

**The screens.** `Tab` is what all of them share: a tab shows one `screen`; `form` is the
component state of that screen, a record of its own shape; `wire` holds every request
the tab has sent, named by its place; `db` is what the server has recorded of them. A
request goes from `sent` (or `paused`, offline) to `ok` when the server has done it and
to `over` when the tab has heard so. `Lose` ends it as `lost` at any point before: refused,
never arrived, or done with its answer lost; the tab cannot tell which, and runs the same
`onError`. `Remount` is leaving the screen and coming back: the component's state starts
over, and the answers of its old requests find nobody (`live`), except where the
code keeps a callback in the mutation's options. JavaScript runs one task at a time, so a
step is an event handler, a callback of TanStack Query, or a step of the server. Handlers
that only exist while their button is shown or enabled have the condition of the JSX as
guard. `Terminals` is the union of all screens, one at a time, which is how one run checks
them.

| Module | What its actions are |
|---|---|
| `SaleScreen` | `ScanItem`, `ScanFound`, `SetLineQuantity`, `RemoveLine`; `PriceClick`, `SavePrice`, `OverrideCreated`, `Poll` (the pending watcher of a line); `Checkout`, `RecordSale`, `SaleCompleted`; the server's `Decide` on an override |
| `TicketScreen` | scans while the catalogue may not have loaded, `CloseTicket` with the key of the repair (`AttemptKey`), `RecordTicket` with the replay by key, `ClearAndRotate` on success |
| `PullScreen` | `PollQueue`, `Select`, `SeedDraft`, `ScanLine`/`LineFound`, `SetFulfilled`, `Fulfil`, `GiveOut` (the server's default for a line left out, and `SHORT` with nothing given for a unit that is no longer in stock), `GaveOutBefore` (a pull already settled answers 200 and changes nothing), `UnitMoves`, `Cancel`, `SettledElsewhere`; the request form from `NewRequest` to `PullCreated` |
| `ListScreen` | `TypeFilter`, `DebounceFires`, `PickFilter`, `ClearFilters`, `TurnPage`; `Answer`, `FetchFails`, `Refetch` under the rules of `useQuery` (the key, `enabled`, `keepPreviousData`); `OpenRow`, `DecideRow`; `OthersChange`. `Lists` says in which of these each of the 18 lists differs |
| `FormScreen` | `OpenForm`, `TypeField`, `Press`, `Resume` (a mutation paused offline reads its draft then or earlier), `ServeForm`, `FormHeard`, `DismissForm`, `Reload`, `OthersEdit`. `Forms` says in which of these each of the 21 forms differs: its payload builder's treatment of blank, untouched and unchanged fields (`Build...`), what its controls lock while a save is pending, when there is something to save and what dismissal resets (`...Controls`). `ScanSerial` and `AddPiece` are the serial of a receipt, which stays beside the pieces until it is added and which no control locks |
| `SharedDevice` | an administrator and a member of staff in turn: `LogIn`, `LogOut`, `LoadPage`, the guard of an administrator's page, `FetchMe`, `FetchDrill`, the persister, with answers across the change of user |
| `DatePicker` | date arithmetic (`AddDays`, `ShiftMonth`, `WeekdayIndex`, `MonthGrid`), the keyboard (`NextFocusDate`, `NextFocusMonth`), the popover, and `Midnight` |
| `TelegramCard` | the card (`Connect`, `PollConfirm`, `GiveUp`, ...), and on the server `create_telegram_connect_code` and `confirm_telegram_connect`, statement by statement, with their row locks and deadlock victims |
| `AccountScreen` | edits of `is_superuser` and `is_active` and deletions, by several administrators: the load without a lock, `count_active_superusers` FOR UPDATE if the row as loaded was an active superuser's, the commit of the columns that differ from what was loaded. The edit dialog sends what it shows, the API takes any edit: both columns may be left out, set or cleared |
| `BatchNumbers` | the advisory lock on day and SKU, the scan for the highest suffix, the insert with its unique constraint, a roll-back |

Data is abstracted to what the properties tell apart: a barcode is a unit or a part, a
form has one required and one optional field, and a list's rows match some filter fields
or not. The order of rows within a list is any.

`MCStockTx`, `MCShortage` and `MCUnitTx` hold the workloads of the runs: for each handler
the set of requests it may be given, so a run covers every combination.

## 3. Runs

| Run | Instance | What it shows |
|---|---|---|
| `ReturnLoop` | 3 batches of 0..3 pieces, requests of 1..10, every split into partial returns | for every opening and request the loop takes the oldest pieces, each once, and refuses exactly when the rows cannot cover it (10 is above the total of 9, so both sides of the boundary occur); the returns compose to the newest pieces, and the defensive branch is never reached |
| `StockConsumers` | 4 handlers (sales, a ticket, a write-off), 2 products, 2 batches of each; a retry, a handler that may die | one effect per key, all lines or none, FIFO at the commit, no deadlock, a shortage is real, everyone is answered |
| `StockReturns` | a sale, two returns of it (a retry, a second part, one too many, a foreign line), a ticket, receipts that may be backdated; or sales of two products and their returns; 4 handlers | types, balance, current copies, returns undo the sale, `ImplementsLedger`; deadlocks occur and their victims roll back cleanly |
| `UnitCounter` | two tills, a write-off, a pull sent twice or cancelled; or two sales, a ticket and two admins over two overrides; 3 units | one holder per unit, the pull agrees with its movements, an override prices one line and only if approved, no deadlock, `ImplementsCustody` |
| `UnitReturns` | sold, returned, sold again, returned against either sale; 2 units | types, the movements of a unit tell one history, everyone is answered |
| `OfflineQueue` | 2 mutations, 2 disturbances | types, one effect per key, nothing is lost but to a 401 that ends the session, what is reviewed is not done, the queue drains |
| `Terminals` | one tab on each of 33 screens; 1 to 4 requests each | the properties of the screens, below |
| `StockReturnDeadlock`, `StockFalseShortage`, `OfflineDeadSession`, `OfflineLogout`, `LastSuperuser` | the smallest instance of each | the findings of section 6, as violations |

| Property of `Terminals` | What it says |
|---|---|
| `OverridePricesItsLine` | an override prices the line it was asked for, and a sale cites it only once approved |
| `OneTicketPerRepair` | a repair draws its parts once while its screen is mounted, whatever answers are lost |
| `GivesOutWhatWasDrafted` | the draft and every payload name exactly the lines of their pull, and the request that settled the pull gave out what it said, less the units that had left the stock |
| `RowsAnswerTheFilter` | rows that can be clicked answer the filter and the page on screen |
| `SavesWhatWasShown` | a save writes what the form showed when it was pressed |
| `SavesOnlyWhatWasEdited` | a page that follows others' changes saves only its own edits |
| `LockedFormKeepsItsDraft` | the edits success clears are the ones that were sent |
| `EverybodySeesHisOwn` | cached rows of a drill-down were fetched by who looks at them; administrator pages are shown to administrators (nothing is said of other queries in the cache) |
| `NothingInTheFuture` | no receipt is dated in the future, and the keyboard stays on days that can be picked, also over midnight; whether the grid and the arithmetic of month ends and leap days are right, it does not judge |
| `CodesAreSpentOnce` | an account has one live code, and a code binds a chat once |
| `CountedEditsLeaveOne` | an edit that counted the superusers does not take the last one's access |
| `NumbersRunOn` | the committed suffixes of a series run from one without a gap, and no receipt is refused for its number |

**Bounds.** Nothing in the models counts without end: a handler answers one
request, so the number of handlers bounds every run. Three or four of them are
enough for what the properties relate: a lost update, an over-return or a double
use needs two handlers, a stale read a third that commits in between, a wait cycle
here two or three, and a retry the handler it repeats. Two products and two units
are the least with a lock order to get wrong. Two batches of a product are the
least with an order to draw them in; `StockReturns` has three, one of which
appears between the others. The quantities are chosen on the boundaries: requests
that exactly empty the stock, one piece too many, a line returned in two parts and
in one part too many. In `OfflineQueue` the bound is `MaxDisturbances`, the reloads,
losses of connection or of a message, failing refreshes, logouts and expiries of one
behaviour: every action of the user or the network that could recur for ever. Two are
enough for a request cut off by a reload and replayed, or for an expiry in the middle
of a reconnection; the initial states already hold the aftermath of others (offline,
expired, dead, a week old). Two mutations let one be diverted while the other is
replayed, or one wait for the refresh the other asked for. `CHECK_DEADLOCK FALSE` is
set because the handlers really stop: when every request is answered there is nothing
left to do, a browser whose mutations are all answered may rest, and so may a tab that
has sent all its requests.

In `Terminals` the bound is `MaxRequests`, the requests a tab sends on each screen: two
where the hazard is a second attempt or another answer, three where a third administrator,
receipt or user has to come between, four on the ticket screen (lookups and two closes)
and the Telegram card (two mints and two confirms). `MaxQty` is 2, a list has three rows
on pages of two (so there is a second page, and a last one that is not full), filters
narrow by one field at a time (`MaxNarrow`). Of the two pulls, one of a part and one of a
unit, another terminal may give out the second (`Elsewhere`), whose line can end short
because its unit is gone as well. The date fields run over the end of
February 2024 with one midnight, with `Horizon` the months the user looks at and `Choices`
the days he may start from. Accounts and days are symmetric, and no property or
initial state distinguishes them. Not every form and list is under check: `Mounted` has
one of each kind, and the assumption `Representatives` of `MCTerminals`, which TLC
evaluates, says that each of the others has exactly the traits of one that is there (for
lists: but for the names of its fields).

**Where a property is not claimed.** `FifoAtCommit` and `ShortageIsReal` are checked in
loads of consumers only. When returns run too, a batch may be refilled, or a backdated one
arrive, between a consumer's query and its commit; the older pieces then stay behind. For
the shortage this is a finding; for the costs it is what READ COMMITTED gives and nothing in
the repository says otherwise. `NoDeadlock` is not checked in `StockReturns` and
`UnitReturns`, where the code does deadlock: the returns there go by the random ids of their
sale's lines (finding 1; for two units of one return the same happens in the unit table).
`LostOnlyToA401` and `ReviewedIsNotDone` speak of mutations that are not `cutOff`: the code
has no retry for a lost review item, and cannot know whether a request whose answer was lost
took effect. `QueueDrains` is excused when a refresh failed that a replay was waiting for,
since nothing replays before the next connection, load or login.

`SavesWhatWasShown` leaves out two kinds of form, which do lose it: see the observations in
section 6. `OneTicketPerRepair` speaks of closes whose screen is still mounted, since the
key goes with the component. `CountedEditsLeaveOne` speaks of the edits that count: what the others
do is `LastOneIsNotDemoted` and finding 5, and a deletion does not count. `LostOnlyToA401`
excepts the mutations that finding 3 is about. `CodesAreSpentOnce` does not speak of the
deadlock of a mint and a confirm, whose victims the model aborts.

Each property of a passing run has a mutant in `PROJECT.json`: a definition
replaced by a plausible bug (no FOR UPDATE, no `populate_existing`, no UNIQUE
constraint, no ORDER BY, an off-by-one in the total, a count of earlier returns
left out, a lock that is not released, ...) with which TLC finds the property
violated in the same run.

## 4. Fairness

`FairSpec` is `Spec /\ \A t \in Tx : WF_vars(Handle(t))`: a handler that has begun
and can take a step takes one. Every request runs in a worker thread of its own
with a session of its own, so the thread scheduler does not let one handler starve
another, and a handler that waits for a row gets it or is made a deadlock victim
after `deadlock_timeout`. It is weak fairness: the server's lock queue is first come,
first served, but no handler here comes back for a lock it has released, so nobody
can be overtaken for ever. Nothing is assumed of `Begin` (a client need not send its
request), of `Replay` and `NoSuchSale`, or of `Crash`. With that,
`EveryRequestAnswered` says a request that was taken up is answered, also when
handlers deadlock, die or lose a race.

`OfflineQueue` assumes weak fairness of what the page and the server do by themselves:
`Navigate` and `Restore` (tasks of the event loop), `ServeRefresh` and `SettleRefresh`
(a request is answered while there is a connection, an answer is processed), and
`Query` (an open page refetches its queries, as `pulls.tsx` does with
`refetchInterval`). Two assumptions are about the world: `GoOnline`, the connection
comes back, and `Login`, a user who is shown the login page logs in. Nothing is
assumed of `Submit`, `Serve`, `Persist` or any disturbance. `QueueDrains` says of the
paused mutations only that they leave the queue, which is what the replay owes them.

The screens are checked for safety only: whether a user presses again, or an answer ever
comes, is nothing the code promises.

## 5. Proofs

TLAPS checks every proof for all values of the constants, from the assumptions declared in
the modules, which TLC evaluates on the instances of the runs:

* ranks are naturals and the sets of rows, handlers and accounts finite
  (`BatchAssumption`, `ProductAssumption`, `OpeningAssumption`, `OrderAssumption`,
  `AccountAssumption`);
* the workloads hold requests that the request schemas let through (`TxAssumption` of
  `StockTx` and of `UnitTx`): a return names a sale, a fulfilment a pull, only sales,
  tickets and decisions cite overrides, a ticket and a decision name no units;
* `RowAssumption` of `UnitTx`: a pull names units, an override a kind and a product;
* a bound on disturbances is a natural number, and every screen may send at least one
  request (`DisturbancesAssumption`, `TabAssumption`); a pull asks for whole pieces
  (`PullAssumption`); the midnights of a date field come in the order of the calendar
  (`PickerAssumption`).

| Module | Theorem | Statement |
|---|---|---|
| `ConsumeLoopProofs` | `LoopTypeCorrect` | `Spec => []TypeOK`, of the loop |
| | `LoopDrainsOldestFirst` | `Spec => []OldestDrainedFirst` |
| | `LoopTakesOldest` | `Spec => []LoopIsFifo` |
| | `ReturnsOfALineCompose` | `LineSpec => []PartialReturnsCompose` |
| | `LineTakesOldest` | `LineSpec => []LoopIsFifo` |
| | `WalksAgree` | `LineSpec => []WalkIsThePlan` |
| `StockTxProofs` | `TypeCorrect` | `Spec => []TypeOK` |
| | `LockedCopyStaysCurrent` | `Spec => []LockedCopyIsCurrent` |
| | `OneEffect` | `Spec => []OneEffectPerKey` |
| | `NoDeadlockWithoutReturns` | `NoReturns => (Spec => []NoDeadlock)` |
| | `ConsumersDrawFifo` | `ConsumersOnly => (Spec => FifoAtCommit)` |
| | `ConsumersRefusedRightly` | `ConsumersOnly => (HistorySpec => []ShortageIsReal)` |
| `StockBalanceProofs` | `ReturnsCompose` | `Spec => []ReturnsUndoTheSale` |
| | `StockBalances` | `Spec => []LedgerBalances` |
| | `LinesCommitTogether` | `Spec => []AllLinesCommitTogether` |
| | `HandlersImplementLedger` | `Spec => ImplementsLedger` |
| `UnitTxProofs` | `UnitTypes` | `Spec => []TypeOK` |
| | `OneHolder` | `Spec => []UnitHasOneHolder` |
| | `OneHistory` | `Spec => []MovementsTellTheState` |
| | `OneLinePerOverride` | `Spec => []OverridePricesOneLine` |
| | `PullsSettleOnce` | `Spec => []PullAgreesWithMovements` |
| | `HandlersImplementCustody` | `Spec => ImplementsCustody` |
| | `NoUnitDeadlock` | `SingleUnitReturns => (Spec => []NoDeadlock)` |
| `OfflineQueueProofs` | `QueueTypes` | `Spec => []TypeOK` |
| | `EffectsOnce` | `Spec => []OneEffectPerKey` |
| | `OfflineWorkIsKept` | `Spec => []LostOnlyToA401` |
| | `ReviewIsHonest` | `Spec => []ReviewedIsNotDone` |
| `ServerProofs` | `NumbersAreSequential` | `BatchSpec => []NumbersRunOn` |
| | `CountedEditsKeepASuperuser` | `AccountSpec => CountedEditsLeaveOne` |
| | `OneCodeOneBinding` | `CardSpec => []CodesAreSpentOnce` |
| `ScreenProofs` | `OneTicketPerVisit` | `TicketSpec => []OneTicketPerRepair` |
| | `OverrideOfItsLine` | `SaleSpec => []OverridePricesItsLine` |
| | `GivenOutAsDrafted` | `PullSpec => []GivesOutWhatWasDrafted` |
| | `NobodySeesAnothers` | `DeviceSpec => []EverybodySeesHisOwn` |
| | `RowsAreForTheFilter` | `ListSpec => []RowsAnswerTheFilter` |
| | `WritesWhatWasShown` | `FormSpec => []SavesWhatWasShown` |
| | `WritesEditsAlone` | `FormSpec => []SavesOnlyWhatWasEdited` |
| | `LockedDraftIsSent` | `FormSpec => []LockedFormKeepsItsDraft` |
| | `ReceiptsAreNotOfTheFuture` | `PickerSpec => []NothingInTheFuture` |

Three of them have a hypothesis on the workload, and none of these can be dropped: TLC has the
counterexamples. `NoReturns`, because returns take batches in the order of random line ids
(`StockReturnDeadlock`); `ConsumersOnly`, because pieces that come back, or are received with
an earlier date, between a query and its locks are not seen (`StockFalseShortage`);
`SingleUnitReturns`, because a return of two units locks them in the order of line ids too.
Everything else, the balance, the refinements and the custody of units included, is proved
with returns.

`FifoTheorems` holds the lemmas they rest on: what a sum over a finite set
(`Total`) does when one term or all terms change, when two sets are joined or a whole is
split, that `FifoTake` and `LifoPrefix` stay within their batches, grow with the quantity, take
a batch only when the ones before it are empty and add up to what was asked for
(`FifoTakeTotal`, `LifoPrefixTotal`, `ReturnPlanTotal`), and that a finite set of numbers has a
least and a greatest. `Total(f, S)` is the cardinality of a set of pieces rather than a fold,
so that these facts follow from those on finite sets. Induction over a finite set is not
available to the prover; where it is needed, a minimal counterexample among the subsets is
taken instead (`MinimalSubset`).

**The two loops** (`LoopInv`, `ReturnInv`). What `consume_quantity_fifo` has drawn after
some rows is what it would draw if these were all. The walk of `_return_part_line` has seen
the newest cost lines and left the older ones: with `Walked` the pieces it has passed, what
it has still to skip and to restore are `returned` and `returned + qty` less `Walked`, cut
at zero, and its plan agrees with the closed form on what it passed (`WalkSoFar`). When
nothing is left to visit, `Walked` is the whole line, so nothing can be left to restore: the
raise at the end of the walk is unreachable, and the returns of a line compose.

**Types and locks** (`TxInv`). `TypeOK` is not inductive: that `remaining` stays a
natural number needs to know what a commit writes. A commit subtracts what was
drawn from the copy the session read, so the invariant says that
* `LocksCovered`: a handler that holds a lock is at work, and what its session has of
  a row it holds is the committed row (`LockedCopyIsCurrent`);
* `DrawnUnderLock`: a consumer has drawn only from rows it holds, and no more than it
  read there;
* `PlannedUnderLock`: a return that is going to restore into a row has locked it or
  is about to;
* `KeyHeld`, `NothingElse`: who has a key in the index, and that a session which has
  not begun, or was rolled back, holds nothing; `SaleNamed`: a return at work has a
  committed sale; `OnlyReceived`: an unreceived batch has no pieces.

Every action keeps `TxInv` (lemma `TxNext`, one lemma per group of actions with the
same effect: moving on, rolling back, claiming the key, ...), and the three theorems
follow.

**Balance** (`ReturnInv` of `StockBalanceProofs`). That a batch never goes above what it
received, in spite of the bare `+=` of a return, does not follow from the balance alone: one
must know that the returns of a line restored only pieces its sale had drawn, which is
`ReturnsUndoTheSale`. So the second invariant has, on top of `TxInv`, that a return at
work holds the lines it cites (`LinesHeld`: this is why two returns cannot both count
the same earlier ones), that its plan still fits what the committed returns have left
(`PlansFit`), that line orders are injective (`LinesOrdered`), `ReturnsUndoTheSale`,
and the balance. A commit of a return then extends the newest-first prefix of its line
(`CommitReturns`), and the sum over sales of what is outstanding bounds what a return
puts back (`CommitBound`).

**Whole requests, and the ledger** (`LinesInv`). The lines a consumer is through with have
drawn what they asked for (`DoneAreFilled`), so when none is left to do, all have. With the
invariants above every step of a handler is a step of `StockLedger` or changes nothing the
ledger sees: what a commit of a consumer takes is there to be taken, because it was read
under the locks still held; what a commit of a return gives back is what its sale still has
out; everything before a commit is invisible.

**Lock order** (`OrderInv` of `StockTxProofs`, `OrderInv` of `UnitTxProofs`). A circle of
waits is ruled out by one order of all rows that each handler follows. In `StockTx` who
waits for a key holds no row yet, and who holds one has written its header and waits for
batches only (`KeysAreWritten`); batches held are of products before those still to do
(`HeldBeforeTodo`), and within a product older than those still to lock (`HeldBeforeNext`).
In `UnitTx` the order is: sale lines, overrides, pulls, the keys of returns, units, all
other keys, within a table by id (`Rank`, `Place`). A handler has read what it holds
(`HeldIsRead`), needs what it has read (`ReadIsNeeded`), and whatever it has still to lock
comes later than all it holds (`ReadInOrder`), also the units of a pull, which it only knows
once it has read the pull. In a circle, the last of the awaited rows would be held by a
handler that awaits a later one.

**FIFO and shortage among consumers** (`ConsumerInv`). While a consumer locks the rows of a
line, every row of the product is locked by it, still in its query's result, or empty
(`ReadInFull`, `Settled`): without returns an empty batch stays empty. What it has drawn past a
batch has taken all there is in that batch (`DrewOldestFirst`), and the rows are held, so this
is the draw on the stock of the commit, and a total that falls short falls short of the stock.

**Units** (`LockInv`, `CustodyInv`). The locks: what a session has read of a row it holds, and
it is the committed row (`ReadsHeld`); a line that passed the over-return check stays locked,
so the check stands (`CheckStands`), and a unit of a return is locked after its line was
checked (`UnitsChecked`); a handler about to commit has found what its guards demand and that
still is so (`BuiltOnFindings`). On top of it, about the committed rows: one holder per unit,
one history, the holder wrote the last movement (`HolderMovedItLast`: so the sale a return
names is the one the unit is out on), a pull's lines are settled with it (`LinesFollowPull`),
it moved the units of its fulfilled lines once each (`PullMovesOnce`), and an override prices
one line. Only `Commit` writes; its lemmas say what it writes (`CommitWrites`), who holds a unit
afterwards (`CommitHolders`) and which documents are closed (`CommitCloses`). The refinement of
`UnitCustody` has one lemma more: what a commit moves is what `Take` or `GiveBack` moves.

**The browser's accounts** (`QueueInv`). `LostOnlyToA401` needs to know which mutations were
done offline: all that are in the queue or on the disk (`QueuedIsOffline`), so that a conflict
is always diverted and not shown. `ReviewedIsNotDone` needs that a mutation the page still
holds has neither taken effect nor been posted (`HeldIsUndone`), that an item on its way to the
review was not done either (`PostedIsNotDone`), and that a request without a page
belongs to a mutation that is `cutOff` (`OrphansCutOff`). All ways of resuming the queue
go through `Dispatch`, so lemma `DispatchKeeps` is proved once and used for `GoOnline`,
`Focus`, `Login`, `Restore` and `RefreshRenews`; the other actions have a lemma each or share
one with those of the same effect. The theorems hold for every number of mutations and
of disturbances.

**Batch numbers** (`BatchInv`). What a receipt has scanned must still be the highest number
when it commits (`ScanIsCurrent`): it is, because between lock and commit it holds the lock
of its day (`HoldsItsDay`), so no other receipt of the series can commit. With it, the
committed suffixes of a series are `1..k` for some `k` (`NoGaps`), a commit makes them
`1..k+1`, and the unique constraint never fires (`NoConflict`).

**The last superuser** (`AccountInv`). Between its count and its commit an edit holds the
rows of two different active superusers (`TwoAreHeld`), and a held row stays an active
superuser's (`RowsAreCounted`), since every other write of either column waits. Taking access
from one of the two leaves the other. The theorem is about edits that counted; an edit that
loaded an account before it became a superuser's does not count, nor does a deletion.

**Telegram codes** (`CardInv`). A mint holds the user's row from its read of the codes to its
commit, so what it read is what there is (`MintsAlone`) and it leaves exactly one code. A
confirm holds the row of its code, and nobody has spent the code meanwhile
(`HoldsItsCode`), although the tab may have given up on an earlier confirm that the server
is still working on. The two lock in opposite orders; the victims of the deadlock are
actions like the others.

**The screens.** Each theorem is about the specification of one screen (`SaleSpec`,
`PullSpec`, ...), of which `Terminals` is the union, and holds for any number of requests,
pieces, pulls, rows and days; the tables of the forms and lists are those of the code.
* Ticket (`TicketInv`). The keys of the attempts never decrease, one close is out at a time
  (`OneAttempt`), and a key below the present one was turned by a close that was heard
  (`KeysTurnWhenHeard`).
* Sale (`SaleInv`). What a line of the cart has of an override, the screen heard of a request
  for that very line (`CartHeard`), and a sale that was sent cites such ones, approved
  (`SalesHeard`). A decision never takes an approval back.
* Pulls (`PullInv`). The draft fits the pull on screen (`DraftFits`), every payload allots
  exactly the lines of its pull (`AllotsFit`), and what was given out is what the payload that
  settled the pull said, less the units that were gone (`GivenAsAsked`).
* Shared device (`DeviceInv`). The login page inherits nothing and nobody waits for an answer
  there (`CleanLogin`), one login is out (`OneLogin`), and in the application every answer that
  will act was asked for with the token at hand (`OwnAnswers`), because a session ends in a load
  of the page, which drops the others.
* Lists (`ListInv`). The rows answer a request made under the key they are filed under
  (`AskedAsKeyed`); a render that changes the key turns them into a placeholder.
* Forms (`FormInv`). An untouched field shows the record (`DraftFitsForm`); every request
  writes what was shown and edits alone (`SaveFits`), one is out at a time (`OneSaveOut`), and a
  locked draft is what it carries (`LockKept`). Which of these holds of which form follows from
  the traits the 21 forms have in common (`TheForms`).
* Date fields (`PickerInv`). A bound is a day that has come (`HasCome`), the value is not after
  it and the focus of an open popover is not beyond it (`WithinBound`); a later midnight only
  moves today on.

**Only model-checked.** `EveryRequestAnswered` of `StockTx` and `UnitTx`, `QueueDrains` of
`OfflineQueue` and `EndsAsTheTotalSays` of the loop: liveness under fairness is out of the
prover's reach. `FifoAtCommit`, `ShortageIsReal` and `NoDeadlock` outside the hypotheses
above are not proved because they do not hold there. That `Terminals` leaves each screen to
its own specification is by the guards and names of its actions, and is not stated as a
theorem. What a bounded run checks beyond this, the proofs state for every instance: no
invariant and no action property of a passing run is left without a theorem.

## 6. Findings

Five places where the code does something other than its comments say; each is a
run whose property TLC violates.

1. `StockReturnDeadlock`. `create_sale_return` orders its lines by `sale_line_id`, a
   random UUID, so that returns of two different sales, or a return and a sale,
   can take the batches of two products in opposite orders. The comment there says
   the order keeps locks consistent as in `create_sale`, whose order is by product
   id. The consequence is a 500 for the victim, nothing worse: `StockReturns` shows
   that the ledger stays balanced.
2. `StockFalseShortage`. `consume_quantity_fifo` filters `remaining_qty > 0` in its
   FOR UPDATE query, on the snapshot the query started with. A batch that is
   refilled by a return while the query waits for another batch is not counted, and
   a sale is refused although the committed stock covers it all along.
3. `OfflineDeadSession`. TanStack Query resumes paused mutations itself, when the connection
   comes back and when the page becomes visible, with whatever token there is. The listener of
   `main.tsx` waits for a valid session "so a replay never fires with a dead token and loses the
   sale", but the library does not: the 401 finds a dead cookie, the session ends, and the
   mutation is dropped from the queue without a review item. `LostOnlyToA401` says that
   nothing else loses it.
4. `OfflineLogout`. `refreshAccessToken` returns `false` for every `ApiError`, a 429 or a
   5xx as well as a 401, and the boot check and the interceptor end the session on
   `false`. The comment in `main.tsx` says only a dead refresh cookie does. In larger
   instances the property fails in a second way: a refresh asked for on the login
   page is refused after the user has logged in, and latches the new session dead.
5. `LastSuperuser`. `update_user` decides on the row it loaded, without a lock, whether to
   count, and writes only the columns that change. An edit that loaded an active member of
   staff and deactivates him does not count; if he is promoted meanwhile and the other
   superuser demoted, by an edit that counts two, none is left. It takes an administrator who
   deactivates an account while another promotes it.

Three more follow from the same models and have no run of their own; adding the property
named to a run shows them.

* `RetryGetsTheWinner` (`MCStockTx`, two handlers with `RetryLoad`). The header is flushed
  outside the `try` around `commit`; a retry that overlaps its first attempt gets the
  application's 409, not the winner's sale as the comment in the `except` branch says
  (`crud.py:2749`).
* `StaleNeverReplays` (`OfflineQueue`). Not everything that resumes the queue calls
  `divertStaleMutations` first: the library's own resume does not, nor does `login()`
  (`useAuth.ts:39`). What is past the cap of seven days is sent, where the comment says it is
  never replayed (`query-client.ts:127`).
* `ReplaysOnlyOnline` (`OfflineQueue`). A new page's `onlineManager` starts online and learns
  otherwise only from an `offline` event. After a reload without a connection the guard of
  `divertStaleMutations` is therefore passed, the restored queue is resumed, and its requests
  fail; mutations are not retried, so they are dropped. The comments say that the queue is
  kept across reloads and that nothing is resumed offline (`query-client.ts:130`, `:148`).

`create_stock_adjustment` has the race of `RetryGetsTheWinner` in another form: it looks its key
up before it waits for the unit, so a double submit finds the unit `ADJUSTED_OUT` and is
refused. It is listed under the hazards.

**Observations.** Of the following the documentation says nothing, so they are no findings;
the models have them, as the code does.

* Ticket: after a lost answer the form stays editable, but the retry has the same key, so
  edits made in between are answered with the first ticket (`tickets.tsx:164`).
* Sale: success empties the cart, also of what was scanned while the sale was on its way
  (`sale.tsx:185`); a scan that is answered after a newer scan is dropped
  (`useScanLookup.ts:131`).
* Create and entry forms have no stable key: pressing again after a lost answer makes a
  second record. A dialog of the kind that reads its draft late sends, after a wait
  offline, what it shows by then.
* Customer and supplier dialogs leave blank fields out of their payload, so an edit cannot
  clear an optional field. The profile form puts back what others changed since it was
  opened.
* A list can show an empty page past its end when rows disappear.
* Two superusers who delete each other leave none.
* A serial that was scanned, or typed with its cost and not added, when a receipt is sent, and
  what is scanned while it is on its way, is wiped by its success (`receive.tsx:162`).
* A fulfilment of a pull that another terminal has settled is answered as a success, although
  the picker's draft was not used (`crud.py:3558`).
* A mint and a confirm of Telegram codes lock the user and the code in opposite orders; the
  victim of the deadlock gets a 500 (`crud.py:3859`).
* The answer of a Telegram confirm may be lost; the card then times out, connected.
* What one user left paused is replayed under the next user's login, and the menu is the one
  of the user before until `currentUser` has been fetched again; the guard of the pages
  does not go by the menu.
* In the day grid, after the caption's arrows, the keyboard moves from the day that had the
  focus in the month before (`calendar.tsx`).

## 7. What is not modelled

In the modelled handlers: money (prices, discounts, VAT and totals), locations and names,
the check that a replay comes from the same actor, positive adjustments (which create a
batch, as a receipt does), the PART lines of a pull (a consumer like the others) and pull
creation, `receive_serialized`, a barcode or an override cited twice in one request (refused
before anything is read), the deviation threshold that makes an override `AUTO_APPROVED` (a
constant says which are), the UNIQUE constraint on an override's consumer, a backstop the
row lock makes unreachable, and the lock a return takes on a line of another sale before it
is refused for it (`LockSaleLine`; its query, `crud.py:3018`, does not look at the sale).
Batches are not deleted and products stay active. In the browser: other tabs (the module has
one page), a page that is hidden when a connection comes back, rate limits other than as a
failing refresh, the triage of review items by an administrator on the server and the
resubmission under a new key.

In the screens: the camera and the timing by which a scanner is told from a keyboard, the
phone layout of the lists, sorting, the print and reminder output of a pull, the rows of a
serialized receipt and the lookup of returnable sales (two fields stand for them), option
loading in the comboboxes (Enter within the 250 ms of their debounce picks from the list as
it is), a price override saved without a connection (`SavePrice` is sent at once; the
dialog's mutation would wait and read price and reason when it is sent), and two tabs at
once. A screen of `Terminals` sees the server as the few rows it depends on; that a sale or
a ticket does there what `StockTx` and `UnitTx` say is not composed into one state space.

Not modelled as components, with the reason, in `PROJECT.json`: the client and the route
tree are generated, the UI kit is presentational, receipts and labels are output, a report
on the server is a query, and what it adds up has no behaviour over time. Notification
dispatch writes a log and talks to external services after the commit.

## 8. Plan

Order: first what loses or duplicates work, then what blocks, then what misinforms.

1. Done: `Fifo`, the two loops, `StockTx` with `StockLedger`, `UnitTx` with
   `UnitCustody`, `OfflineQueue`; the screens from `Tab` to `Terminals`, with batch
   numbers, Telegram codes and accounts on the server side too; the proofs of section 5.
2. `Notify`: an alert is sent for committed work only, and a review item once; the
   crossing of low stock is recorded outside the transaction.
3. `receive_serialized` with its two unique constraints, the PART lines of pulls in
   `StockTx`, the deviation threshold of an override, the triage of review items, a key
   reused by another actor.
4. Two tabs of one browser over one queue and one session.
5. Proofs: that each screen's specification is what `Terminals` runs on that screen; what the
   loops of `ConsumeLoop` and `ReturnLoop` compute as the step `Draw` and `PlanReturn` of
   `StockTx`; batch locks of returns in product order, for which `NoDeadlock` would need no
   hypothesis.

## 9. How to run

In this directory, with the TLA+ tools and TLAPS 1.4.5:

```
tlc -workers 2 -config StockReturns.cfg MCStockTx.tla
tlc -workers 2 -config StockConsumers.cfg MCShortage.tla
tlc -workers 2 -config OfflineQueue.cfg OfflineQueue.tla
tlc -workers 2 -config Terminals.cfg MCTerminals.tla
tlapm StockBalanceProofs.tla
tlapm ScreenProofs.tla
```

`PROJECT.json` names the module and configuration of every run.
