# Cannaclub POS: verification project

TLA+ models of the transactional core of the API (`src/apps/api/src`, NestJS over
Prisma and PostgreSQL), checked with TLC on small instances and proved with TLAPS
for every instance. Paths below are relative to `src/apps/api/src`.

## The system

A tenant (a club) has members, products, cashiers and administrators. The web
application (Next.js) calls the API; a request handler reads and writes PostgreSQL,
sometimes inside one `prisma.$transaction`, often statement by statement. No call sets an
isolation level, so every transaction runs at PostgreSQL's default, **READ COMMITTED**: a
read sees what is committed at that moment, an `UPDATE` waits for the row lock and then
writes, and nothing read earlier is protected. There is no `SELECT ... FOR UPDATE` in the
code and no update whose condition repeats the status that was checked. What the handlers
guarantee under overlap is therefore decided by three things: which writes are absolute and
which are `{ increment: ... }`, which guards are read before the writes, and the few unique
constraints of the schema. That is what the models are about.

| Component | State | Operations | Hard behaviour | What makes it correct |
|---|---|---|---|---|
| Cash desk (`pos`, `cash`, `receivables`, `third-party-payments`) | sessions of the drawer, cash movements, sales, receivables and their payments, third-party payments | open, close, sell, cancel a sale, manual movement, create/pay/cancel/approve a receivable, create/cancel a third-party payment | overlapping transactions on one row; a session closed between the read and the write; corrections on closed sessions | books balance, every movement has its row, money returned once, debts never over-collected, closed means closed |
| Stock (`inventory`, `pos`) | quantities and totals of each product, movements | add, adjust, waste, sell, cancel a sale; verification of weights | absolute writes of stale quantities; three decimals in the columns, six in the movements; weight against quantity charged | never negative, never oversold, the movements explain the stock |
| Joint sale (`pos`) | both of the above | `createSale`, `cancelSale` | one transaction over both; order of row locks; one connection each | goods and money move together, sales never deadlock, every request ends |
| Rewards (`member-app`) | point balances and transactions, rewards, redemptions | adjust points, create/update a reward, redeem, approve/reject/deliver | checks outside the transaction that writes; `addPoints` without a transaction; double refund | a balance is the sum of its transactions, refunds match rejections, every unit has its redemption |
| Games (`member-app`) | plays, game sessions, mission progress, point transactions | check in, the two awards, play, start/finish a session, progress and completion of missions | chains of statements without a transaction, limits counted before the play, double finish, crash before the points | earnings are explained by plays and missions, nothing is earned twice, the daily cap holds |
| Member portal (`member-auth`) | codes sent to members | ask for a code, log in with it | codes revoked and created one by one; a code read before it is marked as used; logged out and blocked in between | a code lets one member in, once, while it is the last one |
| Chat (`chat`) | conversations, participants and roles, the agent of a support chat; messages, reactions, mentions, pins | create, add/remove/leave, change role, delete, assign; send, edit, delete, react, pin, apply retention | guards before the write; rows that are gone or new when written; last owner leaving; participants that leave between check and insert; retention that runs over an edit | a group keeps two participants and an owner, one direct conversation per pair, one agent per chat; what is deleted stays deleted, who writes takes part |
| Access (`security`, `auth`) | links, emergency locks, sessions, password, second factor | regenerate, activate/deactivate the emergency, log in, revoke, change password, set up/verify/disable the second factor | regenerate overlapping the lock; two writes on two connections; a secret replaced after its code was checked | locked while there is an emergency, no link then, old sessions end with the password, no second factor nobody proved |
| Staff (`users`, `auth`) | users of a club, roles, states, overrides of permissions, signed tokens | create, change role or state, override permissions, log in, act with a token | tokens that outlive the role they were signed with; seats counted before the transaction | the club keeps its owner, nobody comes by a power nobody gave, seats are bounded |
| Platform (`platform`, `public`) | tenants, subscriptions, invoices, payments; leads, contacts, onboarding tasks; plans, modules, settings | create/suspend/archive/delete a tenant, plan, subscription, renewal, invoices, payments, the monthly run, the automatic suspension; send and convert a lead, contacts and tasks of a new tenant; modules of plans, assigning a plan | runs that are no transaction; numbers by counting on another connection; modules that follow a plan in a later statement; conversion of a lead on a stale read | billed once, the tenant's status follows its subscription, the next number is free; one tenant per lead, one primary contact; a club has the modules of its plan |
| Members (`members`, `storage`) | members, their photos and the files of the storage, incidents | register, change status, remove, upload a photo, write its key, note and resolve incidents | rows and files have no common transaction; a photo replaced while another is stored | no photo missing, no file left behind, what was decided stands |
| Notices (`notifications`) | internal notices, cache of each server, lock of Redis | the sync behind every reading, writes of users | no unique key; several servers; a lock that ends by itself | one notice for each condition and event; in the end the notices say what is the case |
| Products, push and mail, settings, cache, reports, web | see `PROJECT.json` | | | |

They meet in few places. A sale is one transaction over the desk and the stock. Games and
missions add points through the `addPoints` of the rewards. The status of a tenant and its
emergency mode are read by the guard of every request and by the login; the modules of a
plan decide what the guard lets through. Everything else shares nothing but the database.

`PROJECT.json` lists every component with its status, and every hazard with its line.

## Plan

1. `CashDesk`, `Inventory` (done): everything that moves money, everything that moves goods.
2. `PointOfSale` (done): one sale over both, row lock by row lock, with its connection.
3. `MemberRewards` (done), with the abstract `RewardBook` it implements when requests do not
   overlap; `MemberGames` (done), the ways to earn; `MemberPortal` (done), the way in.
4. `Chat`, `Access`, `Billing` (done); `Messages`, `Staff`, `Members`, `Onboarding`,
   `PlanModules`, `Notices` (done).
5. Theorems (done, but for what is listed under "Left to TLC"): type correctness of the
   modules that are proved about; what holds under every interleaving; what holds when
   requests do not overlap; sums over rows (`Sums`); the refinement.
6. Next: what the parts of a club whose handlers are listed under "Not modelled" add to the
   properties that are proved here.

Modules that are proved about have no RECURSIVE operator.

## How a handler becomes actions

The handlers of `CashDesk`, `Inventory` and `MemberRewards` perform all their reads before
their first write. Such a handler is split where another transaction can get in between:

* `Read...(w)` takes the reads, evaluates every guard on them, and stores what the rest of
  the handler will use in `txn[w]`;
* `Commit...(w)` performs all the writes at once (they become visible to others only at
  the commit). What the code wrote as an absolute value comes from `txn[w]`; what it wrote
  as an increment, or as an inserted row, is added to the current row;
* `Abort(w)` rolls a transaction back between the two: a lost connection, a timeout, a
  crash of the server. Nothing else is volatile, so a crash is exactly that.

A refused request changes nothing and is not a step. `Worker` is the number of
transactions in flight at once: one worker means requests that do not overlap, two give
every interleaving of two handlers. (`tenantSettings.upsert` with an empty update only
reads an existing row, and takes no lock that would order two sales.) Two properties of
the code decide what a second transaction finds at commit: ids are never reused, and a
status is written without looking at the status it replaces.

`adjustPoints` is not a transaction: its three statements are three actions, and `Abort`
between the last two leaves the entry that was inserted. `redeemReward` and
`rejectRedemption` read before their transaction and once more inside it, so they have a
middle step, `CheckBalance`.

The other components share `Requests`. Their handlers are mostly no transactions, so a
request goes on statement by statement, with what it has read in `txn[w]`; a handler of one
statement is one step. `overlapped` remembers whether a request ever began while another was
in flight. Many promises of these components are kept only by guards that are read before
the write, and are stated as `~overlapped => ...`: the run interleaves all the same, and
shows with the other properties what survives. A crash does not count as an overlap: what is
promised when requests do not overlap is promised after any number of crashes.

`PointOfSale` looks at the same two handlers as `CashDesk` and `Inventory` one level below.
`createSale` updates the inventory rows sorted by product, `cancelSale` the sale and then
the rows in the order of the items; each update waits for the row and keeps it until the end
of the transaction; a transaction has one connection of a pool. Amounts are left out: what
matters is which rows are written and whether all of it is committed.

Amounts and quantities are natural numbers: cents, and units of the sixth decimal.
Rounding of prices and percentages to cents happens before the amounts the models start
from.

## Modules

| Module | What it is |
|---|---|
| `CashDesk` | `session`, `ledger` (movements, as a total per session and type), `sale`, `account` (receivables), `payment`, `txn`; the handlers of `pos.service.ts`, `cash.service.ts`, `receivables.service.ts`, `third-party-payments.service.ts` that write them |
| `Inventory` | `inventory`, `moved` (movements, as a total per product and type), `sale` (quantities), `txn`; `createSale`, `cancelSale` for goods, `addStock`, `adjustStock`, `wasteStock`, the scale verification of `resolveScaleData`, the precision of the columns (`Store`) |
| `PointOfSale` | `sale`, `goods` and `money` (movements of each sale), `lock` (row locks), `txn`; `createSale` and `cancelSale` statement by statement, connections, roll-backs, PostgreSQL's deadlock detection |
| `MemberRewards` | `balance`, `entries` (point transactions, as a total per member and kind), `reward`, `redemption`, `txn`; `addPoints`, `adjustPoints`, `createReward`, `updateReward`, `redeemReward`, `approve-`, `reject-` and `deliverRedemption`. `stockLimit` and `stocked` of a reward say which of its two nullable columns are set. `lost`, `supplied` and `recounted` are history variables: points of entries a crash left without their update, units the club put on the shelf, rewards of which an edit began or ceased to count the stock |
| `RewardBook` | abstract specification: what the reward shop promises, without requests, history or stale reads |
| `RewardTables` | the tables of `MemberRewards`, and how they add up (`RewardsReconcile`) |
| `InFlight` | `Worker`, `txn`: the requests in flight |
| `Requests` | `InFlight` with `overlapped`: requests that go on between the awaits of their handler |
| `MemberGames` | `plays`, `played`, `session`, `progress`, `entries`; `checkIn`, `awardProfileCompletion`, `awardFirstAccess`, `playGame`, `startGameSession`, `finishGameSession`, `updateMissionProgress`. `completions` and `dropped` are history: missions completed, points whose entry a crash prevented |
| `MemberPortal` | `active` members, `code`; `requestAccess` and `login` of `member-auth.service.ts`. `entered` is history: how often a code let somebody in |
| `Chat` | `conversation`, `participant` (role and number of the row), `rows`; direct and platform conversations, groups, support chats. `departed` is history: groups an owner left or was removed from |
| `Messages` | one conversation of the chat: `participant`, `message`, `reaction`, `mention`; sending, editing, deleting, reacting, pinning, and the retention policy. `applied` is what the process remembers: whether the policy was applied within its interval. `erased` is history: what retention erased |
| `Access` | `accessStatus`, `link`, `emergency`, `password`, `session`, `totp`; `security.service.ts`, the emergency handlers of the platform, `auth.service.ts`, `totp.service.ts`. `openedWith`, `proven`, `cutShort` are history |
| `Staff` | `role`, `status`, `override`, `token` of the users of a club; `users.service.ts`, the permissions a token is signed with and the guard that asks them. `entrusted`, `reopened`, `left` are history: who was given a power, who was unblocked, whether the founder gave up |
| `Billing` | `tenant`, `subscription`, `invoice`; the tenants, subscriptions, invoices and payments of `platform.service.ts`, `generateMonthlyInvoices`, the suspension in `syncTenantPlatformNotifications`. `byHand` and `purged` are history: tenants whose status was last written on its own, whether invoices were deleted |
| `Onboarding` | `lead`, `tenant` (as far as it comes from a lead), `account`, `contact`, `task`; the public form, conversion, contacts and tasks of a new tenant. `dated` is history: tasks whose date was given by hand |
| `PlanModules` | `catalogue`, `planModules`, `plan`, `setting`; modules, plans, assigning a plan and the sync of settings, settings by hand. `asked` and `apart` are history: what a plan was last given, clubs whose settings need not be those of their plan |
| `Members` | `member`, `incident`, `file`; registration, status, photos and their files, incidents. `used`, `given`, `lost`, `leftover` are history: keys ever used, keys sent by a client, keys deleted by requests that did not replace them, files left behind on purpose or by a failure. A key a client sends is a key or none, with or without spaces around it (`SentKey`): `clean` drops the spaces, `Replaces` compares the text as it came |
| `Notices` | `notice`, `fresh` (cache of each server), `lock` (Redis), `holds` (conditions and events the queries of a sync would find now: either may cease); the sync statement by statement and the writes of users. `lapsed`, `reopened`, `moves` and `failures` are history |
| `Club`, `ClubGames`, `ClubNotices` | instances of `Members`, `Messages`, `Onboarding`, `PlanModules` and `MemberPortal`, of `MemberGames`, of `Notices`, and what is promised of them: the runs check it and `ClubProofs` proves it |
| `ClubStaff`, `ClubAccess` | instances of `Staff` and of `Access`, and what is promised of them: the runs check it and `ClubProofs` proves it |
| `MCRaces`, `MCClub` | components that share no row, side by side (below) |
| other `MC...` | symmetry sets and bounds for TLC |
| `Sums` | lemmas about the sums of the community modules |
| `CashDeskProofs`, `InventoryProofs`, `MemberRewardsProofs`, `PointOfSaleProofs`, `ChatProofs`, `BillingProofs` | theorems about the module of that name |
| `ClubProofs` | theorems about `Staff`, `Access`, `MemberPortal`, `Messages`, `PlanModules`, `Members`, `Onboarding`, `MemberGames`, `Notices` |

Operators marked `(mutant)` are the wrong versions of the definition that follows them;
nothing refers to them. Each is a plausible mistake in that handler, and replacing the
definition by it makes TLC report the property it is listed with in `PROJECT.json`. A
property that is a conjunction of several promises has several.

Details worth knowing when comparing with the code:

* `pay`, `cancel` of a third-party payment, and manual movements take the *latest* open
  session of the cashier; `createSale` takes any (`findFirst` without an order).
* A payment in cash of more than the total is change, not income: `AmountPaid`.
* `createManual` has no validated DTO and can be called with an amount of zero; a negative
  amount would be stored too, and is left out of the models (no receivable with a negative
  debt has a meaning for any property here).
* `cancelSale` adds back the quantity *charged*, not the weight that left the shelf, does not
  reduce `totalStockOut`, and does not pay back what was already collected on the sale's
  receivable. `UnitsMoveOnce`, `StockExplained` and `CashExplained` are stated accordingly.
* `RECEIVABLE` statuses `OVERDUE`, sale status `REFUNDED` and `PENDING`, and the session
  status `CANCELLED` are never assigned by any code.
* Points earned by check-ins, games and missions reach `MemberRewards` as an adjustment: all
  use `addPoints`. `requiresApproval` of a reward and `requireRewardApproval` of the settings
  are stored and never read; the redemption status `CANCELLED` is never assigned. Prices and
  stock that an administrator writes are not negative.
* The stock of a reward is counted if neither `stockLimit` nor `currentStock` is null
  (`Counts`), and `updateReward` writes either. `redeemReward` and `rejectRedemption` decide on
  what they read before their transaction, each for itself: when a limit is set or cleared
  between the two, a unit is put back that was never taken, or not put back. The code has no
  record of which redemption took one; `StockAccounted` is stated of the rewards whose stock
  was counted all along (`recounted`), and the book takes and puts back a unit if the stock is
  counted at the time.
* `updatePhoto` deletes the old file if the key it was sent is not the one in the row, and
  writes the key without spaces around it, or nothing if there were only spaces. Such a request
  leaves the row naming a file that is gone: it lost the file (`lost`), as a failure between
  the two does, and `PhotosKept` says that no other request does.
* A session of a game can be finished only once in a row, but nothing in its transaction
  asks for the status again; `playGame` does not refuse a game that is played in sessions.
* Whoever takes part in a group may add, remove and promote: `ensureGroupManager` asks no
  role (the route asks a permission). When the last owner leaves, nobody becomes owner.
* A removed participant who is added again has a new row, which is why the role written by a
  stale request never reaches it.
* Editing a message does not ask whether its sender still takes part; retention passes over
  messages that were deleted by hand, whose text stays in the row; deleting keeps the pin.
* The club's own `deactivateEmergency` always refuses. `changePassword` sends its two writes
  with `Promise.all`.
* A payment makes its invoice PAID whatever it was and whatever the amount. Numbers made by
  hand (`INV-2026-00001`) and by the monthly run (`INV-00001`, or `INV-202600002` after one by
  hand) are never the same text.
* `updateTenantContact` without `isPrimary` and `updateModule` change nothing that is
  modelled: the status of a module is written by archiving it only. Tenants of `Onboarding`
  arise by conversion only; those that are created directly have no lead.
* The queries of a sync find the sales that are COMPLETED, the waste over the threshold that is
  set and the last 30 days. A sale that is cancelled, a threshold that is raised and an event
  that grows old are gone for the next sync (`Change`), and back if the threshold is lowered.
  `EventNoticed` promises a notice for the events that are not gone before it is filed.
* The book sees `balance` as points, a reward as an offer, a redemption as a claim. An
  adjustment is a grant at its last statement, a redemption and its rejection are one step
  at their commit, everything else is a stutter.

## Runs

Deadlock is not checked because the requests are bounded: when the ids are used up there may
be nothing left to do. Deadlocks of the database are steps of `PointOfSale`.

| Run | Instance | Shows |
|---|---|---|
| `desk_serial` | `MCCashDesk`: 1 worker, 1 cashier, 2 sessions, 1 sale, 1 manual receivable, 1 third-party payment, amounts 1 and 2, withdrawals | `CashExplained`, `CollectedWithinDebt`, `CancelReturnsOnce`, `DeskInOrder` |
| `races` | `MCRaces`, 2 workers: a sale with its receivable and a third-party payment; a reward with 2 redemptions, whose limit and stock are edited; a plan of 2 users, with 3 employees and overrides, and with 4 employees and their states | `AccountBalanced`, `CancelledSaleReturned`, `LedgerReconciles`; `RewardsReconcile`; `PowersEntrusted`, `SeatsBounded` |
| `stock_serial` | `MCInventory`: 1 worker, 2 products (one weighed), 1 sale, quantities 1 and 2 | `StockExplained`, `UnitsMoveOnce`, `NonNegativeStock`, `TotalsMatchMovements` |
| `rewards_serial` | `MCMemberRewards`: 1 request at a time, 1 member, 1 reward with any edits of its columns, 2 redemptions, costs and adjustments of 1 and 2 | `KeepsBook` (the refinement) |
| `sale_locks` | `MCPointOfSale`: 3 transactions, 3 connections, 2 products, 2 sales | `SalesNeverDeadlock`, `GoodsFollowMoney`, `EveryRequestEnds` (liveness) |
| `games` | `MCMemberGames`: 2 requests, 1 member, 3 games (quiz, daily, played in sessions), 2 sessions, 2 missions, 1 award, a cap of 3 points with games of 2 | `EarningsExplained`, `EarnedOnce`, `DailyCap` |
| `chat` | `MCChat`: 2 requests, 3 collaborators, 2 agents, 2 conversations, 1 group at a time | `OneConversation`, `OneAgent`, `GroupsKept` |
| `access` | `MCAccess`: 2 requests, 2 links, locks, sessions, passwords and secrets | `EmergencyHolds`, `PasswordEndsSessions`, `EnabledIsProven` |
| `billing` | `MCBilling`: 2 requests, 1 tenant, 2 invoices, one status by hand (ARCHIVED), one asked (CANCELLED), one edited (VOID) | `BilledOnce`, `NextNumberFree`, `StatusJustified` |
| `club` | `MCClub`, 2 requests: 1 member with 3 keys of photos; 1 member with an incident; 2 users and a message; 2 leads; the workspace of a tenant; a club, a plan and 2 modules; 2 clients with 2 codes | `PhotosKept`, `DecisionsStand`; `DeletionStands`, `ParticipantsOnly`; `LeadsKept`, `WorkspaceKept`; `ModulesKept`; `EntersOnce` |
| `notices` | `MCNotices`: 2 requests, 2 servers, 1 condition, 1 event, 5 notices, 2 moves of the club or its users and 1 failure | `NoticedOnce`, `Settled` (liveness) |
| `race_overpaid` | `MCCashDesk`: 2 workers, 1 manual receivable | violates `CollectedWithinDebt` |

`MCRaces` and `MCClub` put components side by side that share no row: a step of one changes
nothing that is said of another, so exploring them together would only multiply their
states. `part`, chosen at the start, says which of them has requests; the states are then a
sum. `MCRaces` has the desk, the shop and Staff; `MCClub` members, messages, onboarding,
modules and the portal. Staff, Members and Onboarding are looked at twice, with requests
that meet each other: those about powers (managers, no change of state, overrides of two
permissions) and those about seats (employees, any state, tokens of the founder only), those
about photos and about incidents, those about leads and about a workspace.
Components take their ids from the same sets, which keeps the group of permutations small.

The bounds are the smallest at which the hazards happen: two amounts so that a debt can be
paid in parts, left over, or exceeded; two sessions so that a drawer can be closed and
another opened while rows point to the first; two requests because every race found in the
code is between two handlers, and three transactions where a circle of waiting ones may be
longer than two; a cap that one game and a half reaches, so that a play is paid in part;
three collaborators because a group refuses to fall below two; two invoices so that one is
void or paid and another is due; two links, locks, sessions and secrets, one old and one
new; three keys, so that a photo is replaced while another is stored; two leads, modules and
users, so that the wrong one can be taken; two servers, because the cache keeps one from
repeating itself; two moves and a failure besides, so that a sync may fail after a condition
has come and gone, with five notices, since no behaviour within these bounds creates more (six
give the same states). In `races` members are given one point, prices are one or two and
stock none or one, edits keep a reward active and set or clear both columns of the stock
together, and a reward is edited no more once its stock began or ceased to be counted;
`rewards_serial` has every edit. In `club` the key that clients send is one (`ClientKey`),
with spaces or without. `BilledOnce`
with one tenant shows the tenant that may be billed twice; the tenants a run has still to
visit matter to it only as what a crash leaves undone, which a run that stops before its only
tenant is as well. Statuses that are given as sets to `billing` and `club` are one of each
kind that the code treats alike: the theorems hold for all of them. `MaxSession`,
`LedgerCap`, `MaxTotal`, `MaxGranted`, `MaxWithdrawn`, `MaxRow`, `MaxGroup`, `MaxPlays`,
`MaxOverrides`, `MaxTokens`, `MaxMoves`, `MaxFailures` and the sets of ids bound what the code leaves
unbounded.

Two runs look no further at some states. In `chat`, once requests have overlapped, only
states whose live conversations are groups are explored further (`GroupsAfterOverlap`):
what is promised after an overlap is promised of groups. In `desk_serial` the receivable of a
sale is not approved (`ApprovedByHand`): an approval writes a column that only another
approval reads, and the receivable by hand has both.

Fairness is assumed in two runs. In `sale_locks` a request that was begun goes on by itself:
the server sends its next statement and PostgreSQL executes it. `Commit` and `Victim` are
weakly fair, because a transaction that has nothing left to wait for ends, and PostgreSQL
looks for deadlocks after a fixed time. `Update` is strongly fair: a row lock is released and
taken again by others, and PostgreSQL hands it to those that wait in turn. Nothing is assumed
of `Begin...` (users need not come) or of `Abort` (no request needs its time limit to end).
`EveryRequestEnds` says that the sale never waits for a second connection while it keeps one:
with an audit record on another connection (`AuditApart`) all connections are taken by
transactions that wait for one more. In `notices` the steps of a request are weakly fair, as
above; so are the ends of the cache (five minutes) and of the lock (30 seconds), which are
clocks; and so is some sync beginning, because an open page asks every 120 seconds
(`useNotifications.ts` of the web application). Failures, users and the club owe nothing.

`race_overpaid` is the disagreement kept as a run: a test says that a payment never exceeds
the debt (`receivables.service.spec.ts`), and two `pay` of one debt both pass the check, both
amounts are in the drawer, and the receivable shows one. TLC finds the following in the same
way, by changing a constant of a passing run:

* with two workers in `desk_serial`: `DeskInOrder` (two `openSession` of one cashier both
  pass the check; a sale posts its cash to a session that was closed after it was read; a
  paid receivable is overwritten by a cancellation), `CancelReturnsOnce` (two `cancelSale`
  both take the money out), `CashExplained` (a third-party payment cancelled twice);
* with two workers in `stock_serial`: `UnitsMoveOnce` (two sales of the last unit, two
  cancellations of one sale); with `AllowUnderWeight`: `StockExplained` (the stock drops by
  the weight, the movement records the quantity asked for); with `Grain = 4`:
  `StockExplained` (a weight below the gram is in the movement and rounded away from the
  stock);
* with two workers in `rewards_serial`: `RefundedOnce` (rejected twice, or refunded and
  delivered) and `KeepsBook` (points or stock below zero). Without any overlap,
  `AccumulatedWereGiven`: the refund of a rejected redemption counts as points accumulated;
* every property stated with `~overlapped` fails without that condition: a session finished
  twice and a mission completed twice are paid twice, a group is left with one participant
  or without an owner, a pair has two direct conversations, a chat two agents, a locked club
  an active link, a session outlives the password it was opened with, a second factor is
  enabled that nobody has proved, a tenant is billed or suspended on stale reads.

## Proofs

Every theorem holds for every value of the constants that satisfies the assumption of the
module, unless another is named.

| Theorem | Statement | Assumption |
|---|---|---|
| `CashDeskProofs!TypeCorrect`, `BooksBalance`, `PaidBacked`, `SaleMoneyReturned` | `[]TypeOK`, `[]AccountBalanced`, `[]PaidIsBacked`, `[]CancelledSaleReturned` | any number of workers |
| `CashDeskProofs!TablesReconcile` | `[]LedgerReconciles` | finitely many sales, receivables and payments; any number of workers |
| `CashDeskProofs!DebtBounds`, `ReturnedOnce`, `DeskStaysInOrder` | `[]CollectedWithinDebt`, `[]CancelReturnsOnce`, `DeskInOrder` | one worker |
| `CashDeskProofs!CashIsExplained` | `[]CashExplained` | finite tables, one worker, no corrections by hand |
| `InventoryProofs!TypeCorrect`, `NeverNegative` | `[]TypeOK`, `[]NonNegativeStock` | any number of workers, any settings and precision |
| `InventoryProofs!TotalsMatch` | `[]TotalsMatchMovements` | `Exact`; any number of workers |
| `InventoryProofs!MovementsExplainStock` | `[]StockExplained` | `Exact` and one worker |
| `InventoryProofs!UnitsMoveOnly` | `[]UnitsMoveOnce` | `Exact`, one worker, finitely many sales |
| `MemberRewardsProofs!TypeCorrect` | `[]TypeOK` | any number of workers |
| `MemberRewardsProofs!RewardsAreExplained` | `[]RewardsReconcile` | finitely many workers and redemptions |
| `MemberRewardsProofs!ShopKeepsBook` | `Spec => KeepsBook`: `MemberRewards` implements `RewardBook` | one worker |
| `MemberRewardsProofs!RefundsSettle` | `[]RefundedOnce` | one worker |
| `PointOfSaleProofs!TypeCorrect`, `LocksOrdered`, `NoDeadlockAmongSales`, `GoodsAndMoneyTogether` | `[]TypeOK`, `[]LockInv`, `[]SalesNeverDeadlock`, `[]GoodsFollowMoney` | any number of transactions, products, sales, connections |
| `BillingProofs!TypeCorrect`, `StatusFollows`, `NumberIsFree` | `[]TypeOK`, `[]StatusFollowsSubscription`, `[]NextNumberFree` | any number of requests and tenants, finitely many invoices |
| `BillingProofs!BilledAtMostOnce`, `StatusIsJustified` | `[]BilledOnce`, `StatusJustified` | the same |
| `ClubProofs!PowersAreEntrusted`, `SeatsAreBounded` | `Staff`: `[]PowersEntrusted`, `[]SeatsBounded` | `StaffOK`; any number of requests |
| `ClubProofs!EntryTypeCorrect`, `EmergencyIsKept`, `SessionsEnd`, `FactorIsProven` | `Access`: `[]TypeOK`, `[]EmergencyHolds`, `[]PasswordEndsSessions`, `[]EnabledIsProven` | `AccessOK`; any number of requests and rows |
| `ChatProofs!TypeCorrect`, `OwnersAreMembers`, `GroupsStay`, `OneEach`, `AgentAssigned` | `[]TypeOK`, `OwnerByMembership`, `GroupsKept`, `[]OneConversation`, `[]OneAgent` | any number of requests and rows |
| `ClubProofs!CodesEnterOnce` | `MemberPortal`: `EntersOnce` | finitely many requests at once (in `ComponentsOK`) |
| `ClubProofs!DeletedStays`, `WritersTakePart` | `Messages`: `DeletionStands`, `ParticipantsOnly` | any number of requests and rows |
| `ClubProofs!ModulesAreKept` | `PlanModules`: `[]ModulesKept` | `ComponentsOK` |
| `ClubProofs!PhotosAreKept`, `DecisionsAreKept` | `Members`: `[]PhotosKept`, `DecisionsStand` | `ComponentsOK` |
| `ClubProofs!LeadsAreKept`, `WorkspaceIsKept` | `Onboarding`: `[]LeadsKept`, `WorkspaceKept` | `ComponentsOK` |
| `ClubProofs!EarnedOnceHolds`, `CapHolds`, `EarningsAreExplained` | `MemberGames`: `[]EarnedOnce`, `[]DailyCap`, `[]EarningsExplained` | `GamesOK`, and finitely many requests at once |
| `ClubProofs!NoticedAtMostOnce` | `Notices`: `[]NoticedOnce` | `NoticesOK` |

`Exact` says that every line takes what its movements record: the waste of the scale is
registered, under-weight is refused, and quantities are whole steps of the columns. Under-weight
and a `Grain` above 1 break it, as said above. The assumptions of the modules are evaluated
by TLC for the constants of the runs; those of components that are instances are restated
where they are instantiated: `ComponentsOK` of `Club`, `GamesOK` of `ClubGames`, `NoticesOK` of
`ClubNotices`, `StaffOK` of `ClubStaff`, `AccessOK` of `ClubAccess`. `ClubProofs`
extends these, so that its theorems are about the very properties that the runs check. That
a table is finite is assumed where its rows are added up; no table of the database is
anything else.

None of the invariants is inductive alone. `AccountBalanced` breaks if a transaction in
flight holds amounts that do not add up to the debt it is about to overwrite, so the
inductive invariant adds `ReadsStand`: what a payment has read still splits the same debt,
and what it will write as paid is covered by what has been collected plus its own amount.
This is where the absolute writes of `pay` matter: an overwritten payment makes `paid`
smaller than `collected`, never larger. `NonNegativeStock` needs `ReadsCover`: what a sale or
a waste in flight will take is covered by what it read, however stale. With one worker the
strengthening says that what is in flight is current (`ReadsCurrent`, and `DeskInv` for the
drawers), which no second worker can disturb; only `createManual`, which is one statement,
can come in between, and it touches no row that was read. That is exactly what fails when
requests overlap.

The ledger theorems rest on one lemma, `CommitTogether`: a commit changes the totals and the
movements of a product by the same amount, and the stock too if what the transaction read
is still current. The first half is enough for the totals under any interleaving; the
second needs `ReadsCurrent`, hence one worker.

What adds up rows of several sales, payments, members or requests (`LedgerReconciles`,
`CashExplained`, `UnitsMoveOnce`, `RewardsReconcile`, `EarningsExplained`) rests on `Sums`. A
sum of the community modules is a fold, the `CHOOSE` of a recursive function on the subsets of
a set. The library's induction cannot be used for it, but that strict inclusion is well-founded
on the subsets of a finite set can: among the subsets that refute a lemma there would be one
that has no smaller one inside (`Smallest`), and taking one element out of it gives a smaller
one. So there is such a function (`AddsUpOnce`), the sum is the same in whatever order the
elements are taken (`SumAdd`), and when one row changes the sum changes by as much
(`SumChange`, `SumRows`, `SumTable`). The rest is about the code: each commit writes one row
and posts one movement, and both are worth the same. For `LedgerReconciles` and
`RewardsReconcile` this holds whatever overlaps, since the sums are of what was written and not
of what was read; a refund needs `Sound` and `Offered`: the member, the price and the reward of
a redemption never change after it was made. For the units it needs, besides, that what a
request has read of the counting is still so, or else that the reward is in `recounted`. `CashExplained` needs one worker
(`CancelsStanding`: what is about to be cancelled still stands), and that nobody corrects the
drawer by hand (`NoCorrections`), which is a difference nothing else explains.

`NoDeadlockAmongSales` is about a set of transactions that all wait for one another, of
whatever size. `LockInv` says that whoever has the lock of a product has moved it, and that a
sale waits for a product after all those it has moved. Take the sale of the set that waits for
the greatest product (`GreatestProduct`): the one that has it is in the set, has moved it and
waits for a greater one. `GoodsAndMoneyTogether` needs to know what is in flight
(`RequestsKnow`): items and payment of the sale as they are in its row, each item either moved
or still to do, and nothing of a sale that is not yet there. Two cancellations of one sale
that both passed the guard are allowed: they return goods and money twice, together.

In `Billing` each handler writes the status of tenant and subscription together, so
`StatusFollows` is inductive once rows of deleted tenants are known to be gone. `NumberIsFree`
needs `NumberInv`: every number is at most the count of the rows, and every number read but not
yet used at most one more. Counting is where finiteness comes in; the lemmas `Kept` and
`Grown` say what each kind of step does to the count, and each step is first shown to be
of one of three kinds. `PaymentInv` (the invoice a payment names is there as long as its
tenant is) keeps the type. `BilledAtMostOnce` and `StatusIsJustified` add `RunInv`: while
requests have not overlapped, the tenants that a monthly run has still to invoice have only
void invoices (which the count of those billed already does not see, because what is void
was voided), and the invoices a sync has still to work through are still due.

For the rewards the type itself needs an invariant, `Refers`: a request in flight refers to a
redemption that was made, or an overwritten status would leave a row without its fields. The
refinement needs `SerialInv`: what a request has read still stands (the reward is active and
costs what will be charged, its stock is counted or not, as it was read, the redemption is
still to be decided), points and stock are covered. Each handler then has one lemma
(`...Books`) that says which step of the book it is.

Most of the other theorems share one argument (`Alone`): while requests have not overlapped,
one is in flight at most, nobody else has written since it read, and what it has read still
stands. The work is to say what that is, statement by statement, so that a crash at any of
them leaves what is promised.

* `Access`: `EmergencyInv` (an activation has found a lock if and only if there is one, and a
  regeneration that has revoked nothing more has every active link in its list),
  `PasswordInv` (a login will open its session with the current password, and a change of it
  that has ended the sessions has left none), `FactorInv` (a verification that has checked its
  code is about a secret that was proved).
* `Chat`: a membership is a numbered row, and a request that changes a role names the row it
  found, which holds whatever overlaps; the counts of a group are those the guard has seen.
* `MemberPortal`: `CodesInv`. Whatever overlaps, the times a code has let somebody in and the
  logins that have found it are no more than the requests at once; alone, a login has found a
  code that is pending, and a request for a code has left none pending.
* `Messages`: the text a request is about to write is of a message that was there; alone, of
  one that is not deleted, by somebody who takes part.
* `Members`, `Onboarding`, `PlanModules`: what a handler has set aside is its own. A key that
  was given is in no other row, a lead in conversion has no tenant yet, the modules to be
  copied are those of the plan.
* `MemberGames`: what a request is about to add still fits (`Fits`): the play under the limit,
  the points under the cap, the mission not completed.

Two need no `Alone`, because what they promise holds whatever overlaps:

* `Staff`: `PowersInv` says that every token and every override that gives a power was given
  by somebody, whatever has become of the role since; `SeatsInv` adds the requests that have
  found a seat to the users that have one, and the sum exceeds the plan by one less than there
  are requests at once.
* `Notices`: `NoticesInv`. The lock lets one sync in at a time as long as none has outlived it
  (`~lapsed`), so that what a sync has set out to raise is still missing when it raises it, on
  whichever server.

Left to TLC:

* liveness (`EveryRequestEnds`, `Settled`) and anything about `ENABLED`, which the prover does
  not handle;
* `race_overpaid`, which is refuted.

Type invariants are stated by theorems, not by runs, where a module has one; in `ClubProofs`
they are part of the inductive invariants.

## Not modelled

* Queries and summaries for display; audit records (append-only; in the same transaction, or
  after it where nothing depends on them).
* Guards on inputs that no state of the model reflects: an active product, a third party that
  is not archived, the stated reason of a credit, cooldowns and dates of games, formats.
* Minimum and maximum thresholds of stock, which only feed display.
* Administration by single-row edits that nothing modelled reads: games and missions, support
  sessions, products, classes, third parties, settings, benefits and personal data of members.
* Keys of devices and the sockets of the chat: memory of one process, or rows which no
  handler decides anything on.
* Push messages and mail: sent after the fact, and no handler learns what became of them. The
  cache of display data; that of the notices is modelled.
* The web application, the seed and the DTOs, which are most of the repository's lines: a
  client without state of its own, example data, and declarations. This is why the lines that
  the map names are a small share of the whole.
