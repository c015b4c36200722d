# PayNex / InterNex cloud ERP: formal models

This directory holds TLA+ models of the tenant API of the PayNex ("InterNex")
point-of-sale and mini-ERP server, the TLC runs that check them, and TLAPS
proofs about them. The reference is the code under `src/`
(`src/src/PayNex.Cloud.Api/`, `src/database/`): every definition is translated
from it, and `PROJECT.json` names, for each definition, the lines it stands for.
Below, `Program.cs`, `PosSql.cs` and the scripts are short for
`src/src/PayNex.Cloud.Api/Program.cs`, `.../Services/PosSql.cs` and
`.../wwwroot/js/*.js`.

1. [The system](#1-the-system)
2. [Modules and how they follow the code](#2-modules-and-how-they-follow-the-code)
3. [Runs, bounds and fairness](#3-runs-bounds-and-fairness)
4. [Findings](#4-findings)
5. [What is proved](#5-what-is-proved)
6. [What is not modelled](#6-what-is-not-modelled)
7. [Plan](#7-plan)

## 1. The system

One ASP.NET process serves every company. A company's data is a SQL Server
database of its own; a master database holds the companies, their
subscriptions, the login state and the refresh tokens. There are no background
jobs and no queues, and apart from the rate limiter in front of them requests
share no memory: **all sharing on the server goes through SQL rows**, each
request on a connection of its own, at the default isolation level (READ
COMMITTED with locking; no script switches row versioning on). So the hard
behaviours of the server are interleavings of SQL statements, what a statement's
locks protect and for how long, what a rollback takes back, and terminals that
time out and send a request again.

The browser pages are single-threaded, but their handlers await the server, and
while one waits the clerk goes on: what an answer finds on the page is not what
was sent. The cashier page, the two invoice cards and the shared `api.js` keep
state across such waits (a cart, a save queue, a refresh in progress). Tabs of
one browser share cookies and a Web Lock.

| Component | State | Operations | Hard behaviour | What makes it correct |
|---|---|---|---|---|
| Posting frame | `NumberSeries`, header tables, unique index on `ExternalClientDocumentId` | post a sale, purchase, invoice, payment | retries racing their original, lost replies, rollback after a number was drawn | one document per client id, gap-free numbers, consistent answers |
| Stock | `Products.StockOnHand`, `StockByStore`, `InventoryLedger`, `StockTransferLines` | sale, invoice, purchase, transfer, adjust; returns, item card, package import | check-then-act without locks, three copies of one quantity, deadlocks between lines | the copies agree, locked reads hold, every request ends |
| Shifts and drawer | `Shifts`, `ShiftManagementSettings`, `CashDrawerLedger` | open, close, drawer entry, settings, the lookup made by sales and returns | documents picking a shift that closes before they commit, racing opens, a shift inserted by a transaction that rolls back | documents are in a shift that exists and is their user's, a closed shift settles |
| Returns and return orders | `ReturnHeader/Lines`, `SalesReturnOrderHeader/Lines` | return, save draft, post draft | two sums of what was returned before, line locks in request order, drafts and client ids | never more returned than sold, refunds are shares of the price, a draft posted once |
| Invoice drafts | headers with status Open; in the card a dirty version, a save queue, flags | edit, auto-save, post, delete, leave | saves overtaking each other, two clicks, a second card on the draft, lost answers | what is shown as saved is stored, one invoice per card, finished once |
| Cashier page, held sales | the cart of a till; `HoldSalesHeader/Lines` | scan, void, discount, post, hold, retrieve, duplicate | the cart changes while it is being sent; two tills take one hold; lost answers | an item is in one cart, hold or sale |
| Receivables, payables, bank | customer and vendor balances, ledgers, invoice balances, bank entries | post, pay, apply oldest first | lock order, two payments on one invoice | balance = ledger, no invoice over-applied |
| General ledger | `GLEntries`, `AccountingPeriods` | entries of every posting, reverse, close a period | reversal twice, period closing during a posting | balanced documents, closed periods stay closed |
| Expenses | `Expenses` and their G/L | create, change, delete | change of a posted expense | G/L follows the expense |
| Login sessions | `AuthRefreshTokens`, `AuthSessionAudit` (master); cookies, `api.refreshing`, Web Lock | refresh, log out, change of environment, every request's check | tabs refreshing at once, lost refresh replies, logout during a refresh | one successor per token, tabs do not end each other's login, a logout sticks |
| One-time codes, lockout | `LoginMfaChallenges`, `LoginSecurityState` (master) | sign in, verify code | parallel attempts | bounded attempts |
| Desktop and mobile access | desktop users, devices, mobile users (master) | register, block, sign in, refresh | block racing sign-in | a blocked device gets no session |
| Subscriptions | subscriptions, payments (master) | post, renew, cancel; check before posting | concurrent renewals | no extension lost |
| Item card, packages | product and stock rows | save, import | writing back stale stock | no posting undone |
| Backup and restore | history tables, files | backup, restore | failing between SINGLE_USER and MULTI_USER | database usable afterwards |
| Master data, portal, reports, front end | - | single-row edits, queries, rendering | - | - |

Interactions: a posting endpoint opens a transaction, uses `DesktopIdempotency`
for the lookup, `PosSql` for shift, number, stock and G/L, and commits; the
terminals (browser, desktop, mobile) talk HTTP and may repeat a request; the
subscription and login components are consulted before the transaction starts
and hold nothing during it. Every call of a page goes through `api.req` or
`api.fetchWithRefresh`, which refresh an expired access token and repeat the call.

## 2. Modules and how they follow the code

### `PostedRegister` - what posting promises

The abstract specification: a set of posted documents, a counter and the answers
given. `Post` adds document `count + 1`, at most one per client id;
`Acknowledge` tells a terminal a number that is in the register. No workers, no
locks, no failures.

### `NumberedPosting` - the transaction frame

One document table with its series. `tx[w]` is the request a connection is
executing: `find -> number -> insert -> commit -> respond`.

| Definition | Code (POS sale as the pattern) |
|---|---|
| `Begin` | permission and cart checks, connection, `BeginTransaction` (Program.cs 3100-3115) |
| `FindExisting`, `LookupWaits` | `DesktopIdempotency.FindPosSaleAsync`: a plain SELECT, waits for an uncommitted row, keeps no lock |
| `NextNumber` | `PosSql.NextNumberAsync`: `UPDLOCK,HOLDLOCK`, so `seriesOwner` lasts to the end |
| `InsertHeader`, `DuplicateKey` | the header INSERT against the UNIQUE number and the filtered unique index on the client id |
| `Commit` | lines, stock, payments, ledgers, G/L and the commit, seen from outside as one step |
| `Rollback`, `Undo` | the `catch` block, a deadlock victim, a timeout, the process dying |
| `Respond`, `LoseReply` | the OK reply arrives or not; the terminal may `Begin` the same id again |

A transaction's writes are invisible until it commits because its rows are
locked; so `Commit` applies them and `Undo` needs only to drop them. Other
requests' waiting for those rows is in the guards of `NextNumber` and
`FindExisting`. The INSERT's wait for an uncommitted duplicate key needs no
guard of its own: only the owner of the series reaches it.

The five endpoints that have this frame are the POS sale, the purchase, the
sales invoice, and the customer and vendor payments. A purchase or invoice that
posts an existing draft keeps the draft's number; that path is not in this
module. Drafts draw from the same series as the documents they become
(`InvoiceDraftEndpoints.cs:103` and `238`: SALES_INVOICE, PURCHASE_INVOICE), and a
draft can be deleted, which leaves a gap. **`NumbersGapFree` therefore does not
speak of the SALES_INVOICE and PURCHASE_INVOICE series**; it speaks of those that
only posting draws from (POS sales, customer and vendor payments).

### `StockPosting` - stock, statement by statement

Each handler is a **script** of the SQL statements that lock or move stock, in
the order the handler runs them (`PosSale`, `SalesInvoice`, `Purchase`,
`Transfer`, `Adjust`); `tx[w].done` says how far it is. `owner` maps the rows of
`NumberSeries`, `Products` and `StockByStore` to the transaction holding them.
Pending writes are kept as differences in `tx[w].pend` and added by `Commit`;
`Undo` forgets them. An update lock (`reserve`, `count`) lets readers pass until
the row is written (`OnlyReserved`). A circle of waiting requests enables
`Victim`. Definitions marked external in the map are the lock manager of SQL
Server, modelled from how the statements use it.

What is abstracted: header, line, payment and G/L inserts (new rows that nobody
else waits for), prices and costs, the customer's row, and rows of `StockByStore`
that do not exist yet being locked by range.

### `PosShift` - the shifts of one store

`shift[s]` is a row of `Shifts`, uncommitted ones included (`maker` is the
transaction that inserted it and has not committed). Documents follow
`EnsureOpenShiftAsync` (`PickPreferred`, `EnsureOpenShift`, `InsertShift`), then
write their header (`WriteHeader`, serialised by the number series of their
kind) and commit. `open`, `close` and `cash-drawer` are batches without a
transaction: every statement commits by itself, so they are separate actions.
`SumPart` is one subquery of the expected cash; the order in which SQL Server
evaluates the three is left open. A refused request (shift management on and no
open shift, no shift to close) simply ends.

A request named by a terminal takes the newest shift of its user that it can
see; `NextShiftId` is the identity column.

What is abstracted: stock, accounts and the second cash count (`ClosingCash`).
A row undone by a rollback stays in the function as `"undone"` so that the
invariants can say that nothing refers to it; identity values are not reused by
SQL Server either.

### `SalesReturns` - goods that come back

`posted[l]` sums the rows of posted returns of a line: quantity, refund and how
many rows. `tx[c]` is a clerk's transaction: `begun -> lines -> ending`.

| Definition | Code |
|---|---|
| `TakeNumber` | `POST /api/returns` draws its RETURN number before it reads anything: the series is what keeps two POS returns apart |
| `LookUp` | a post whose client id is known is answered with the order that has it |
| `TakeLine` | a return order reads each invoice line `WITH (UPDLOCK,HOLDLOCK)` in the order of the request; both kinds subtract what was returned before, including the rows they inserted themselves |
| `Refund` | `Math.Round` of the line's share of the price to cents; a half may go either way |
| `FinishPos`, `FinishOrder` | header, rows and commit; `MaySave` is the guarded UPDATE of an open order or the unique index on the client id |
| `Fail`, `Victim` | a failing statement; the deadlock monitor |

What is abstracted: the stock, balance and G/L rows that the commit adds
(components of their own), prices beyond a line's total, reasons and dates.

### `DraftLife`, `InvoiceCard` - drafts and the cards that write them

`DraftLife` is the abstract specification: an invoice is rewritten while open,
then posted or deleted once, and never touched again.

`InvoiceCard` has both ends. `card[c]` is the script's state of one page
(`invoiceId`, edit version, saved version, timer, the promise chain of
`saveDraft` as a queue, clicks on Post waiting for that chain, the flags),
`requests` is what is between page and server, `rows` the headers. An event of
the page runs to its end with the continuations it triggers, so it is one
action (`Run` starts the jobs that have become due). On the server the header is
locked by the first statement that touches it, so `Update`, `Insert` and
`Refuse` are one step each. `Lose` drops an answer before or after the request
was served. Sales and purchase cards run the same code except where a customer
or vendor is missing (`TakenForSaved`, `postWithoutVendor`) or lines are
(`Lineless`).

A page has its customer or vendor or has not (`party`), and has lines or has not
(`lined`); edits give and take away both. `saveDraft` is what a save does: it is
run by the timer (`AutoSave`) and by the purchase card's Save button. A sales card
without an invoice and without lines returns "saved" and sends nothing
(`sales-invoice-card.js:394`). A request tells the server whether it has what the
server asks for first (`acceptable`, `InvoiceDraftEndpoints.cs:27-28`).

What is abstracted: content is "how many edits it contains"; what posting writes
besides the header is in `NumberedPosting` and `StockPosting`. That the server
finds and locks an Open draft in one statement is taken as it is, in one step: that
of two clerks who post one purchase draft only one finishes it is checked for the
order of the two steps, not for the lock race inside them.

### `CashierPos` - the cashier page and held sales

An item is one scan, a cart a set of them. Of a cart's lines `plain` are those
without their product's tax rate (they came back from a hold or a duplicated bill),
`off` those discounted whole, `free` those whose price was set to zero. Clerk
actions carry the names of the script's functions (`voidLine`, `cancelBill`,
`openDiscountAmt`, `openPriceOverride`, `postSale`, `holdSale`, `retrieveSale`,
`duplicateBill`). A call is sent, served
(`PostSales`, `PostHold`, `PostRetrieve`, `RefuseShort`, `Refuse`: one transaction
each) and answered (`Sold`, `Held`, `Retrieved`, `Failed`), and the answer acts on
whatever the till shows by then. `Tender` is the top-up of `postSale`.

The two sides add up a bill in their own ways. `Subtotal` is the till's
(`lineCalc`, `pos-cashier.js:44-65`): the line's own tax, discount and price.
`GrandTotal` is the server's (Program.cs:3146-3157, `PosSql.cs:215-233`): the
product's tax, the discount only if the product takes one (`NoDiscount`), the sale
price for a price that is not above zero, and no invoice discount. `Agrees` says
that a bill has none of the four terms they differ in.

`excused` is history: items that met one of the races that the code leaves open
(scanned or loaded into a cart that is being sent, taken out of one, sent twice,
replaced by a loaded cart, answer lost). They are listed in `Accounted`, which
says that there are no others. `Sold` puts together the clearing of the cart and
the end of posting; the invoice report opened between the two is left out.

What is abstracted: a line is discounted whole or not at all, and its price is
zero or the sale price (any other price above zero and any partial discount is
taken alike by both sides); quantities; a product's settings do not change between
a scan and the post. Cents are left out: the till rounds a half up (`Math.round`,
`pos-cashier.js:4`), the server to even (`Math.Round`), so on 2.50 with 5% off they
are a cent apart (2.37 and 2.38), which can refuse a topped-up sale as well.
Discounts below zero, which the input's `min` (`pos-cashier.html:36`) asks not to
be typed and nothing else prevents, are left out too.

### `AuthSession` - tabs, refresh tokens, logout

An access token and a refresh token are issued together, so a number stands for
the pair. `call[c]` is one call of a page, `refresh[t]` the shared refresh of a
tab (`api.refreshing`), `locks` the queue of the Web Lock. On the server
`RotateRefreshToken` is one step (serializable, row locked); the other database
accesses of refresh, logout and change of environment are steps of their own
(`CheckSession` after `Rotate`, `RevokeOld` after `Serve`), since each commits by
itself. `Age` lets a token expire; `CallFailed` and `RefreshFailed` are a `fetch` that
throws and every error answer but 401, such as the 429 of the rate limiter that
all clients of an address share (Program.cs:49-62), which `api.refresh` takes like
a lost answer; `LoadPage` is the page route (Program.cs:173-203), which sends a tab
with an expired access token to the login page without trying a refresh; `Login`
is the next sign-in. `upset` and `out` are history for the properties.

What is abstracted: device binding, administrators' locks on tokens, the clock
(a token is fresh, stale or lapsed). A page is loaded when the requests of the page
it replaces have ended, unless it goes to the login. Pages whose own start-up code
goes to `login.html` when `/api/me` fails for any reason (for example
`sales-invoice-card.js:85-88`) are outside the model, and so outside
`NoSpuriousLogout`.

### Instances

The modules `MC...` give the constants their values; the `.cfg` files choose the
properties.

Each module also holds the *mutants* of its actions (marked "mutant" in a
comment): the action with a plausible mistake in it. No specification uses them.
They are there to be put in the place of the action they follow; TLC then finds
the property named in `PROJECT.json` violated, which shows that the property
says something about the code.

## 3. Runs, bounds and fairness

| Run | Question | Result |
|---|---|---|
| `numbered_posting` | 3 requests, 2 client ids, 1 document without one; failures and lost replies at every point | all hold; 39,770 distinct states |
| `stock_posting` | 2 connections, 2 stores, 2 products, 8 requests of all 5 kinds, 3 per behaviour | all hold; 16,093 states |
| `pos_only` | 3 connections, POS sales and purchases only, 4 per behaviour | stock never negative; 9,235 states |
| `pos_shift` | 3 terminals, 2 users, 5 kinds of request, settings changing, 3 requests per behaviour | all hold; 221,331 states |
| `cashier` | 2 tills, 2 scans (one taxed, one that takes no discount), line discounts, zero prices, 2 calls under way, 2 sales or holds, lost answers | all hold; 1,391,447 states |
| `invoice_card` | a card on a new invoice, or on a draft another card may delete; 2 or 3 edits, 2 queued saves, a lost answer | all hold; 209,549 states |
| `auth_session` | 2 tabs, 3 callers, 3 calls or page loads, 2 logins, 1 failed or lost request, 2 expiries | all hold; 356,298 states |
| `sales_returns` | 3 clerks, POS returns, drafts and posted orders over 3 lines, 4 requests | all hold; 29,436 states |
| `stock_oversell` | a POS sale and an invoice want the last piece | violated, see findings |
| `shift_drawer` | one terminal, a sale with change, a close | violated, see findings |
| `cashier_tender` | a till's own top-up against the server's total | violated, see findings |
| `card_vendor` | a purchase card without a vendor | violated, see findings |

**`numbered_posting`.** `OneDocPerClientId`, `SameAnswer` (what retries see),
`NumbersGapFree` and `FreshNumber` (what the series lock gives),
`RefinesRegister` (the whole frame implements `PostedRegister`) and the liveness
property `EventuallyAcked`: if failures and lost replies stop, every client
document gets posted and acknowledged, even one whose first reply was lost.
Three workers are a retry, its original and a stranger; two ids let the stranger
be another client document. `MaxCloud = 1` bounds the documents without a client
id, which never repeat.

**`stock_posting`.** `StoreLedger`, `CompanyLedger` and `TransfersBalance` relate
the three records of stock; `LockedReadHolds` compares what a transfer or
adjustment read with what is true at its commit; `EveryRequestEnds` says waiting
and deadlock end. The instance holds a store without a row for one product, the
same two lines in both orders (so that deadlocks happen), and an adjustment of a
row that sales decrement. Two connections give every pairwise interleaving; with
row locks held to the end, three requests per behaviour let a third start after
one of the two has committed. `CHECK_DEADLOCK FALSE`: when `MaxRequests` have
been begun the model stops.

**`pos_only`.** The stock check takes no lock, yet the POS series was taken just
before and is kept to the commit, so among POS sales check and update cannot be
separated. `NoNegativeStock` holds under the condition `TillsOnly`, which
`MCStockPosOnly` assumes of its instance and so has checked: nothing but POS sales
and purchases, every product sold with a row in the store, no product twice in a
cart, and no opening quantity below zero.

**`pos_shift`.** `OpenShiftsBounded`: racing opens can give a user several open
shifts, but not more than the terminals the user is signed in at.
`DocumentsHaveShift`: nobody uses a shift inserted by a transaction that has not
committed, so a rollback leaves no document without a shift.
`ClosedShiftsSettle`: a document may land in a shift closed since it was picked
(the code allows it), but once no running request holds it the shift is final.
`DocumentsInOwnShift`: the shift a client names is checked against the user, and
with shift management on no document makes a shift. `EveryRequestEnds`: closes
wait for documents, lookups for inserted shifts, never for each other. Two
terminals of one user and one of another are the least that show races within a
user and between users.

**`cashier`.** `Accounted`: every item scanned and not taken out is in exactly one
cart, hold or sale, except in the listed races. `ShortTenderExplained`: a sale that
the till topped up is refused as underpaid only if the bill has an invoice discount,
a line that lost its tax, a discount on a product that takes none, or a price of
zero (and, outside the model, by cents of rounding). `TillFreesUp`: the posting flag
falls. One till is a counter that scans, discounts lines, posts, holds and
duplicates, the other takes its holds over, overrides a price and posts: both
directions of a race between tills occur, and a till races with itself through two
calls under way. Two items are the least that can be in two places; one is taxed and
the other takes no discount, because these are what the two bills disagree about.

**`invoice_card`.** `SavedIsStored`: a card that shows no unsaved edit has it on
the server, so saves do not overtake each other and an answer marks only what it
carried. `OneInvoicePerCard`: queued saves and two clicks on Post make one
invoice. `RefinesDraftLife`: whatever cards send, an invoice is finished once.
`EditsSettle`: while a card has its customer or vendor, and a sales card a line,
an edit gets saved, or the page is left, or the card says that something failed.
Of a sales card without a line it promises nothing, because the code does not: a
new one returns "saved" and sends nothing (`sales-invoice-card.js:394`), and when
its last line is removed and the timer fires while the first save is still under
way, the removal is not sent by itself. The starts are a new sales invoice (`c1`), a
new purchase invoice (`c2` or `c3`), and a draft (`c2` or `c3`) that a second card
(`c4`) has open and may delete. `c1` has three edits, so that customer and line
come and the line goes again; the others have two, enough to tell an answer for the
first from one for the second. `c1` and `c2` lose answers, `c1` and `c3` leave. A
queue of two lets a save wait for one that is being sent; three rows leave room for
a second invoice to appear. `CHECK_DEADLOCK FALSE`: all cards may have been left.

**`auth_session`.** `OneLivePerChain`: a refresh token has one successor.
`NoSpuriousLogout`: tabs and callers that refresh at once do not end each
other's login (with `WebLocks = FALSE` they do, and TLC shows it): neither
`api.js` nor the page route sends a tab to the login page unless somebody logged
out, a request failed or was turned away or its answer was lost, a refresh token
lapsed, a page was loaded with an expired access token, or a change of environment
revoked the token of a refresh under way.
`LogoutSticks`: after an answered logout nothing is admitted before the next
login, outside the race it names. `CallsEnd`: nobody waits for the lock or a
refresh for ever. Two callers share a tab, a third is in another; `html` is a
caller of `fetchWithRefresh`, which does not go to the login page. Two expiries
let an access token expire, be renewed, and expire again, or a refresh token
lapse. `CHECK_DEADLOCK FALSE`: the users may stop.

**`sales_returns`.** `NeverOverReturned`, `RefundsAddUp` (each row adds at most
half a cent of rounding), `PostedStays`, `CreditedOnce`, `RequestsEnd`. The
requests return parts of one sale line by two clerks and twice in one request,
take two invoice lines in opposite orders so that deadlocks happen, save an
order that two post, and send one order twice with its client id. A client id is
always sent with the same order, as an application does that sends its request
again: the condition `OneOrderPerId`, assumed in `MCSalesReturns`.
`CHECK_DEADLOCK FALSE`: after `MaxRequests` the clerks stop.

**Fairness.** Weak fairness of the steps of a request: the thread pool and SQL
Server run each request on. In `NumberedPosting` strong fairness of
`NextNumber`, because lock waiters are served in turn, and of `Begin` for each
client document, because a terminal keeps a document in its queue and sends it
until it is acknowledged. `Rollback`, `Fail` and `LoseReply` carry no fairness,
and nothing forbids them for ever except the premise of `EventuallyAcked`. In
`StockPosting` the deadlock monitor (`Victim`) is part of the fair step. In
`CashierPos` each call (by its id) is served and delivered: the server ends every
transaction and `fetch` ends every call, with an error if need be; clerks owe
nothing. In `InvoiceCard` the same per card and kind of request, and the timer
of 0.8 s fires. In `AuthSession` a caller's and a tab's next step is taken by
server, browser and Web Lock; nobody has to start a call, sign in or let a token
expire. In `SalesReturns` taking the series and a line are strongly fair, because
SQL Server grants a lock to its waiters in turn, and some victim of a deadlock is
chosen.

**Assumption on the database.** The models assume locking READ COMMITTED, the
default of SQL Server on a host of one's own as in `src/deploy`. With row
versioning switched on (a choice of the database, not of this code) readers
would see the last committed row and not wait; the guards `LookupWaits`,
`FindWaits` and `Readable` are where the models would change.

## 4. Findings

* **`stock_oversell`.** `docs/FULL_FUNCTIONAL_REQUIREMENTS.txt:288`: "Negative
  stock should be blocked if enabled in posting setup." The setting defaults to
  on and no posting endpoint reads it. `POST /api/sales-invoices/post` checks
  stock (Program.cs:5089-5090) before it takes any lock, and its series does not
  exclude POS sales; two documents for the last piece both pass and the quantity
  becomes -1.
* **`shift_drawer`.** `docs/FULL_FUNCTIONAL_REQUIREMENTS.txt:24`: "System should
  calculate expected cash." The close (Program.cs:3581) adds up
  `PaymentLines.Amount`, the cash *tendered*; the change handed back is stored in
  `SalesHeader.ChangeAmount` and not subtracted, so an honest drawer shows a
  shortage equal to the change.
* **`cashier_tender`.** The comment at `pos-cashier.js:806-807` says "API requires
  paid >= grand total." and "Cash/Bank/Card: if short, top up to bill total". The
  bill it tops up to is the till's own: it subtracts an invoice discount that the
  request does not carry, and prices retrieved or duplicated lines without tax
  (705-713, 757-767); it also takes a line discount off a product that allows none,
  and takes a price of zero as it is. The server's total (Program.cs:3146-3157,
  `PosSql.cs:215-233`) is higher and the sale is refused with "Paid amount is less
  than grand total."
* **`card_vendor`.** `purchase-invoice-card.js:203` tells the clerk that "The
  invoice has been saved as an Open draft." when `saveDraft` returned true;
  without a vendor it returns true at 151-152 without sending anything.

Two more disagreements are described by the modules and have no run:

* `src/LOGIN_LOGOUT_AUTH_SECURITY_ENHANCEMENT_20260712.md:12` says "Logout closes
  the server session, revokes the refresh token, clears authentication cookies,
  and requires a new login." The handler (Program.cs:2146) closes the session
  only if the access token has not expired, and revokes the token of its cookie,
  which a refresh under way may just have replaced. `LogoutSticks` excuses exactly
  that case (`out = "slipped"`).
* A return order saved as a draft with a client id and then posted with the same
  id is found by the lookup (`SalesReturnOrderEndpoints.cs:97-105`) and answered as
  already posted while it stays Open. `LookUp` models it; `CreditedOnce` is about
  the other direction.

Further suspicions met while reading are in `PROJECT.json` under `hazards`.

## 5. What is proved

All theorems hold for every value of the constants that meets the module's named
assumption: any number of terminals, tills, tabs, cards, products and requests.
`StockPostingAssumption` asks for a finite set of stores, which are rows of a
table. Three theorems have one more condition, in their statement: `TillsOnly`,
`OneOrderPerId` and `WebLocks`. Every invariant and action property that a passing
run checks has its theorem.

Each component's proofs are in `<component>_proofs`. Their form is the same:
`IInv` is an inductive strengthening, one lemma shows it in the initial states,
one step per action shows that it is kept, and the properties follow. TLC agreed
with every strengthening on the instances before it was proved.

| Module | Theorems (property) |
|---|---|
| `NumberedPosting_proofs` | `TypeCorrect` (TypeOK), `AtMostOnce` (OneDocPerClientId), `GapFree` (NumbersGapFree), `NumbersAreFresh` (FreshNumber), `AnswersAgree` (SameAnswer), `Refinement` (RefinesRegister) |
| `StockPosting_proofs` | `TypeCorrect`, `StoreStockIsLedger` (StoreLedger), `CompanyStockIsLedger` (CompanyLedger), `TransfersAddUp` (TransfersBalance), `LockedReadsHold` (LockedReadHolds), `TillsNeverOversell` (NoNegativeStock, if TillsOnly) |
| `SumTheorems` | what a sum over a finite set is, for `StockPosting_proofs` |
| `PosShift_proofs` | `TypeCorrect`, `OpeningsBounded` (OpenShiftsBounded), `RollbackLeavesNoOrphan` (DocumentsHaveShift), `OwnShift` (DocumentsInOwnShift), `ClosedIsFinal` (ClosedShiftsSettle) |
| `SalesReturns_proofs` | `TypeCorrect`, `NothingReturnedTwice` (NeverOverReturned), `RefundsAreShares` (RefundsAddUp), `PostedOrdersStay` (PostedStays), `ReturnCreditedOnce` (CreditedOnce, if OneOrderPerId) |
| `InvoiceCard_proofs` | `TypeCorrect`, `Refinement` (RefinesDraftLife), `OneInvoice` (OneInvoicePerCard), `ShownIsStored` (SavedIsStored) |
| `CashierPos_proofs` | `TypeCorrect`, `ShortTender` (ShortTenderExplained), `Accounts` (Accounted) |
| `AuthSession_proofs` | `TypesHold` (TypeOK), `OneSuccessor` (OneLivePerChain), `LogoutHolds` (LogoutSticks), `TabsSpareEachOther` (NoSpuriousLogout, if WebLocks) |

**`NumberedPosting`.** `NumberedPosting_proofs` holds for **any** set of client ids,
any bound `MaxCloud` and any finite set of workers, from `NumberedPostingAssumption`
(`Nobody` is not a worker, `NoId` not a client id).

The properties are not inductive by themselves: `NumbersGapFree` survives a
commit only because the number committed is the next one, and
`OneDocPerClientId` only because the index check made by the INSERT is still true
at the commit. The strengthening `IInv` adds three facts:

* `HolderNext`: whoever is between drawing a number and committing owns the
  series, and its number is `lastNumber + 1`. Hence at most one request is there.
* `InsertStillUnique`: while a request waits to commit a document with a client
  id, no committed document has that id: nobody else can have committed since,
  because a commit needs the series.
* `AnswersArePosted`: what is about to be answered, or was, is a header row.

`InitIInv` and `StepIInv` (one step per action, under it one per conjunct)
give `Inductive == Spec => []IInv`. From it follow `TypeCorrect`, `AtMostOnce`,
`GapFree`, `NumbersAreFresh`, `AnswersAgree` and `Refinement`: each step of
`NumberedPosting` is a `Post`, an `Acknowledge` or a stutter of
`PostedRegister`.

**`StockPosting`.** `StoreLedger` speaks of committed rows; a commit keeps it only
if what the transaction is about to add to a store's stock is what it adds to
the ledger and the transfers (`Booked`), and if it still holds the rows it is
going to write (`HoldsWrites`). `LockedReadHolds` needs that the quantity a
transfer or adjustment read is still in the row because the row has been locked
since (`TransferOK`, `AdjustOK`), and a row that had to be made first exists
(`rowed`).

`CompanyLedger` and `TransfersBalance` add up over the stores (`SumFunctionOnSet`,
a fold). `SumTheorems` proves what they need of such a sum: it does not depend on
the order, a sum of sums is the sum, a change at one point changes it by as much.
The induction over the size of a set is one over a *set* of numbers and so needs
no operator as a parameter. In the middle of a script the sums do not agree yet:
what the company's stock is short of its ledger is `Due`, the product's update
still to come, and what a transfer has taken from one store and not put into the
other is `OnItsWay`; both are nothing at the end of a script, when it commits
(`SumsInv`).

`NoNegativeStock` under `TillsOnly`: from drawing the POS number to its commit a
till has the series' row, so no other till commits, and purchases only add; what
the till's check saw is still there at least (`SaleOK`), and a product named once
is taken once. Neither condition can be dropped: an invoice checks before it
locks (`stock_oversell`), and a product named twice is checked twice against the
same quantity.

**`PosShift`.** Per request `WorkerOK`: it runs with a known request, the shift
it has picked exists and is no other transaction's uncommitted one (`HasRow`), and
is its user's (`OwnRow`). Per shift `RowOK`: its maker is a document that is being
written into it. `OpenShiftsBounded` is not inductive; `Counted` adds the requests
between finding no shift and inserting one: open shifts plus those are at most the
terminals of the user.

**`SalesReturns`.** The strengthening relates what a transaction has counted to the
lock it was counted under: whoever has taken a quantity of an invoice line holds
the line, whoever is past the number holds the RETURN series; so `posted` plus
what the holder has taken stays within `Sold`, and the two sums cannot both be
taken. The refund bound is carried through the rows of the transaction and the
rows posted. `CreditedOnce` rests on `CreditOK`, for each client id: it has at most
one credit, and once it has one either a saved order bears the id or the order it
is sent for is posted; `LookUp` and the unique index refuse it in the first case,
the order's status in the second. With two orders under one id the
second could be credited as well, which is why `OneOrderPerId` is a condition.

**`InvoiceCard`.** Types plus `OneSave`: a page awaits at most one save, and then
its queue is not empty. The refinement shows that `Update` and `Insert` are a
`Save` or `Finish` of `DraftLife` and every other step a stutter.
`OneInvoicePerCard` rests on `MadeInv`: at most one request of a card can still
make an invoice, and none once one was made. That survives an answer only because
a page without an invoice has a single request out (`Fresh`): a save at the head
of its queue, or a post sent from an empty queue with the flag raised.
`SavedIsStored` rests on `StoredInv`: a save not yet done carries at least what is
already saved, so it cannot take an edit back, and a save that was done left in
the row at least the edit its answer will mark as saved. For a page that was left
only its unanswered saves matter.

**`CashierPos`.** For an item that met none of the races: what is being sent covers
the cart it was sent from (`Covered`), two storing calls of a till share no item
(`Sole`), what a pending call may still store is still in the cart (`Kept`), and
the item is nowhere if not scanned, gone if dropped, and else in one located
place. `Accounted` counts those places. `ShortTender` compares the two bills: on
one that `Agrees` the server's `GrandTotal` is the till's `Subtotal`, so what the
till tops up to is enough; and a call that is still out was sent with the bill it
was topped up to.

**`AuthSession`.** For `OneLivePerChain`: all but the last token of a chain are
revoked, and a pair in the cookies, a call or a refresh exists (`TokensOK`,
`HoldersOK`). For `LogoutSticks`: after a logout neither the cookies nor a request
that can still set them holds a token of an open session, and a session closed
once stays closed (`OutInv`). For `TypeOK`: a tab is in the queue of the lock
just while a refresh of its page is under way (`LocksOK`, from what `RemoveFirst`
and `Append` do to a queue without repetitions).

`NoSpuriousLogout` says nothing of tokens, and its strengthening is about little
else. Until something happens that may end the login (`upset`), `Calm` holds:
only the head of the lock's queue has a refresh out; the token it presents is not
revoked (`SentUsable`); the token of the cookies is revoked only while a refresh or
a change of environment is bringing its successor (`JarUsable`); and that
successor is in no cookie and no request yet, so that nobody can revoke it first
(`NewUnseen`). Sending a refresh needs all four: it has the lock, so no other
refresh is out, and no change of environment is under way, so the cookies are
good.

**Only model-checked.** Liveness (`EventuallyAcked`, `EveryRequestEnds`,
`TillFreesUp`, `EditsSettle`, `CallsEnd`, `RequestsEnd`): fairness is out of the
prover's reach. The four findings are TLC's counterexamples.

## 6. What is not modelled

The components without a module are listed in `PROJECT.json` with the reason.
Left out for good: reports, dashboards and HTML (they only read), rendering in
the browser, parsing of spreadsheets and images, e-mail, single-row master data
edits, and the browser's lists and one-request cards, which keep nothing that
outlives a request. `src/src/*/bin` holds build copies of the scripts; only the
originals are mapped.

Within modelled components: a return's stock, balance and G/L rows; the shift a
hold looks up and its HOLD number; the counted cash of a close; the sweep of a
user's tokens by password reset and block; quantities, customers, and prices and
discounts of a cart other than whole ones.

Most of the modelled code is the C# of the server (`Program.cs` and `Services/`)
and four scripts; by lines of JavaScript alone the modelled share is small,
because most scripts render lists and cards.

## 7. Plan

In order; each line a module, its instance, its properties and what to prove.

1. `Receivables`: customer row, invoice balances, payment application, G/L of
   each; the lock order against `NumberedPosting`'s series (deadlocks are broken,
   nothing is half done). Balance = ledger; no invoice applied beyond its amount.
   G/L reversal and closed periods belong here; a run for the second reversal.
2. `Subscriptions`: post, renew, cancel against the posting gate; two renewals at
   once.
3. One-time codes and lockout beside `AuthSession`: attempts bounded under
   parallel requests.
4. Held sales as users of `PosShift` (a hold looks a shift up); item
   card and package import as writers of `StockPosting`; stock of returns.
5. Restore: SINGLE_USER, RESTORE, MULTI_USER with failures in between.
6. Proofs: the refinement of `DraftLife` and `PostedRegister` one level further,
   once `Receivables` exists; the safety of each module above as it is written.
