# Tap-Tamak: specifications, model checking and proofs

The backend in `src/` is a NestJS service over PostgreSQL (Prisma). Customers fill a
basket with dishes of home cooks and check it out. The checkout makes one order per cook. An
operator confirms the payment, the cook accepts and cooks, the customer confirms the delivery.

There is no scheduler, queue, timer or background job: everything that happens is a request of a
customer, a cook or an operator. What makes the system hard is that **requests overlap**: handlers
read a row, check it, `await`, and write by id, mostly outside a transaction. That, and
requests that are cut short between two statements, is what the models are about.

## 1. Inventory

Paths are relative to `src/src/`.

| Component | State | Operations | Interactions | Hard behaviour | What makes it correct |
|---|---|---|---|---|---|
| Order lifecycle, `modules/order/order.service.ts` | `Order` rows (status, payment status, stamps, reason, preparation time), `Notification` rows | cook: accept, reject, advance, cancel; customer: accept/reject delivery, cancel; operator: patch, force status, payment status, mark paid, cancel | rows made by checkout; notifications to customer and cook | every handler decides on a stale read; `CONFIRMED` has two meanings; "mark paid" reads twice | no kitchen before payment; stamps present; notifications true; a paid order leaves the payment queue; delivery only through the kitchen |
| Basket, `modules/basket/basket.service.ts` | `Cart` (one per user), `CartItem` | add, update quantity, remove, clear, get | reads dishes; checkout deletes the cart | lost updates and duplicate lines in `addItems`; several statements without a transaction in `removeItem` and `clearCart` | lines have their cart; one cart per customer; no empty cart left; units are conserved |
| Checkout, `modules/order/order.service.ts` | none of its own | prepare (reads only), create, create with photo | reads cart, dishes, cooks; writes orders and items; deletes the cart; stores a photo | cart read before the transaction; retries and double taps | a line is ordered once; one order per cook; what is ordered is what was in the basket |
| Pricing and commission, `common/order-commission.util.ts` | none | floor commission per order, aggregate commission, checkout sums | used by checkout, order views, statistics | three places of rounding | payout + commission = food subtotal; bounded differences |
| Cook profile, `modules/cook/cook.service.ts`, `cook-availability.util.ts` | `Cook` row, profile image | schedule, profile image, public lists | availability gates checkout | overlapping image uploads | the stored path names a file; the list, the filter and the page agree |
| Cook verification, `modules/cook/cook-verification.service.ts` | `CookVerification` row, files, status | submit, approve, reject | creates the `Cook` row if missing; files | old files removed before the new row is written | the row's paths name files that exist; a reason is shown for rejections only; no verdict without documents |
| Stored files, `core/storage/storage.service.ts`, `modules/gallery` | files below `uploads/` | save, remove (missing files are ignored), list | rows name files | no transaction spans files and rows | no row names a removed file; a replaced file is removed |
| Dishes, `modules/dishes/dishes.service.ts` | `Dish` rows, images | create, update, delete | basket and order items refer to them | image swap against a stale row; foreign keys | as for files; dishes in orders keep their rows |
| Menus, `modules/menus/menus.service.ts` | `Menu` (unique cook and date), its dishes | create, update, delete | dishes | count, then write | one menu per cook and day; only the cook's own dishes |
| Accounts and sessions, `core/auth` | `User.passwordHash`, `User.refreshToken` | register, login, refresh, logout, change password | tokens gate every request | refresh against logout or password change | who has logged out, and who is inactive, has no token |
| Users and deletion, `modules/users/users.service.ts` | `User`, addresses, avatar | profile, avatar, delete account | carts, orders, dishes, verification, files | active-order check before the transaction | no deletion while an order is active; nothing left on offer; rows that are referred to stay |
| Moderation, `modules/moderation/moderation.service.ts` | `ContentReport`, `UserBlock` | report, block, unblock, resolve | hides dishes, suspends cooks and users | find-then-create; block and report in two steps | one pending report; sanctions are on the record; blocks are reported |
| Cook leads, statistics, order gateway, HTTP frame | lead rows; none; none (all code commented out); none | insert; read; -; - | - | - | not modelled, see section 8 |

## 2. Modules

| Module | Role | Code |
|---|---|---|
| `OrderLifecycle` | abstract: an order's status and payment move in indivisible steps | what `order.service.ts` promises when requests do not overlap |
| `OrderService` | detailed: sessions read and decide, `Commit` writes | every state-changing handler of `order.service.ts` |
| `Basket` | abstract: units of dishes in baskets, units ordered | what basket and checkout promise when requests do not overlap |
| `BasketService` | detailed: carts, lines, requests statement by statement | `basket.service.ts` |
| `Checkout` | composes `BasketService` with the checkout | `createFromCart`, `createFromCartMultipart`, `resolveCheckoutGroups` |
| `Pricing` | operators: commission, payout, totals | `order-commission.util.ts`, `computePricingForItems` |
| `Receipts` | composes `Pricing` with carts, orders and prices that change: amounts, saved addresses, dashboards | `resolveCheckoutGroups`, `createFromCart`, `persistCheckoutAddress`, `stats.service.ts` |
| `FileLife` | abstract: a file is saved, named by a row, removed | what `StorageService` is used for |
| `StoredFiles` | detailed: pictures on disk against the rows that name them | `storage.service.ts`, the handlers that save and remove pictures, `gallery.service.ts` |
| `CookVerification` | a cook's application, its documents and the verdict | `cook-verification.service.ts`, and what moderation and deletion do to its rows |
| `Menus` | menus while dishes come and go | `menus.service.ts` |
| `Storefront` | who is listed, flagged as available and has a page | `cook.service.ts`, `cook-availability.util.ts` |
| `AccountDeletion` | `deleteAccount` among carts, checkouts, orders and dishes | `users.service.ts`, `dishes.service.ts` |
| `Accounts` | `User` rows and their refresh tokens | `core/auth/auth.service.ts`, `users.service.ts` |
| `Moderation` | reports, blocks, resolutions | `moderation.service.ts` |
| `Sums` | lemmas about sums over finite sets, which money and units are | - |
| `MC...` | values and bounds for TLC | - |
| `...Proofs` | theorems about the module they are named after; `CooksProofs` and `AccountsProofs` about the three that `MCCooks` and `MCAccounts` check | - |

Three refinements are checked: `OrderService` implements `OrderLifecycle` and `Checkout` implements
`Basket` with one session (requests that do not overlap), `StoredFiles` implements `FileLife` with any number of
sessions. All three are proved as well.

Several handlers touch tables of several modules (deleting an account touches nearly all). Each module then has
the part of the handler that concerns its state, in the handler's order, and names it after the handler; two
modules never say different things about one statement.

### What the modules have in common

* A request is a **session** that moves through the phases of its handler. A step is what happens between two
  awaits that matter: a read with the checks on what was read, or a statement (or transaction) that
  commits. What a session carries from one step to the next is what the handler keeps in local variables, so that it
  is stale by the time it is used. A refused request takes no step: it changes nothing.
* A request that is cut short (the process ends, the database refuses a statement) is `Fail`: the session is idle
  again and what was committed stays.
* Two **history variables** say how much went wrong so far: `overlapped` (something was done while
  another request was under way) and `cut` (a request was cut short). No action reads them. Some properties are
  promises only in their absence and say so in a premise (`~overlapped => ...`). One run thereby
  shows both what holds in any case and what holds when requests come one at a time.
* Operators named `X_...` with the comment "Bug variant" are not part of the specifications: each
  is what a plausible mistake in `X` would be, and the property it is made for fails with it.

### OrderService

* `orders` is the table restricted to the columns the handlers test or the properties need. A
  nullable column is `"null"` or `"set"`. Address, contact, amounts, photo, payment provider and
  payment id are left out: no handler tests them.
* A handler is two steps. Its action is the read, the early returns (as guards) and the `data` it
  builds. `Commit` is `order.update({ where: { id }, data })` together with the notification of
  the same transaction. `WriteColumn` is Prisma's rule that a field that is `undefined` is not
  written.
* `markOrderPaidByAdmin` reads the row, then calls `setOrderPaymentStatusByAdmin`, which reads it
  again: it is the only handler of three steps.
* `notifications` holds which kinds were created for which order; who receives them is determined
  by the kind.
* An operator's patch writes every field of its body that is not `undefined`. The preparation time may be `null` there
  (`@IsOptional()` admits it), so an operator can clear it, also of an order that was accepted.
* `everPaid`, `everDelivered` and `everCleared` (the orders whose preparation time an operator has cleared) are history
  variables. `NoticesTellTheTruth` promises a preparation time only for orders that are not in `everCleared`. `CreateFromCart` inserts the row; how it comes from
  a cart is `Checkout`'s matter. Rows are never deleted by the code.

### BasketService and Checkout

* `addItems` is `AddItems` (merged quantities and dishes checked, outside the transaction),
  `UpsertCart`, one `MergeDish` per dish (the `findFirst`), and `CommitAdd`. PostgreSQL's
  default isolation (read committed) is modelled by what it lets happen: each `findFirst` sees what has been
  committed by then, the transaction's writes appear at its commit, and the commit is refused if a line
  to update or the cart of a line to create is gone. The unique index on `Cart.userId` makes a second
  insert wait (`MayInsertCart`). The upsert is a get-or-insert: it does not lock an existing cart, which
  allows more interleavings than a build that does.
* `updateItemQuantity`, `removeItem` and `clearCart` are sequences of statements that commit on their
  own. `DeleteCart` is refused by the foreign key of `CartItem` while the cart has lines.
* A line's id is made of the number of the transaction that created it and its dish: a fresh id, as
  the code's UUIDs are. `checkouts` numbers the transactions that created orders in the same way.
* `ResolveCheckoutGroups` is one read (the cart with its lines and dishes); `CheckCook` is the lookup of one
  cook; `CreateFromCart` is the transaction, in which the failing `cart.delete` rolls everything back
  if the cart has gone. `UpdateDish` and `CookTurns` are the surroundings: a dish or a cook becomes available or not
  at any time.

### Pricing and Receipts

* Money is whole KZT; the columns are integers. A negative amount is taken for 0 where the code does so.
* In `Receipts` the checkout reads lines and prices (`ResolveCheckoutGroups`), opens its transaction
  (`CreateOrders`, refused as a whole if an amount does not fit the column, as an operator's patch is), clears the defaults among the addresses
  it can see (`ClearDefaults`) and commits. Basket requests are single steps: how they overlap is
  `BasketService`'s matter. Lines are only put here, not removed, which only makes fewer carts.
* An order is named by its cart and its cook, since a cart is ordered once (`LineOrderedOnce`, proved of
  `Checkout`). `patched` records that an operator has written an amount; what such an order adds up to is no promise.

### StoredFiles and CookVerification

* A file name carries a fresh uuid: the n-th file saved is `n`. `image[r]` is the column of row `r` (a
  profile's image or avatar, a dish's picture, an order's photo) that names it. Files in the gallery are
  named by no row.
* An upload saves the file, writes the row, and removes the file that it read from the row **before**; a missing
  file is ignored. Deleting an account collects paths first and removes files after its transaction. Pictures of
  dishes are collected by their public URL, under which `removeStoredFiles` finds no file: they stay.
* `patchOrderByAdmin` writes any text as the path of an order's photo (`order.service.ts:809`): the empty one, one under which there
  is none of these files (`Elsewhere`), or that of any file saved so far, whoever names it and whether it is still there (`Paths`). The history
  variable `typed` has the files whose path was typed into an order that did not name them; a path to be used later cannot be
  typed, since it has a fresh uuid. Such a file is the operator's responsibility: `NamedFilesExist`, `PhotoKeptUntilErased` and
  `OneRowPerFile` leave it out, and in `FileLife` it ends in the stage `"typed"`, of which nothing more is promised. Of all
  other files they say what they would say without typed paths, which is what is to be shown: typing harms no file but the one typed.
* In `CookVerification` kitchen photos of one submission are one file, since they are saved, named and removed
  together. A submission reads the former row, saves, removes the former files, and only then
  writes. There is one cook: two cooks' documents have nothing in common.

### Menus and Storefront

* `createForCook` and `updateForCook` count the dishes, then write. A `create` that connects a dish
  that is gone fails; an update either fails or links those that are there, both of which are allowed
  (`WriteMenu`, `Linked`). The unique index on cook and date is `DateIsFree`.
* `Storefront` has one step for each request that changes what is shown; what is shown are operators: the list
  and its filter as the database evaluates it (a comparison with null does not hold), the flag as
  `isCookActiveNow` computes it, the page.

### AccountDeletion, Accounts and Moderation

* `AccountDeletion` has the three phases of `deleteAccount` that matter to orders and dishes: the check of the
  account and its orders, and the transaction (menus, carts, dishes, the row). `MayDeleteRow` is the foreign
  keys of order and cart items. Checkouts and updates of a dish read first and write later.
* `Accounts`: registering, logging in, refreshing, changing and resetting a password, logging out, an operator's patch,
  deletion, and the creation of a missing `Cook` row. Hashing is an await, so that checking a row and
  storing a token are two steps.
* `Moderation`: a report looks for a pending one and then inserts; a block inserts and then reports; a resolution
  checks, and then applies and records in one transaction. Dishes, accounts and papers change at any
  time beside it.

## 3. Runs

| Run | Instance | Shows |
|---|---|---|
| `order_requests` | 1 order, 2 sessions, operators requeue, start or cancel | `KitchenOnlyAfterPayment`, `StagesLeaveTheirMark`, `NoticesTellTheTruth`, `PaidOrderLeavesPaymentQueue`, `DeliveryFollowsKitchen` |
| `order_serial` | 1 order, 1 session, 2 customers, 2 cooks | `ImplementsLifecycle`, `OneAnswerFromCook` |
| `checkout_requests` | 1 customer, 2 sessions, 2 dishes of 2 cooks | `TablesConsistent`, `LineOrderedOnce`, `NoEmptyCartLeft` |
| `checkout_serial` | as above, 1 session, a quantity above the limit | `OneLinePerDish`, `ImplementsBasket` |
| `files_requests` | a profile, a dish, an order, the gallery, 3 sessions, 3 files | `NamedFilesExist`, `PhotoKeptUntilErased`, `OneRowPerFile`, `LivesInOrder` |
| `files_serial` | 2 pictures of profiles, a dish, an order, 1 session, 4 files, fairness | `ReplacedFilesRemoved` |
| `cooks` | `Menus` (2 cooks, 2 dishes, 2 days, 3 menus), `CookVerification` (5 files), `Storefront` (2 cooks, times 0 to 3), 2 sessions | `TypesOK`, `MenusOfOwnDishes`, `FilterAgreesWithFlag`, `ListAgreesWithPages`, `ReasonIffRejected`, `VerdictOnDocuments`, `PapersOnDisk`, `DiskHoldsDocuments` |
| `accounts` | `Moderation` (2 accounts, a dish, 2 reports), `AccountDeletion` (a customer, a cook, 2 dishes, 2 orders), `Accounts` (1 row, 2 passwords, 3 tokens), 2 sessions | `TypesOK`, `RecordsAreTrue`, `SanctionsOnRecord`, `OnePendingReport`, `BlocksAreReported`, `ReferencesHold`, `NothingLeftOnOffer`, `BlockedByActiveOrders`, `InactiveHasNoToken`, `LoggedOutHasNoToken` |
| `receipts` | 2 cooks with a dish each, 2 prices, 2 carts, 2 sessions | `TypeOK`, `OrderAddsUp`, `ViewsShowTheFee`, `OneDefaultAddress`, `DashboardWithinRounding` |
| `order_accept_race`, `order_cancel_late`, `basket_limit` | smallest that does it | violations: section 5 |

`MCCooks` and `MCAccounts` check three specifications each. They share no variable and no step, so
a component moves only while the other two rest in their initial states: every behaviour of each is there,
and the numbers of their states add up instead of multiplying. The components interact through
rows that each specification has its own view of; what one does to another's rows is an action of the other
(`Moderation`'s REJECT_COOK is `RejectCook` of `CookVerification`, for instance).

Bounds and why they are enough:

* One order in the order runs: no handler touches two orders, so orders are independent. The proofs cover any number.
  Operators requeue, start or cancel there (`RequeueStatuses`), since `PaidOrderLeavesPaymentQueue` and
  `DeliveryFollowsKitchen` are promises only as long as operators force nothing else; the three other properties are
  proved whatever operators force.
* Two sessions: a hazard here is a read of one request overtaken by the write of another. Three for files, where one
  request may read, another replace and a third delete. The theorems cover any number.
* One customer in the basket runs: carts of different customers share no rows. `MaxAdds` (transactions of
  `addItems` in a behaviour, 2): two are needed for merging and for a second cart after a
  checkout. Two overlapping requests make duplicate lines with three (one that makes the cart), which is why
  `OneLinePerDish` is about one session. `MaxMerged` stands for the limit of 100; `Amounts` has a value above it where the refusal matters.
* `MaxFiles`: enough for a resubmission whose former files are removed (5 in `cooks`), and for a picture that is replaced twice (3):
  two overlapping requests that have both read the first file, with a third that deletes or types its path.
* `MaxMenus` 3: two menus of a cook on two days, one moved or deleted and created anew.
* `MaxReports` 2, and `Small` in `MCAccounts`: a second report only as long as requests have not overlapped. Two reports
  that overlap are excluded because no property speaks of them, except `RecordsAreTrue`, which is about each report by
  itself and is proved for any number.
* `MaxCarts` 2, and `Small` in `MCReceipts`: operators write amounts only as long as there has been one cart. Two carts are needed
  for a second default address and for a sum that rounds differently. 108 is the largest amount that fits, so that one
  of the two prices (5 and 9, with a fee of 100) makes a checkout fail as a whole; a commission of 12 % makes 5 + 5 round differently from
  5 and 5.
* `MaxUsers` 1, `MaxTokens` 3: no handler reads two rows but by the unique phone; a login, a logout and a refresh of a
  former token.
* Sessions, and other values that are interchangeable, are symmetric in the runs that have no liveness property.

Deadlock is checked except where a bounded counter may be used up with nothing else left to do: files saved
(`files_serial`, `cooks`), tokens and reports (`accounts`), carts (`receipts`). In the others a request can always be made.

`TypeOK` of every detailed module is proved, that of the components of `MCCooks` and `MCAccounts` through `TypesOK`.

## 4. Fairness

Nothing in the code retries, times out or polls: an order moves only if somebody asks for it, so "is eventually
accepted" is not a promise of this program, and no fairness is assumed of requests being made. What the
code does justify is that a request that has begun is carried on: its handler has finitely many statements, none of which
waits for another request. `StoredFiles` states that as weak fairness of the steps of each session after the first one
(`FairSpec`), and `ReplacedFilesRemoved` follows: with one request at a time and none cut short, a picture that was replaced is removed
in the end. A request that is cut short, or two that overlap, may leave a file behind: the models show
that no row is harmed by it, and nothing in the repository promises more.

## 5. Where the code does not do what it says

Shown by a run:

* `order_accept_race`: `acceptCookOrder` refuses with "Order is not awaiting cook acceptance"
  (`order.service.ts:479`), but its write names the row by id only. A customer cancels between the
  read and the write: the cancelled order goes to `COOKING`.
* `order_cancel_late`: "Cannot cancel after preparation has started" (`order.service.ts:962`): a
  customer can cancel in `CONFIRMED`, which is also where `acceptDeliveredOrder` leads.
* `basket_limit`: "Merged quantity per dish must not exceed 100" (`basket.service.ts:169`): the limit
  is checked on the request, not on the line it is added to.

The models contain the following too; the properties above leave them out by their premises:

* Confirming and rejecting one delivery, sent together, both take effect ("Only when status is DELIVERED",
  `order.controller.ts:188`, `:198`): the pattern of `order_accept_race`.
* A checkout that commits between a deletion's check for active orders (`users.service.ts:242`) and its transaction leaves a deleted
  account with an active order.
* `TERMINAL_ORDER_STATUSES` (`users.service.ts:19`) has no `CONFIRMED`: an order that the customer has confirmed blocks the deletion
  of both accounts for good.
* A cook whose dish is in some customer's cart cannot delete the account: the foreign key of `CartItem` refuses
  `tx.dish.delete` (`users.service.ts:272`).
* The pictures of a deleted cook's dishes stay on disk (`users.service.ts:379` collects URLs, not paths), while the API
  documentation says "removes ephemeral records and uploaded files" (`users.controller.ts:25`).
* An operator may type the path of another row's file into an order. When the customer of that order deletes the
  account, the file is removed (`users.service.ts:396`), and the other row names a file that is gone; a path that names
  nothing is accepted as well.
* An operator's patch can clear the preparation time of an order that the cook has accepted (`order.service.ts:825`).
* `refresh` stores a new token whatever the row holds by then (`auth.service.ts:112`): a logout in between is undone.
* `blockUser` creates the block before the report (`moderation.service.ts:102`): if the report is refused or the
  request is cut short, the block stays and is never reported.
* Two operators who resolve one report together both apply their sanction (`moderation.service.ts:214`), and the second
  overwrites the record of the first.

## 6. Proofs

Every theorem holds for all sets of rows, sessions, users and so on and for all bounds. What is assumed of the constants are
the named `ASSUME`s of the modules: that `CookOf` and `SellerOf` assign a cook to each dish, that bounds are natural
numbers, that prices and quantities are natural numbers and a percentage is at most 100, that operators force statuses which
exist, and, for the sums of `Receipts`, that cooks and dishes are finitely many.

| Module | Theorems |
|---|---|
| `OrderServiceProofs` | `TypeCorrectness`, `InductiveInvariant`, `PaymentComesFirst`, `StampsAreThere`, `NotificationsAreTrue`; `KitchenInvariant`, `PaidOrdersAreReleased`, `DeliveriesComeFromKitchen`; `SerialInvariant`, `OneAnswer`, `Refinement` |
| `CheckoutProofs` | `TypeCorrectness`, `InductiveInvariant`, `LinesAreOrderedOnce`, `TablesStayConsistent`; `LinesInvariant`, `NoEmptyCartIsLeft`, `CartHasOneLinePerDish`; `ReadsInvariant`, `BasketsAreKept` |
| `StoredFilesProofs` | `InductiveInvariant`, `TypeCorrectness`, `PicturesExist`, `PhotosAreKept`, `RowsShareNoFile`, `FilesLiveInOrder` |
| `CooksProofs` | menus: `InductiveInvariant`, `OneMenuForADay`, `MenusHaveOwnDishes`; applications: `CooksInvariant`, `PapersStayOnDisk`, `DiskIsTheDocuments`, `ReasonsAreOfRejections`, `VerdictsRestOnDocuments`; storefront: `FilterAndFlagAgree`, `ListAndPagesAgree`; all three: `TypesCorrectness` |
| `ModerationProofs` | `InductiveInvariant`, `TypeCorrectness`, `RecordsTellTheTruth`, `SanctionsAreRecorded`, `PendingReportsAreSingle`, `BlocksLeaveAReport` |
| `AccountsProofs` | deletion: `DeletionInvariant`, `ReferencesAreKept`, `NothingOnOfferIsLeft`, `NoActiveOrderAtDeletion`; tokens: `TokensInvariant`, `InactiveAreLoggedOut`, `LogoutInvalidates`; with moderation: `TypesCorrectness` |
| `ReceiptsProofs` | rounding: `PayoutAndCommissionAddUp`, `ViewsRecoverTheFee`, `RoundingOnceTakesMore`; `TypesCorrectness`, `TypeCorrectness`, `AmountsInvariant`, `OrdersAddUp`, `FeesAreRecovered`, `AddressInvariant`, `OneAddressIsDefault`, `DashboardsRoundOnce` |
| `Sums` | lemmas only: a sum over a finite set exists as a function of its subsets, is a natural number, takes its elements in any order, depends on its members only, grows by what is added |

The properties are about committed rows, and hardly any is inductive: a session may hold a decision taken long ago
and write it to a row that has changed. The invariants add what makes this harmless, and it is always the same kind of thing: a
fact about what the session carries **that no write of another undoes**; or, for what is promised only when requests do not
overlap, the fact that what a session has read is still so. The invariants that TLC can check as well are defined
beside the properties, in the component's module.

* `OrderServiceProofs`. `PendingWritesJustified`: whatever a session is going to write was
  justified, when it read the row, by a fact that no write undoes - that the order was once paid, was
  once delivered, or has a stamp (stamps are never reset to null; a preparation time is, by operators, which is what `everCleared` records). `HistoryFollowsRows` ties
  the history to the rows. One lemma says what each group of handlers checked and will write;
  `StepKinds` sorts the disjuncts of `Next` into inserting a row, deciding, committing, and steps that
  only read; and one lemma per kind shows that it keeps `IInv`. `KitchenInv` adds that what is about to be written
  releases a paid order from the queue, and brings a late stage only with its stamps. `SerialInv` is about one session:
  what is about to be written is still legal for the row (`PendingIsLegal`), and an answered order waits no more. `Refinement`
  follows from it: `Commit` is the lifecycle's step, everything else a stutter.
* `CheckoutProofs`. A checkout creates its orders from lines it read in another transaction, so `LineOrderedOnce` needs
  `CheckoutsAgree`: two checkouts that share a line have read the same cart, and once some order has one of the lines, that cart
  is gone. It is gone for good because ids are fresh (`IdsUsed`), and so the `cart.delete` of a second checkout rolls it back.
  `TablesConsistent` needs `CartsAgree` (a transaction that creates a cart is the only one of its user) and `PlansAgree` (a
  line that was found is still in the cart it was found in, if it is still there). `NoEmptyCartLeft` needs that
  an empty cart is always attended by a request that has emptied it (`EmptyCartsAttended`). `BasketsAreKept` is the refinement with
  one session. `ReadsHold` says that a plan adds what was asked for to what the line holds, and that a checkout holds the cart as it
  is. A customer's units of a dish are a sum over lines; every step changes at most the one line that a
  dish has, so the sum follows from `OneLinePerDish`, and the units ordered grow by one item per dish.
* `StoredFilesProofs`. A request removes what it read from a row before it wrote to it. That this is named by no row by then
  rests on names being fresh: a name is used once, a file about to be named is on disk and nobody else's, and what a request has
  taken note of as former is either still in the row that it is about to write or in none. All of this is said of the
  files that are not in `typed`, which only grows, so that a file drops out of the invariant with the step that types its path. `FilesLiveInOrder` is the
  refinement: initial states map to initial states, and each step to a step of `FileLife` or a stutter.
* `CooksProofs`. A session that creates or updates a menu has dishes of the cook whose menu it is; dishes may go meanwhile but
  never change their cook, and a write links existing dishes only. Applications: the files a submission has saved are its
  own until the row names them; as long as nothing was cut short, a row may name files that are gone only while a request is under way
  that will write others (`PapersAwaited`). Where requests do not overlap, the disk is known exactly at each step of
  the one that is under way (`DiskKnown`). Storefront: hours are both there and in order or both missing; with that, the filter
  with its comparisons against null and the flag are equivalent at every time.
* `ModerationProofs`. The invariant has two parts: what holds in any case (a report that was resolved with an action had it applied in
  the same transaction), and what holds as long as requests have not overlapped - then at most one session is busy
  (`Alone`), so what it has seen is still so.
* `AccountsProofs`. `ReferencesHold` holds whatever overlaps, since the foreign keys refuse the deletion of a row that is
  referred to and the insertion of a reference to none. The other properties need that what a deletion, an update or a login has
  checked is still so when it writes (`StillWorking`, `StillWithoutOrders`, `IssuedToActive`).
* `ReceiptsProofs`. Amounts: an order that no operator has written keeps what the checkout computed of its items (`AmountsInv`), whatever
  prices become; the rounding theorems are arithmetic of `div`. Addresses: a transaction whose cart is still
  there has seen every default address, since another one's would have taken the cart (`DefaultsSeen`). Dashboards: by induction on the
  set of paid orders, each of which adds to the difference at most one.
* `Sums`. The library's induction theorems take an operator and cannot be used; induction is therefore stated with sets
  (`NumbersByInduction`, from the well-foundedness of `<` on the natural numbers, and `SubsetsByInduction` for subsets of
  a finite set), and a sum is what a function `g` on the subsets satisfies that takes one element at a time. That
  is how the fold of the community modules is defined, so the lemmas are about the very operators that TLC evaluates.

Two properties are promises under a premise on the surroundings, which the definitions state: `OneAnswerFromCook` (one session, and no
operator who puts orders back in the cook's inbox or the payment queue) and `OneLinePerDish` (one session). Without it TLC finds
behaviours that violate them: an accept and a reject that overlap (the pattern of `order_accept_race`), and two additions of one dish
to a cart that exists.

Only model-checked: `ReplacedFilesRemoved`, since liveness under fairness and `ENABLED` are out of the prover's reach. Every
other property of the runs that pass is the statement of a theorem.

## 7. What could follow

1. The safety core of `ReplacedFilesRemoved`: with one session and nothing cut short, a replaced picture that is still on disk is in the
   list of the request under way.
2. A refinement of account deletion and moderation by specifications of what they promise, as for orders, baskets and files.
3. The hazards without a property: the pictures of a deleted cook's dishes, and an order in `CONFIRMED` that blocks the deletion
   of an account (both in section 5). Of the latter, the code does what its
   own list (`TERMINAL_ORDER_STATUSES`) says; whether such an order is still to be completed is a question to its authors.

## 8. Not modelled

* `modules/cook-lead`: a webhook inserts one row per call; no later step depends on it.
* Lists, views, paging and the counts of `modules/stats`: they change nothing.
* `modules/order/order.gateway.ts`: commented out as a whole.
* `main.ts`, `app.module.ts`, configuration, filters, interceptors, guards: no state. What the guards admit
  decides which requests the models enumerate (for instance, an `ADMIN` is refused by `cancel`).
* The order number (`order.service.ts:350`), made of the clock's milliseconds and an index: a collision is refused by the unique index and
  rolls the checkout back, which `Fail` of `Checkout` covers.
* Paths that operators type into an order and that name a cook's documents, or files of another account: each of
  `StoredFiles` and `CookVerification` is about the files of one account, and `PapersOnDisk` and `DiskHoldsDocuments` about documents whose path nobody
  has typed into an order.
* Names, text columns, favourites, device tokens, formatting, messages, validation of single fields.
