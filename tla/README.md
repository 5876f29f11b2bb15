# A TLA+ model of acuity-dioxus

acuity-dioxus is a Dioxus desktop client of the Acuity network. It keeps local
accounts, talks to a chain node, an IPFS daemon and an event indexer, and shows
and publishes content. All of its code runs as tasks of one single-threaded
executor (plus a blocking pool for password hashing), so what is hard about it
is what happens *between two awaits*: tasks that answer late, signals that have
moved on, connections that come and go, and a shutdown that must reach every
loop. This directory models those parts.

Source references are to files under `src/src/`.

## 1. Inventory

| Component | State | Operations | What makes it correct |
|---|---|---|---|
| Account store (`accounts.rs`) | account list, active id, unlocked signers, messages; a directory of keystore files | load, select, create, unlock, lock, delete | list = directory; the active account exists; a signer belongs to its account |
| Sidebar and unlock dialog (`views/navbar.rs`) | dialog target, `unlocking`, tasks on the blocking pool | open, close, submit, finish, fail | never stuck; cancel is final; every password is answered |
| Shutdown (`main.rs:25-43, 274-283`) | a watch channel | trigger, observe | every task returns |
| Chain, IPFS and indexer loops (`main.rs:402-659, 860-907`) | one status signal each | connect, maintain, lose, back off | the lifecycle of ARCHITECTURE.md; retry; stop |
| Shared indexer client (`main.rs:322-345, 562-659`) | watch channel, signal, websocket | share, withdraw, copy | the shared client is the live one; the signal follows |
| Active-account balance task (`main.rs:300-326, 669-841`) | address channel, local address and client, subscription, shown balance | fetch, subscribe, re-fetch, resubscribe | no lost wake-up, no lost event, follows the account |
| Account page balances (`views/manage_accounts.rs:36-383`) | a map of balances, the place of one task | decode, connect, fetch all, follow finalized blocks, retry | no announced change is lost while the stream is open; no row is left loading |
| Item view (`views/item_view/mod.rs`, `loader.rs`) | item, history, draft, comments | load, switch revision, save | shows the item of the route; saves what is shown |
| Reactions (`views/item_view/reactions.rs`) | the local view, what the loads asked, one submission | load, toggle, submit, revert | a view that can be sure is the chain's; a toggle changes one reaction |
| Comments (`comment.rs`, `comment_card.rs`, the list in `mod.rs:72-129, 610-617`) | a comment, its body on display, its revision selector | load, change revision, reload after a reply or an edit, refill by an overlapping load | no body arrives for a revision that is no longer named |
| Feed posts (`feed_posts.rs`) | a list | load | not modelled: one load |
| Publishing (`post.rs`, `feed.rs`, `views/publish_*.rs`; `item.rs` with the item view) | one task per form, `is_saving`; submissions in the node's pool | click, upload, sign, submit, verify, give up | whole batches or nothing; the account of the click signs; found afterwards |
| Profile (`profile.rs`, `views/profile/`) | profile on display, item id on hand, `is_loading` | load, refresh, first save, revise | one profile item per account; the view shows the active account |
| Content codecs (`content.rs`) | none | mipmaps, history, decoding | pure |
| Status pages, home, components | rendering only | | not modelled: no state of their own |
| `acuity_runtime.rs` | generated by subxt | | not modelled |

How they interact: `App` spawns four tasks that live as long as the program
(chain, IPFS, indexer, balance) and one that copies the client channel into a
signal. The indexer loop hands its live `IndexerClient` to the balance task and
to that signal through one `tokio::sync::watch` channel; an effect of `App`
sends the active account's address through another; `AppShutdown` is a third.
The views read signals and spawn tasks that die with their component.

The behaviours that are hard here are listed one by one, with their lines, as
`hazards` in `PROJECT.json`.

## 2. Modules

| Module | Models |
|---|---|
| `AccountStore` | `accounts.rs` and the unlock dialog, with the keystore directory, crashes and restarts |
| `MCAccountStore` | its instance for TLC |
| `Keystore` | abstract: what the account store promises about files, and signers in memory, without a dialog, a list or a cache |
| `AccountStoreProofs` | its inductive invariant, its refinement of `Keystore` and theorems |
| `AppShutdown` | the shutdown channel, extended by every watcher |
| `ConnectionLifecycle` | abstract: what ARCHITECTURE.md promises of each connection loop |
| `RetryLoop` | the loop the three watchers share; instantiated once by each |
| `ChainWatcher`, `IpfsWatcher`, `IndexerWatcher` | one connection loop each, await by await |
| `Connections` | the three loops composed with shutdown, and the refinement mappings |
| `IndexerProofs` | invariants of the indexer loop by itself, used by the two modules that compose it |
| `ConnectionsProofs` | refinement and invariants of the composition |
| `BalanceWatcher` | the balance task composed with the indexer loop, account switches, a chain and an indexer |
| `BalanceProofs` | its inductive invariant and theorems |
| `ItemView` | the item page: loading, changing the revision, editing and saving, beside the chain's revisions and the indexer |
| `ItemViewProofs` | its inductive invariant and theorems |
| `ContentRegistry` | abstract: what the publish flows promise about the chain's items and the pointers to them |
| `Publishing` | `publish_post`, `publish_feed` and `save_profile`: a form's task, the pool, inclusion and refusal |
| `Pages` | the profile, feed and post pages on top of it: loads, account switches, reconnects, navigation; refines `ContentRegistry` |
| `MCPages`, `PagesProofs` | its instance for TLC; its inductive invariant, refinement and theorems |
| `Reactions` | a reaction bar, beside the chain's events and the indexer |
| `CommentCard` | a place in the list of comments: the card in it, with its revision selector, composed with its reaction bar |
| `MCCommentCard`, `CommentCardProofs` | its instance for TLC; its inductive invariant and theorems |
| `AccountBalances` | the account page's balance task, beside the chain and the block stream |
| `AccountBalancesProofs` | its inductive invariant and theorems |

How state and actions correspond to the code:

- A program counter (`cpc`, `ppc`, `ipc`, `bpc`) names the await at which a task
  stands; an action is everything the task does from there to its next await.
  Signals are written inside such a step, as in the code, so no lost update of a
  signal between two awaits is invented, and none is hidden.
- A watch channel is its value and, per receiver, whether `changed()` is ready.
  Every `send` makes it ready for everyone, also when the value is the same;
  `changed()` and `borrow_and_update` clear it. `App` keeps a clone of each sender in
  a hook (`main.rs:309, 324`), so no channel closes when a task returns.
- `select!` is the disjunction of its branches that are ready: tokio picks one
  at random.
- A failure is a nondeterministic branch of the call that may fail; `?` returns
  at once, with the websocket left as it is.
- An account id is the creation stamp in its file name. A file holds a key, the
  rank of its (name, address) pair in the sort order, or is torn. A signer is
  the key it signs with, so that "the wrong signer" is expressible.
- Handlers of the sidebar take any id issued so far, listed or not: a click
  carries the id its row had when it was rendered.
- The unlock tasks belong to the dialog: closing it cancels them (Dioxus drops
  the tasks of an unmounted component); the hash that a cancelled task was
  waiting for still runs, and its result is dropped.
- `BalanceWatcher` counts events per account (`funds` on the chain, `indexed` by
  the indexer); an amount stands for the balance after so many events.
  `baseline` and `failed_fetch` are history variables of the properties.

- `ItemView` keeps the page's signals and a pool of the tasks it has spawned. A
  change of route keeps the component and its tasks, so a task may answer when the
  page shows another item; its first steps up to the first await are part of the
  handler that spawned it. A hash is the item and revision it was published as, a
  content the item its text was written for, the revision that brought the image,
  and the type marker: what an item could wrongly get from another item or from an
  older revision. `overtaken` is a history variable: some change of route found a
  task under way.
- `Pages` mounts one page at a time. Leaving a page drops its signals and tasks
  (`NewPage`, `publishing' = Idle`), but not what a task has submitted: that stays in
  `pool`, for the chain to include or refuse. An effect is part of the step that
  changes what it reads (account, client, mounting). A load is where its next
  request stands and whose profile it is for; loads are not cancelled, and any of
  them resets `is_loading`. The signer is the active account of the click
  (`store_snap`). History variables: `doubtful`, the accounts whose first save began
  without a load that found no profile, or was given up while it might still land;
  `raced`, the view's effect ran over a load under way.
- `Reactions` keeps of the bar's view the reactions flagged `i_reacted` and whose they
  are; those of the others are only counted on the page. `asked` is what the load
  effect has asked for since the bar was mounted. How many of these loads are still
  under way is not counted: each may answer, again, at any time, which includes every
  order and number of answers that the tasks can give (the properties are safety
  properties, so nothing rests on a load being over). An answer shows any prefix of
  the log, as the indexer lags behind the chain and an answer behind the indexer. A
  request that has no indexer client fails. `certain` is a history variable: the view
  comes from a complete answer, given while nothing was pending, and has been changed
  since by the account's own clicks only.
- `CommentCard` names a revision (`selected`, which the bar follows) before its body
  arrives. A load of the page clears the comments first and mounts new cards when it
  answers (`Reload`). The cards have no key, so that the second answer of two
  overlapping loads gives a mounted card another comment (`Refill`): its properties
  change, `comment` and `item`, but no signal does, and the effects of the card and
  its bar keep the item they were made with (`bar.item`). After a refill the body on
  display may be of another item than the comment, and the clicks and edits go to the
  new one. `viewed` is the number of the revision a body was published as; whose, is
  not recorded.
- `AccountBalances` has one task per visit of the page. Amounts count an account's
  changes since the page was opened; blocks that wait are read as one. `Transfer` is
  a change with one of the ten events the loop looks for, `ChangeUntold` one
  without. `missed` is a history variable: accounts with a change that fell between
  their fetch and the stream, or that no such event tells of.

Tasks that die with their component, crashes, and a keystore that cannot be
found or listed are all in `AccountStore`; the remaining modules have nothing
that survives a restart.

## 3. Runs

| Run | Instance | Question |
|---|---|---|
| `accounts` | 3 files, 2 keys, 2 unlock tasks; 384k states | do list, directory, signers and dialog stay consistent, does the store implement `Keystore`, and is every password answered? |
| `connections` | 2 clients; 22k states | do the three loops implement the lifecycle, retry, stop, and share the live client? |
| `indexer_socket` | 1 client | is the websocket closed whenever the subscription loop exits? **No** |
| `balance_fresh` | 2 accounts, 2 events each, 1 client; 3.7M states | is an event indexed during a subscription ever lost? |
| `balance_follows` | 1 account and 1 undecodable one, 1 event, 2 clients; 371k states | no lost wake-up; the task follows the account and client, and stops |
| `balance_owner` | 2 accounts | is the balance on display that of the account followed? **No** |
| `item_view` | a feed of the user and a post of another, 2 revisions, 2 tasks; 292k states | do all spinners end, whatever overtakes what; is the page coherent as long as no change of route overtakes a task? |
| `item_view_revision` | the same | does choosing a revision show one of the item? **No** |
| `item_view_image` | 1 post, 3 revisions | does a save without a new image keep the current one? **No** |
| `pages` | 2 accounts, 2 items, 2 loads, 1 open submission; 1.4M states up to symmetry | do the publish flows implement the registry, and which accounts can come to two profiles? |
| `comment_card` | 2 users, 2 items, 2 emojis, 2 revisions, 2 events, 2 comments for the place; 1.0M states up to symmetry | does a click change one reaction of the set on the chain, and does a body ever replace that of a revision named since? |
| `account_balances` | 3 accounts, 1 undecodable, 2 changes each; 6.2k states | is any announced change lost, and does every row come out of loading? |

Bounds, and why they are enough:

- `MaxFiles = 3`: two accounts and one more creation, so a deletion can hit the
  active account, another one, and the last one; the directory starts with
  any content, torn files and gaps included. Two keys give both sort orders and
  two files with one key (a copied file).
- Two unlock tasks: the least that can answer out of order.
- `MaxClients = 2`: one reconnect, so an old client and its possibly still open
  websocket exist beside a new one. A third adds no new relation.
- `MaxTransfers = 2`: the first event starts a re-fetch, the second arrives
  during it; one event is enough for the gap before the subscription.
- Two decodable accounts where ownership of a fetch matters; one decodable and
  one not where only following does. With one client (`balance_fresh`) a lost
  connection is still lost for good.
- Two items, one of which is a feed of the user: a change of route between items of
  different kind and owner. Two revisions give an older one and a latest; the image
  needs a third, saved on top of the two. Two tasks are the least that overtake
  each other.
- `pages`: two accounts, to switch between; two items, the least in which an account
  has two profiles, or a feed precedes a post; two revisions, the least for a
  revision; two loads, the least that overtake each other. One slot in the pool: a
  submission that was given up and the next one after it are both in the
  instance, one after the other. Accounts are symmetric: no definition tells them
  apart.
- `comment_card`: the active account and another; two emojis, so that a set
  submitted whole can lose one; an older and a latest revision; two items, so that a
  refill can change the item under a bar. One comment has the revision that the
  indexer and the chain agree on, the other is one of which the chain did not
  answer; the proof covers any comments. The bar starts with one event on the log, so
  that an account has reactions to lose from the start, and one more can land
  before, during or after a load, a click or a failure. Emojis are symmetric.
- `account_balances`: one change between the fetch and the stream and one after it;
  two decodable accounts in a block, and one that fails every attempt it is in.
- Deadlock is checked except in `connections` and `indexer_socket`, where all
  three loops stop after shutdown.

Fairness, and why the code justifies it:

- awaited requests come back, well or not (both are allowed): WF on the steps of
  each task's request; a loss, a failure or an `Err` from a stream is never
  forced;
- timers fire: WF on leaving the back-off;
- `ItemView`: WF on the steps of each task, of which a failure is always one; no
  user action, no reconnect and no progress of the indexer is assumed;
- `AccountBalances`: WF on the task's own steps, since requests return and the timer
  fires; that a stream fails or ends is never forced, nor is any user action;
- a ready task is polled: WF on `SyncSignal`, on the balance task, and on the
  unlock tasks;
- `select!` polls in random order, so a branch that is ready again and again is
  taken: SF on the shutdown branches only. The indexer loop needs just WF: its
  updates change nothing in the model, so its shutdown branch stays ready.

## 4. Findings

1. README.md:26 promises an explicit close of the indexer websocket; an
   unreadable update or a failed unsubscribe returns without it.
2. `active_account_balance` is documented as that of the currently active
   account; after a switch with a failing fetch the previous account's balance
   stays.
3. `load_item` does not relate the hash it is given to the item (`loader.rs:60`).
   When the reload of an item overtakes a change of route, choosing a revision
   shows the former item's content as the latter's revision 0.
4. `existing_image_payload` is documented as the image of the current published
   revision; it is that of the revision on display. After the selector was used,
   or when the indexer lags behind a save, saving again brings an old image back.

Smaller disagreements and surprises met on the way, without a run:

- A deleted account can be unlocked: `apply_unlock_result` (`accounts.rs:286`)
  inserts the signer of an id whose account was deleted while scrypt ran. No view
  can use it (they look the account up first; ids are never reused), but the secret
  stays in memory, unlike what the test of `delete_account` (`accounts.rs:856`)
  asserts for the order it tries.
- ARCHITECTURE.md:64 says the channel gets `None` before the client is closed, the
  code closes first (`main.rs:652`, `584`).
- `profile/edit.rs:54-55` says that updates use `publish_revision`. Saving without
  an indexer client, or after a load that failed, has no item id on hand: it
  publishes a second profile item and moves the pointer to it. So does trying
  again after a first save whose outcome was not observed. These are exactly the
  accounts that `doubtful` takes out of `OneProfilePerAccount`.
- The account page's balances are called live, but a stream that ends is not
  resubscribed (`manage_accounts.rs:167`), and changes by Reserved, BalanceSet, Held
  and the like are not looked for.
- The list of comments has no keys (`mod.rs:610`). When two loads of the page overlap,
  the cards that the first one mounted are given the comments of the second by their
  place in the list, and go on showing the bodies of the first. No document says
  otherwise; the model has it (`Refill`), and no property excludes it.
- `feed.rs:127` cuts a preview at byte 160, which panics inside a character of
  more than one byte.

## 5. Theorems

TLAPS proves, for every value of the constants that satisfies the named
assumptions:

- `AccountStoreProofs` (assumes `KeystoreAssumption`: keys are ranks, `None` and
  `Torn` are not). The inductive invariant `KeystoreInv` strengthens the checked
  invariants with three parts that none of them implies: ids not yet issued are
  blank everywhere (else a new file could overwrite a listed one), a listed
  account is on disk under its id (else decryption could yield another key), and
  what a running or answered unlock task holds agrees with the entry it is for
  (this is why `FinishUnlock` preserves `SignerMatchesEntry` although it does
  not look at the list). From it: `TypeCorrect`, `SignersAreSound`,
  `ListMatchesDisk`, `ActiveAccountExists`, `DialogNotStuck`, and the action
  properties `CancelIsFinal` and `FilesStay` (the file of an issued id is never written again, only deleted,
  with its account). `StoreImplementsKeystore` maps every step to a step of
  `Keystore` or a stutter. What it hides is the directory and its torn files, the
  dialog and its tasks: a step of the dialog is a stutter unless it inserts a
  signer, and then it is `Unlock` with the account's own key because of what
  the invariant says of running tasks; a write that failed or was torn by a crash
  is `AddUnseen`, `Restart` or a stutter. Signers that stay behind for a deleted
  account are outside the promise (`Usable`).
- `ConnectionsProofs` (assumes `IndexerAssumption`). Where each loop stands
  decides what its signal shows (`ChainInv`, `IpfsInv`, `IndexerInv`); with this
  every step is a step of `ConnectionLifecycle` or a stutter, which gives the
  three refinements. `ClientInv` (in `IndexerProofs`) says the channel holds a
  client only between the status answer and the return, and `SocketsInv`
  completes the types; they give `SharedClientIsMaintained` and
  `ConnectionsTypeCorrect`. `NewestInv` adds that the client being maintained is the
  last one connected, and that a signal which differs from the channel has news
  waiting: `StaleSignalHasNews`, the safety half of `SignalFollowsChannel`, and
  `SignalOnlyForward`. `ShutdownEndsReconnecting` states ARCHITECTURE.md's promise
  about reconnects after shutdown as an action property of all three loops.
- `BalanceProofs` (assumes `BalanceAssumption` and `IndexerAssumption`), for any
  accounts, reconnects and events. `NoLostWakeUp` needs `LatestInv`: from taking
  a value to the next wait, a request in between included, the task's value is
  the channel's or the channel is unseen; this holds because every `send` marks
  the channel and only `borrow_and_update` and a `changed()` that leads back to
  it clear the mark. `NoLostEvent` needs `NotifyInv`, an inequality that survives
  events at any await: what a fetch has read plus the waiting notifications
  reaches the indexer, since the chain is never behind the indexer when the block
  is read; and that clients are numbered, so that a subscriber's socket cannot
  open again. `BalanceTypeCorrect` gives the bounds, among them that no more
  notifications wait than events were indexed. `OnlyFailuresMislead` says when
  the property that the run `balance_owner` refutes does hold: as long as no fetch
  after a switch has failed. `BalanceOnlyForward` (from `ShownInv`: what is shown was
  read of the owner) is an action property: the balance of one owner is not set
  back.

- `ItemViewProofs` (assumes `ItemAssumption` and `NoneAssumption`). `ItemInv` has two
  layers. Whatever overtakes what, each spinner has a task that turns it off, and
  each task's answer is a revision of the item it was asked for; this gives
  `ItemSpinners`, `ItemHistory` and `ItemNotFound`. As long as nothing was overtaken,
  the tasks, the item on display, its history, its draft and the route are also of
  one item (`Calm`), which gives `ItemCalm`, and `CalmShowsRevisionOfItem`: the run
  `item_view_revision` needs an overtaken task for its counterexample. `ImageInv`
  says the same of images, of the revisions and of the saves under way; it gives
  `CalmImages`, what remains true of a save without a new image although
  `item_view_image` refutes that it keeps the current one: the image is that of some
  earlier revision of the item.
- `PagesProofs` (assumes `PublishingAssumption` and `LoadAssumption`). `PagesInv` adds
  to the types that what is pointed at, asked for, loaded or landed is on the chain, of
  the right kind and owner. `OneProfilePerAccount` needs three facts of an account
  without doubt: a first save in the pool is the one the form watches
  (`FirstsWatched`), it finds no profile item (`FirstsAreFirst`), and "no profile", once
  loaded, stays true until the first save lands (`NoneIsNone`). What these rest on is
  that a form runs one save at a time (`is_saving`) and that a load's answer is kept
  with the account it is for. `PagesImplementRegistry` maps
  each inclusion to the step of `ContentRegistry` for its kind and every other step
  to a stutter. `ContentFound` is proved of `ContentRegistry` and carried over by that
  refinement; `EditsAreSeen` is an action property of the same invariant.
- `AccountBalancesProofs` (assumes `BalancesAssumption`). The invariant splits by where
  the task stands: from the first fetch on, also before the stream is open, an entry
  is the chain's amount or an error, or its account is still to be fetched, named by
  a block that waits, or has a change that was missed (`FetchedAreFresh`). Two more facts
  give two more results: an amount on display was the account's at some time of the
  visit (`ShownWasTrue`), so that none is replaced by an older one
  (`AmountsOnlyForward`), and with an undecodable address among those watched the
  task never leaves decoding and its back-off (`BadAddressStops`), so that no
  account of the page has an amount (`OneBadAddressHidesAll`). `LoadingRowsAreFetched`
  is the safety half of `BalancesAreShown`: a row that says loading is yet to be fetched
  by the first attempt.
- `CommentCardProofs` (assumes `ReactionsAssumption` and `CommentAssumption`). A view
  that may be sure needs the same of the view before the click, which a revert
  restores, and what is pending to be the account's own last event or not yet on
  the log. That an account has a last event on each revision it reacted to
  (`LastEventExists`), which every step needs, follows from the well-foundedness of <
  on Nat. From it: `ViewStaysTrue` and the action property `TogglesChangeOne`. A
  refill keeps all of this because the view is not sure once the item has changed.
  The action property `BodiesArriveForNamed` needs that what is fetched is the body
  of the revision named (`FetchesNamed`), which holds because the selector is disabled
  exactly as long as a fetch is under way (part of `CardTypesHold`), on a refilled card
  too. It says when a body may change, not that the body on display is of the revision
  named: after a failed fetch, or a refill, it need not be.

Every safety invariant, action property and refinement that a passing run checks is
thus also a theorem. Each strengthened invariant was first checked on the run's
instance. Only model-checked is what needs fairness, which the prover cannot handle:
`UnlockAnswered`, `AllLoopsStop`, `LossesAreRetried`, `SignalFollowsChannel`,
`FollowsActiveAccount`, `BalanceTaskStops`, `SpinnersStop` and `BalancesAreShown`. Where a
run of section 4 refutes a property, a theorem says under which condition it holds
(`OnlyFailuresMislead`, `CalmShowsRevisionOfItem`) or what remains of it
(`CalmImages`); the exception is the closing of the indexer's websocket.

## 6. What is not modelled

- Ids that collide: two accounts of one name created within one millisecond.
- Formatting, encryption and JSON: a file either yields its key to the right
  password or it is torn.
- The content of status updates: indexer spans, block numbers, constants.
- On the item page: the text fields themselves, the comment form, balance and fee
  estimates, the parents' summaries, save notices, a switch of account, and leaving
  the page. Every revision has a hash of its own (two equal payloads share one), the
  indexer's per-query limit is out of reach, and a transaction that was reported as
  failed before it entered a block does not enter one later.
- On the profile view: the list of pinned content. On a feed's page: the list of its
  posts. Both are one load with nothing beside it.
- On a comment: the drafts of a reply or an edit, and the tree of children, which are
  cards like their parent. Their submission is the click, the pool and the reload
  that `Publishing` and `CommentCard` have.
- Fees, balances needed for a deposit, notices, previews and images of the forms.
- `content.rs` and `image` codecs: protobuf, the pyramid of smaller images, text
  previews. They are pure functions of one input, with no state or order; what they
  compute for every input is an induction over data. The revision history, which
  has an order, is in `ItemView`.
- Status pages, components, home and the generated bindings. `acuity_runtime.rs`, half
  of all lines, is what subxt generates from the chain's metadata: types and
  encoders without behaviour of their own. With it, with rendering (`rsx!`) and with
  the codecs left out, the models stand for the larger part of the lines that decide
  something.
- Browser and mobile builds: `shutdown` is then never triggered, which the
  models allow (no fairness on `TriggerShutdown`).

## 7. Plan

The order was: what runs for as long as the program (accounts, connections, the
balance task), then the item page, then publishing and the profile, reactions and
comments, and the account page; each modelled, checked, and proved where the
properties are not liveness. What is left, in order of importance:

1. Theorems on the safety side of the liveness properties, as `StaleSignalHasNews` is
   of `SignalFollowsChannel`: that the balance task is never asleep over a change of
   account or client, and that a spinner's task is always enabled.
2. `Content`: the pyramid of images and the previews as functions, checked against
   reference definitions over bounded inputs.
3. The reply and edit forms of a comment composed with `CommentCard`, sharing one pool
   of submissions with `Publishing`.
4. `ItemView` with a switch of account on the page, and save notices.
