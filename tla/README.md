# A TLA+ model of metalica

metalica is the CRM of a printing studio. Its NestJS backend (`src/backend/src`)
keeps orders in PostgreSQL and files in MinIO, and mirrors the studio's account in
an external CRM, BlueSales, which people go on using by hand. The backend runs as
one replica; the React frontend (`src/frontend/src`) talks to it over HTTP and
Socket.IO. This directory holds TLA+ modules of the parts whose correctness depends
on interleavings, failures and order, TLC configurations that check them on small
instances, and TLAPS proofs.

Paths below are relative to `src/backend/src`, those of pages, contexts and hooks to
`src/frontend/src`, unless they start with `src/`.

## Inventory

| Component | State it keeps | Operations | Talks to |
|---|---|---|---|
| Status outbox (`orders/order-status-outbox.processor.ts`) | table `OrderStatusChange` (state, attempts, nextAttemptAt, lockedAt, leaseToken); in memory one batch | recover, sweep leases, claim, probe, write groups, check, confirm, retry, fail | BlueSales client; writes the card on confirmation |
| Local status change (`orders/orders.service.ts`, `updateOrderStatus`, `remove`) | `BluesalesOrderInfo.orderStatusId`, `orderStatusObservedAt`; sketch marks | set a status, remove an order | appends to the outbox, wakes its retries, tracks revisions |
| Inbound synchronisation (`bluesales/bluesales-sync.service.ts`) | the same columns, leads, dictionaries; cursors in memory | fast sync, refresh loop, manual refresh, full sync, sketch backfill | BlueSales client; `upsertOrder` takes the row lock |
| Import switch (`bluesales/bluesales-inbound-sync.ts`) | one row and its copy in memory | initialise, setEnabled | read by every import and by the outbox |
| BlueSales client (`bluesales/bluesales-api.service.ts`) | two-priority queue, one request at a time, pause, last request time | schedule, send, retry while busy, requeue | BlueSales over HTTP |
| Revision tracking (`orders/revision-status.service.ts`) | `Revision`, `RevisionClosure` | track a transition, reconcile at startup | called in every status transaction |
| Sketch marks (`orders/sketch-status.ts`) | `Order.sketchStartedAt`, `sketchReadyAt` | compute an update | three writers |
| Order lifecycle (`orders/order-lifecycle.*.ts`) | none of its own | complete old orders, delete files of completed ones | `updateOrderStatus` with an expected status; cleanup |
| Production files (`orders/production-files.service.ts`) | table `ProductionFile` (status, runToken, leaseUntil, fingerprint, objectKey) | ensure, expedite, claim, render, delete | MinIO, cleanup, image slots |
| Storage cleanup (`storage/storage-cleanup.service.ts`) | table `StoredFileDeletion` with a generation | enqueue, process a batch | MinIO |
| Image slots (`storage/image-preview.ts`, `storage.service.ts`, `attachment-previews.service.ts`) | counters and a waiting list | run a job | worker threads |
| Assignment (`assignment/*.ts`, `users/*`) | artist of an order, shifts, round-robin cursor, cached settings | assign next, reset shifts | called after status and tag changes |
| Order events (`order-events/*.ts`) | the journal of an order | record | called after edits, and by the assignment inside its transaction |
| Chats and messages (`chats/*.ts`, `messages/*.ts`) | chats, members, messages | post, edit, list pages | gateway, notifications |
| Notifications (`notifications/*.ts`) | rows with a key per chat, settings, muted chats | notify, list, count, mark | called after messages and status changes; gateway |
| Realtime gateway (`chats/chats.gateway.ts`) | rooms | join, leave, emit | Socket.IO |
| Auth and users (`auth/*.ts`, `users/*`) | accounts, `frontendSettings`, `onShift` | login, me, patch settings, set shift | - |
| Pages of the browser (`pages/OrderThreadPage.tsx`, `OrdersPage.tsx`, `ChatThreadPage.tsx`, `auth/AuthContext.tsx`, `notifications/*`) | what the page shows, refs, timers, requests under way | load, poll, edit, send, scroll, drag | the services above, answers in any order |
| Metrics, diagnostics, nginx, docker, migrations | - | reports, configuration | - |

What is hard: every `await` in a handler lets another handler or loop run; the
process may be restarted between any two statements; BlueSales may store a write
and not answer, answer late, or be edited by people; locks are taken inside
transactions but some decisions are made before them; leases, tokens and
generations replace locks across slow steps; a page of the browser has several
requests under way and acts on each answer as if it were the last.

## Modules

| Module | Models |
|---|---|
| `StatusDelivery` | the promise of the outbox: a FIFO queue of status changes per order |
| `StatusOutbox` | the outbox processor, step by step, with the writers of its table |
| `StatusMirror` | one order's local status and all its writers: managers, import loops, outbox confirmations, startup reconciliation, sketch backfill |
| `OrderImport` | which order of BlueSales a local order stands for, and the artist that is sent back |
| `SyncLoops` | the refresh queue, the manual refreshes, the nightly pause and the switch |
| `OrderEdits` | the fields of an order under edits and imports |
| `BsClient` | the queue of the BlueSales client, its retries, requeues and pause |
| `StorageCleanup` | the deletion queue and the contract that its clients keep |
| `ProductionFiles` | the job of one print file, its workers, and the cleaner beside them; an `INSTANCE` of `StorageCleanup` |
| `OrderFiles` | the end of an order and of its files: both lifecycle passes, attachments that share originals, previews |
| `ImageSlots` | the slots for work on images |
| `Assignment` | who draws an order |
| `ChatThread` | the page of a chat, its socket and the server behind it |
| `Notifications` | the notifications of one person, on the server and in the browser |
| `OrderThread` | the page of an order |
| `OrderBoard` | the board of orders |
| `FrontendSettings` | the account in the browser and the settings that follow it |
| `MCStatusOutbox`, `MCStatusMirror`, `MCProductionFiles`, `MCBsClient` | instances for TLC of one module |
| `MCFiles` | of `OrderFiles`, `StorageCleanup`, `ImageSlots` |
| `MCInbound` | of `StatusMirror`, and of `SyncLoops` for its switch |
| `MCSettling` | of `OrderImport`, `SyncLoops`, `FrontendSettings`: what must come to rest |
| `MCTeam` | of `Assignment`, `Notifications` |
| `MCPages` | of `OrderThread`, `OrderBoard`, `OrderEdits`, `ChatThread` |
| `Sorting` | what the server and the pages do with `orderBy`, `sort` and `filter` |
| `StatusOutboxProofs`, `StorageCleanupProofs`, `BsClientProofs`, `ProductionFilesProofs` | the inductive invariants and the theorems of the module they extend |
| `StatusMirrorProofs` | of `StatusMirror`, and of the switch in `SyncLoops`; extends `MCInbound` |
| `OrderFilesProofs` | of `OrderFiles` and `ImageSlots`, and of the cleaner in `MCFiles`, which it extends |
| `AssignmentProofs` | of `Assignment` and `Notifications`, extends `MCTeam`; and of `FrontendSettings` |
| `OrderThreadProofs` | of `OrderThread`, `OrderBoard`, `OrderEdits` and `ChatThread`; extends `MCPages` |

An MC module of several components has a variable `part`: a behaviour is of one
component, chosen in its first state, and the others keep still. These components share
no state that their properties speak of, so a product of them would show nothing more;
`part` only lets one run ask several questions. The components that do interact are
composed otherwise: `ProductionFiles` is an `INSTANCE` of `StorageCleanup` and takes its
steps, `StatusOutbox` implements `StatusDelivery`, and the modules that stand at two sides
of a call (the outbox and the mirror, the client and the outbox) state what
they assume of each other.

### StatusOutbox

A column of `OrderStatusChange` is a function on row ids; ids are handed out in
order. A process is a backend instance with a program counter `pc` that walks
through `run` and `deliverBatch`; each database statement or transaction and each
BlueSales call is a step of its own, and anything may happen between two steps.

| Code | Actions |
|---|---|
| `updateOrderStatus`, `remove` | `RequestStatus`, `RemoveOrder` |
| `onModuleInit`, `recoverQueueOnStartup`, `releaseStaleLeases`, `claimBatch` | `Start`, `Recover`, `ReleaseStaleLeases`, `ClaimBatch` |
| `deliverBatch`: first GET and its answers | `BeginDelivery`, `ProbeAnswers`, `HandleProbed`, `ProbeFails` |
| groups and their writes | `FormGroups`, `SendGroup`, `BluesalesStores`, `WriteAnswers`, `WriteFails`, `NextGroup` |
| final GET and its answers | `BeginCheck`, `CheckAnswers`, `HandleChecked` |
| `completeChange`, `scheduleRetry`, `failPermanently` | `CompleteChange`, `ScheduleRetry`, `FailMissing`, all through `Close` |
| the catches | `CompletionFails`, `PutBack`, `StepFails` |
| `onModuleDestroy`, or the container stops | `Crash` |
| BlueSales | `BluesalesStores`, `LateWriteLands`, `BluesalesEdit` |

Time is two bits per row, `due` and `expired`; the batching window only delays a
claim. Retries inside the client are the repeated `BluesalesStores` of one call.
History variables: `shown`, what BlueSales has held since the order's last row
closed; `unsure`, rows whose last write has an unknown outcome; `newest`, the
newest row stored per order.

### StatusMirror

One order: its status `local`, the stamp `observed`, open revision cycles, the
sketch mark, and whoever has read something and will act on it later: each import
loop carries the stamp and the answer of its request (`reader`), the outbox its
verification read, the backfill its selection. A status write is one transaction
under the row lock and so one step. The outbox appears at the level of
`StatusDelivery`, as the queue of open rows.

| Code | Actions |
|---|---|
| `updateOrderStatus` | `ChangeStatus` |
| `deliverBatch`, `completeChange` | `WriteLands`, `Verify`, `VerifyAnswered`, `CompleteChange`, `AttemptFails` |
| the import loops up to `upsertOrder` | `Ask`, `Answered`, `ImportFails` |
| `upsertOrder`: before its transaction, the transaction | `Prepare`, `Drop`, `Update`, `Create` |
| `sketchBackfillBatch` | `BackfillFinds`, `BackfillMarks` |
| `reconcileActiveRevisions`, a restart, `setEnabled` | `Reconcile`, `Restart`, `SetEnabled` |
| people in BlueSales | `BluesalesEdit` |

Stamps are only compared, so a stamp is its rank among the live ones and `Tick`
renumbers; `MaxStamp` is the number of stamp holders (the card, the outbox and each
loop) plus one for `now`, so no order of stamps is lost, equal ones included. The
client's queue appears as `IsNextInLine`: a verification read is interactive, so a
background read requested after it is not answered before it. A requeue after a
transient error, which would give that up, is in `BsClient` and not in this module.

The sketch mark is a flag. `upsertOrder` and the backfill decide on it before their
transaction and write it by id, so a mark can be written twice and the later time
stands; the flag does not tell these times apart, and whether it is set does not
depend on when it was read, because nothing clears it.

### StorageCleanup

| Code | Actions |
|---|---|
| `enqueue` | `Enqueue`, part of `ClientStep` |
| `processBatch`: select, remove, delete the row, postpone | `StartBatch`, `RemoveObject`, `DeleteRow`, `Postpone` |
| its outer catch; `nextAttemptAt` | `AbandonBatch`; `BecomesDue` |
| the process stops | `Crash` |

`deletion[k]` is the generation of a key's row and `batch[k]` the generation that the
select read; the row is deleted or postponed only if the two agree. What the callers do
is stated as a contract, `ClientStep`: in one step clients may write objects of live
workers, record fresh keys, hand keys over, end workers and begin to serve objects that
are stored; a worker that ends, a crash included, leaves no object behind that no row
knows of. `ProductionFiles` is shown to be such a client. A key is a name for one write,
so one that nothing refers to stands for a new one; this keeps the instance finite.

### ProductionFiles

The row of one photo in one size, `row`; what the file has to show, `content`; and per
worker its claim, `job`. Objects and deletions are those of `StorageCleanup`, whose
actions the module uses for the cleaner: `writers` are the keys of running claims,
`tracked` is the key of the row, `served` the key of a ready row.

| Code | Actions |
|---|---|
| `ensure` and its callers, `status` with retry, `expedite` | `Ensure`, `Retry`, `Wake` |
| `scheduleDeletion`, the order's data | `RemovePhoto`, `EditOrder` |
| `processNext`: select, conditional update | `Find`, `Claim`, `ClaimLost` |
| `prepare` up to the upload | `CheckBefore`, `Requeue`, `RequeueFails`, `Render`, `CheckAfter`, `Upload` |
| `prepare`: final update, unused result | `Publish`, `PublishMisses`, `Discard` |
| `prepare`: the catch; the catch of `processNext` | `StepFails`, `GiveUp`; `GiveUpFails` |
| `leaseUntil`, `nextAttemptAt`, nothing renews a lease | `LeaseExpires`, `DeletionBecomesDue`, `Outlive` |
| `StorageCleanupService` | `CleanerStep` |

The fingerprint is compared with the order and the source before and after the
rendering; both are the `version`. The key of a claim contains its `runToken`, so a key
stands for both, and `made` (history) tells which version was uploaded under it.
Two switches name what is assumed: `SlowWorkers`, whether a worker may take longer than
its ten minutes, and `LostAnswers`, whether a commit may be reported as a failure.

### BsClient

A call of `send` has a `status`; its items go through `queue`, and one is `active`, in a
`phase`: `waiting` for the end of a pause, `ready` to be sent, on the `wire`, or in
`backoff` between two attempts.

| Code | Actions |
|---|---|
| `send`, `schedule`, `dispatchWithRequeue` | `Send`, `Requeue`, `TransientError` |
| `processQueue`, `takeNext` | `Advance` with `Foremost`, part of the step that ends an item |
| `waitIfPaused`, `waitForRequestGap` | `Begin` |
| `sendRaw`: switch and schedule, `fetch` | `Refuse`, `Post` |
| foreign session, busy: wait and repeat, or give up | `Retry`, `Wake`, `Exhausted` |
| timeout, broken connection | `LoseAnswer` |
| 404, invalid JSON, login and API errors | `HardError` |
| success, `recordSuccess` | `Succeed` |
| `pauseForMinutes`, `unblock`, the end of the pause | `Pause`, `Unblock` |
| `setEnabled`, the night | `OpenOrShut` |
| BlueSales | `Process`, `ProcessLate` |

Between two awaits nothing else runs, so an idle client takes an item in the step that
schedules it, and the next item is taken in the step that settles the one before. Time is
`spent`, counted since the first attempt of the active item. Only the first attempt can
wait for the gap between requests, as every delay of a retry is longer. A retry does
not look at the pause again: it belongs to the request that was under way, which
`PauseHoldsBack` lets through. The comment at line 330 speaks of one ceiling per logical
request; it covers one item. A user's request that comes back to the queue is a new item with a
window of its own, so a call may last up to `1 + MaxRequeues` windows; `AttemptsStartInTime`
is stated of an item, because that is what holds the others up. History: `processed`,
`lost`, `passed`.

### OrderImport

One number of BlueSales, which may be given to a new order there; the local order
with that number; and the workers that import it, each with the rows of its answer.

| Code | Actions |
|---|---|
| crons and the startup import, the refresh loop, the button of the card | `AskWindow`, `AskById` with `AnswerRefresh`, `AnswerManual`, `Prefetch`, `NextRow` |
| `upsertOrder`: known order, order of the same number, relink, order without a link, new order | `Update`, `LookUp`, `Relink`, `CreateInfo`, `Create` |
| `tryAutoAssign`, `syncOrderArtistsToBluesales` | `Assign`, `Compare`, `Send` |
| `remove` with its question to BlueSales | `AskToRemove`, `Remove` |
| the catches | `Fails` |
| BlueSales | `CreatedAgain`, `RemovedInBluesales` |

### SyncLoops

| Code | Actions |
|---|---|
| `currentSyncSchedule` | `NextPhase` |
| `setEnabled` with `pendingUpdate` | `SetEnabled`, `WriteSwitch`, `AnswerSwitch`, `SwitchFails` |
| `runRefreshLoop`, `refreshBatch` | `TakeBatch`, `BatchAnswered`, `RefreshRow`, `MoveMissing`, `EndBatch`, `BatchFails` |
| `enqueueOrderRefresh`, `pumpManualRefreshes` | `EnqueueOrderRefresh`, `PumpNext`, `PumpAnswered`, `PumpFails`, `PumpEnds` |

`lastSyncedAt` is only sorted by, so `queue` is the orders in that order. A write of the
switch may be reported as failed and have been done (`lost`); then the two copies differ
until the next request, and `SwitchIsSaved` says when they may.

### OrderEdits

| Code | Actions |
|---|---|
| `update`: order read, photos and pins checked, transaction | `Update`, `Check`, `Write` |
| `update`: dates of the sketch | `UpdateDate`, `CheckDate`, `WriteDate` |
| `updateComment`: read, call to BlueSales, transaction | `UpdateComment`, `SendComment`, `SaveComment` |
| `updateCrmStatus` | `UpdateCrmStatus` |
| the import of the order | `AskImport`, `Import`, `ImportFails` |
| people in BlueSales | `EditRemote` |

`wanted` (history) is what was added and never asked to be removed; the photos and
pins of the order contain it, since a request writes what it adds and removes
(connect and disconnect) and never the list it has read.

### OrderFiles

One or two orders and the attachments they have of a few originals. A key
stands for the original and its two previews.

| Code | Actions |
|---|---|
| `OrderLifecycleService.tick`: pages of orders, marks, rearming | `StartTick`, `Mark`, `Rearm`, `EndTick`, `RowFails` |
| `tick`: pages of marks, `deleteBatch` | `StartActions`, `DeleteBatch` |
| `tick`: automatic completion through `updateOrderStatus` | `CheckOrder`, `Complete` |
| messages and `orders.update` that attach, `orders.update` that removes a photo | `AskToAttach`, `Attach`, `RemovePhoto` |
| `orders.remove` | `AskToRemove`, `RemoveOrder`, `RemoveObjects` |
| upload, `processAttachment` with every failing call | `Upload`, `Preview`, `RenderFails` |
| `StorageCleanupService`, in one step; its ten minutes | `Delete`, `BecomesDue` |
| seven days; the process stops; everybody else | `Tick`; `Crash`; `SetStatus` |

An original that somebody attaches while it is being deleted, between the question for
its metadata and the insert, is lost to that attachment, and so are those of an order that
is removed, since `orders.remove` does not ask who else uses them. `spoiled` (history)
names these keys and `SharedOriginalsStay` excepts them; see "Known limits".

### ImageSlots

`ImagePreviewQueue`: `Run` is a call of `run`, which waits in the list; `Start` and `EndDrain`
are the loop of `drain`, which nothing interrupts; `Finish` is the `finally` that gives the slot
back. `counts` are the counters the code keeps, `running` and `waiting` what they count.

### Assignment

A call of `maybeAssign` goes from one `await` to the next; `last` is the cursor of a
circle (a direction and a role), `holder` the transaction that has locked it.

| Code | Actions |
|---|---|
| `getAssignSettings`: cache, the load that is under way, failure, expiry | `Enter`, `Loaded`, `LoadFails`, `CacheExpires` |
| `maybeAssign`: order, roles, direction; `assignNext`: lock and choice, commit | `ReadOrder`, `LockCircle`, `Commit`, `TurnFails` |
| `orders.update` with artists; its events, written afterwards | `BeginEdit`, `WriteEdit`, `RecordEdit`, `RecordFails` |
| `users.update`, `setShift`, `shift-reset.job` | `BeginUserUpdate`, `WriteUser`, `SetShift`, `ResetShifts` |
| settings of statuses, tags of leads, the assignment's hours, a restart | `SetAssigning`, `SetTags`, `TurnOfTheHour`, `Restart` |

`passed` (history) is, per artist who is waiting in a circle, who had a turn meanwhile. An artist whose
shift ends or whose directions change leaves the circle and starts anew. `unrecorded`
(history) names artists whose event was lost with the process or a failing insert:
`update` writes its events after its transaction, and nothing repeats them.

### ChatThread, OrderThread, OrderBoard

A page has a set of `calls`; each goes through its steps at the server (`Serve`, `CallStep`) and is
answered (`Answer`) or fails (`Fail`) at any time later, in any order with the others. Events travel on
`wire`. A value of a text or field is the number of the edit it comes from.

| Code | Actions |
|---|---|
| `ChatThreadPage`: `load`, `loadOlder`, `handleSend`, `saveEdit`, members | `Open`, `LoadOlder`, `HandleSend`, `SaveEdit`, `ChangeMembers`, `Leave` |
| `useChatSocket`, the gateway's rooms and events | `Join`, `Reconnect`, `Hear`, `Emit` |
| `chats.service.ts` | `Serve` (`CreateMessage`, `UpdateText`, `UpdateChat`, `RemoveChat`, `ListPage`), `WrittenElsewhere`, `EditedElsewhere` |
| `OrderThreadPage`: `loadAll`, `poll`, `loadOlder`, `jumpToPinnedSketch` | `Open`, `Poll`, `LoadOlder`, `JumpToPinnedSketch` with `AnswerJump` |
| `OrderThreadPage`: comment, fields, edit dialog, message | `TypeComment`, `SaveComment`, `SaveField`, `OpenEdit`, `SaveEdit`, `SendMessage` with `AnswerSend` |
| `OrdersPage`: `reloadAll`, `refreshNext`, `fetchColumnPage`, `handleColumnNearBottom`, query | `Reload`, `Refresh`, `Fetch` with `Answer` and `Fail`, `LoadMore`, `ChangeFilter` |
| `OrdersPage`: `moveOrderToColumn`, the poll of pending orders | `MoveOrderToColumn` with `AnswerMove` and `FailMove`, `Poll` |
| `findAll`, `getOrderStatusSync`, `updateOrderStatus` as these pages see them | `FindAll`, `Synced`, `ServeMove`, `MovedElsewhere` |

The state of React and the refs that follow it change in one step here: handlers that run
between a `setState` and its render are not modelled.

### FrontendSettings

`AuthProvider`: `Login`, `Logout`, `Load`, `TimerFires` (the half second after the last change),
`SetOnShift`, the answers; `OrdersPage` with its own copy of the settings: `OpenBoard`, `ApplySettings`,
`ChangeBoard`, `LeaveBoard`; `NotificationsPage`: `SwitchSound`; another device: `ChangedElsewhere`.
`SlowAnswers` says whether the answer to a write may arrive after the next change; the run
sets it to FALSE, see "Known limits".

### Notifications

| Code | Actions |
|---|---|
| `notifyChatMessage`: insert with the key of the chat | `Message`, `InsertChat` |
| `notifyOrderStatus`: settings, people of the order, insert | `EnterStatus`, `Recipients`, `MatchPeople`, `InsertOrder` |
| `emitCreated`: counts, events; failures | `CountCreated`, `EmitCreated`; `NotifyFails` |
| `markAllRead`, `markOneRead`, `markChatRead`, `list`, `unreadCount` | `ServeMark`, `ServeRead`, `ServeEmit` |
| 30 days, `purgeExpired` | `Expire`, `PurgeExpired` |
| `NotificationsContext`, `NotificationBell`, the page of a chat | `SignIn`, `Hear`, `Disconnect`, `OpenBell`, `HandleToastRead`, `OpenChat`, `Answer` |
| settings, members, muted chats, artists of the order | `Change` |

`owed` (history) is the chats with a message the person is to learn of and has not marked
as read; `NoMessageIsHushed` says that each has an unread notification.

## Runs

| Run | Instance | Shows |
|---|---|---|
| `outbox` | 2 orders, 2 statuses, 1 process, 3 changes, 1 fault, 1 foreign edit | BlueSales never goes back to an older change (`WritesInOrder`), and holds the last request when the queue is empty (`LastRequestStands`) |
| `outbox_two` | 1 order, 2 processes, 2 changes, 1 fault, late writes, fairness | FIFO per order (`HeadOfLine`, `RefinesDelivery`) and no rewrite without a read (`NoBlindRewrite`) across processes; `EveryRequestCloses` |
| `inbound` | 2 loops, 2 changes; the switch with 2 requests of administrators, 2 phases, 1 lost answer | `CardShowsLastRequest`, `ImportsAreFresh`, `RevisionsTakeTurns` with two answers in flight; `SwitchIsSaved` |
| `mirror_live` | 1 loop, 1 change, 1 edit or switch, 1 fault, fairness | `ReworkHasRevision` across restarts, `Converges` |
| `production` | 2 workers within their leases, 3 keys, 1 edit, 2 faults | `ReadyIsServed`, and `KeepsContract`: the service implements the contract of the cleaner |
| `production_live` | 2 workers that may outlive their leases, lost answers, 2 keys, 1 edit, 1 fault, fairness | `ReadyIsCurrent`: an overtaken worker cannot touch the row; `Settles` |
| `production_lost` | 1 worker, 1 fault, lost answers | **violated** `ReadyIsServed`: the catch deletes the object of a ready file |
| `bs_client` | 2 users' requests, 1 background read, 1 requeue, 2 retries, 1 pause or switch, fairness | `AttemptsStartInTime`, `RepeatsOnlyAfterLoss`, `PauseHoldsBack`, `EveryRequestSettles` |
| `settling` | an order that is created again, a cron and the refresh loop; 2 orders in batches of 1, 2 switches, 2 phases, 2 manual refreshes; 1 account with 2 settings; fairness | `LinkSettles`; `EveryOrderComesRound`, `ManualRefreshIsServed`; `SettingsAgree` |
| `files` | an order with a file and 2 changes and a fault, or 3 changes; a file that 2 orders share; an order with 2 files in batches of 1; 2 orders to be completed; the cleaner with 2 keys and 3 generations; 6 jobs for 2 slots; fairness | `SharedOriginalsStay`, `ManagerDecides`, `CleanupCompletes`; `NoOrphan`, `ServedStays`, `HandedOverIsGone`; `SlotsAreCounted` |
| `team` | 2 orders, 2 artists, 2 calls, 1 manager; 1 chat and 1 status to be notified of, 2 notices | `FairTurns`, `ManualStays`, `HolderIsInJournal`; `NoMessageIsHushed` |
| `pages` | 3 messages in pages of 1, or a new order and 2 edits; 2 orders in 2 columns, 1 search; 2 editors and an import; a chat of 2 or 3 messages in pages of 1 | `HistoryHasNoHole`, `DraftIsKept`; `ColumnsMatchTheFilter`; `AdditionsStay`; `ThreadHasNoHole` |

Bounds. In the outbox two rows per order are enough for every pairwise order of changes, the third
puts a batch of two orders beside a waiting row. One fault reaches each failing
statement; in `production` two reach a fault during the recovery from a fault. One
foreign edit tells "the status we wrote" from "the status they set". Three statuses in
`StatusMirror` are the two that drive revisions and the sketch status; an edit and a
switch share one budget. In `StorageCleanup` and `ProductionFiles` keys return to use
once nothing refers to them, so a run may be longer than its set of keys; three keys are
two claims and a deletion that is under way. `MaxGeneration` bounds how often a
key is handed over while its row exists: in `ProductionFiles` each key is handed over at
most twice, so the bound is never met; in `StorageCleanup` one generation above
the one that was read is what a late request makes, and the next is a request after that. In `BsClient` two users
and a background read are the fewest for a requeued request to meet both kinds in the
queue; a window of three units ends within two retries, so both of its ends, the
window and the number of attempts, are met.

The other instances are the smallest in which the hazard can happen: two calls at one cursor
with a manager beside them; a file with two owners; a page size of one, so that every
list has a seam; one edit or message that overtakes an answer, and one failing request. Orders
of an instance may start in any of the states its `Init` allows (an order that is already due
for cleanup, a preview that is missing, a cursor that names an artist), which spares the
steps that lead there. In `files` the two lifecycle workers run in different parts, as each needs a state of its
own kind and they meet only in the status of an order, which managers change in either part (`Confined`).

Deadlocks. All runs disable the deadlock check: requests, edits and faults are bounded, and a
system without open requests rests.

Fairness. `run` loops for ever and each of its awaits ends (database calls, and BlueSales
calls with a timeout), so a process that can step does. A received request is
processed by BlueSales, backoffs and leases elapse, and docker restarts a stopped
container. The refresh loop sorts by `lastSyncedAt` and so comes round to every order
within its look-back window, which `EveryOrderComesRound` checks and `Converges` assumes. The sketch backfill
sorts the unmarked orders by age and marks them in batches. The scan of
production files passes all photos attached for print, workers are started by an
interval and every call of `prepare` ends. The cleaner runs every five seconds; strong
fairness of `RemoveObject` and `DeleteRow` says that a removal that is retried for ever
succeeds at last, which a lasting failure of MinIO would break. In the client the timers
of the gap, the backoff and the requeue fire, a request is answered or aborted by its
timer, and a pause has an end; BlueSales need not process anything. The lifecycle workers
and the previews run on intervals that nothing stops; a render whose original is gone
fails, as `sharp` cannot read it. In `settling` the loops, the pump and the
requests go on to their next `await`, calls are served and answered and timers fire; an answer may
still be overtaken by any other. `inbound`, `team` and `pages` check safety only and assume no fairness. People are not fair:
no request, edit or switch has to happen, and faults are bounded, never forced.

## Proofs

Every theorem holds for all values of the constants that satisfy the named assumptions of its
module: any sets of orders, processes, workers, artists and keys, any bounds. Each proof has
the same shape: `Init => IInv`, `IInv /\ [Next]_vars => IInv'` with one step per action,
`IInv => Inv`, and `PTL`. What the theorems state was given to TLC before it was proved, and so
were most of the invariants. Where a step changes little, a lemma says what follows from that (`QuietStep`, `AskKeeps`, `GoesOn`),
and the proof of each such action only shows that it is one of them.

Each safety property of a run is stated by a theorem. The runs of several modules have their theorems about
`MCSpec`, so a proof module extends the MC module of its run: a behaviour of `MCSpec` is a behaviour of each module it puts
side by side, as one that stands still stutters (`PagesAreTheirs`, `PartsAreTheirs`), and the theorem about the module applies.
The initial states and the budgets that an MC module fixes are not used for that.

**The outbox** (`StatusOutboxProofs`): `TypeCorrect`, `DeliversHeads` (`HeadOfLine`),
`QueueIsKept` (`RefinesDelivery`), `ReadsBeforeRewriting` (`NoBlindRewrite`), with any number of
processes, crashes, expired leases and late writes.

- `HeadOfLine` alone is not inductive. A new row could be older than one in delivery,
  so `RowsInv` says that rows at or above `nextId` do not exist yet; then a request
  appends at the end, the claim picks only rows without an
  earlier open one, and every other action moves rows out of the active states or from
  one waiting state to another (`CloseStep`, `QuietStep`). Leases and tokens are not
  needed for this property: a row that loses its owner stays `PROCESSING`, and so
  still blocks its successors.
- The refinement needs `ShownInv`: what a process has read of a row it still owns is among
  what BlueSales has shown since the order's last row closed. It is here that leases and tokens
  matter: a process that lost its row can no longer close it, and one that still has it has blocked every other
  row of the order since its read. Each action is then a stutter of `StatusDelivery` (`Stutters`), a
  change in BlueSales (`ChangesBluesales`), a request, a removal, or the closing of the oldest row (`CloseRefines`).
- `UnsureInv`: a row whose last write may have landed is open, and a process that holds it
  has not passed its first read.

**The order of writes** (the second half of `StatusOutboxProofs`): `OlderNeverOverwrites` (`WritesInOrder`) and
`LastOneStands` (`LastRequestStands`), provided that there is one process (`OneProcess`) and that
requests end with their calls (`LateWrites = FALSE`). This is the deployment the repository documents;
TLC finds both properties violated without either proviso. `FifoInv` orders the rows of an order
by their states, `WireInv` says that a write under way carries the oldest open row of each of its orders and
nothing newer has been stored, `StandsInv` that what was read or delivered still stands as long as nobody edits.

**One order's status** (`StatusMirrorProofs`): `CardIsRight` (`CardShowsLastRequest`),
`ImportsStayFresh` (`ImportsAreFresh`), `ReworkIsTracked` (`ReworkHasRevision`),
`TurnsAreTaken` (`RevisionsTakeTurns`), `EntryIsMarked`, `TypeCorrect`.

- `FreshInv` is the argument behind the stamps: a loop whose answer does not know the last change
  (`Stale`) has either asked no later than the stamp on the card, or meets an open row that no answer
  closes before a read that was made after its request (`Beaten`). `LandedInv` connects the queue with what BlueSales has, `StampInv` bounds
  the stamps by the clock.
- `ImportsStayFresh` has the proviso `SwitchedOnWhenIdle`: the import is switched on only while no loop
  holds an answer. Nothing in the code ensures it, see "Known limits".
- `TypeCorrect` is not by inspection: `Tick` renumbers the stamps, and needs at most one number
  per loop plus three. This is a counting argument over the finite set of loops (`ReadersAreFinite`).

**The cleaner** (`StorageCleanupProofs`): `ObjectsAreTracked` (`NoOrphan`), `ServedObjectsStay`
(`ServedStays`), `LateUploadsAreSeen`, for a positive bound on the generations, which is a hypothesis. In `OrderFilesProofs` the first two become
`NothingIsForgotten` and `ServedFilesStay` of the run `files`; the module is an `INSTANCE` there, and so are its theorems. The cleaner removes an object first and its row afterwards,
so `NoOrphan` alone breaks when an upload lands in between. `LateUploadIsSeen` is the missing part: such an
object belongs to a live worker, or the worker has ended and has then handed the key over again, which moved the
generation on and makes the delete miss. `Apart` keeps the two halves of a key's life apart.

**Production files** (`ProductionFilesProofs`): `ContractIsKept` (`KeepsContract`), `ReadyFilesAreServed`
(`ReadyIsServed`), `NothingIsOrphaned`, all provided that workers end within their leases
(`~SlowWorkers`) and commits are answered (`~LostAnswers`); `ReadyFilesAreCurrent` (`ReadyIsCurrent`) without any
proviso. `JobInv` says that claims have keys of their own, and that a worker whose key the row still has also has the row's version;
`LeaseInv` that a worker has its row or knows that it is lost, and that its key then waits for the end of the lease. The
refinement maps each step to a step of a lawful client or to a stutter; the invariant of the
cleaner is not proved again but instantiated, `Files!IInv` of `StorageCleanupProofs`.

**The client** (`BsClientProofs`): `WindowIsKept` (`AttemptsStartInTime`), `RepeatsAreJustified`
(`RepeatsOnlyAfterLoss`), `PauseIsKept` (`PauseHoldsBack`), `UsersComeFirst`.
`QueueInv` keeps an item in one place and says that an idle client has nothing in its
queue, without which a call scheduled into it would overtake others. `LossInv` counts:
what BlueSales has processed and may still process is at most what was lost, plus one for
the attempt on the wire or the last one of a finished call. `PauseInv` names the one
request that may pass. The library states nothing about `RemoveAt`; `RemoveAtShifts` does.

**The assignment** (`AssignmentProofs`): `TurnsAreFair` (`FairTurns`), `ManualHolds` (`ManualStays`),
`HolderIsNamed` (`HolderIsInJournal`), `TypesKept`.
Fairness of turns is an order on a circle: `After` and `Reaches` say where an artist is on the way round from the last turn,
and `TurnInv` that everybody who had a turn while somebody waited lies on the way that has been gone since, and that the turn which is
being given does not pass over who waits. `LockInv`, that a call with a choice holds the lock of its circle, keeps that choice valid
until the commit. `JournalInv` speaks of the artist that each edit under way has seen as well: an edit that finds its own
artist there writes no event, so that artist must be known already.

**Notifications** (`AssignmentProofs`): `NoChatFallsSilent` and `NobodyIsLeftOut` (`NoMessageIsHushed`), provided that the empty key is no
chat (`NobodyIsNoChat`, which `MCTeam` evaluates). A new
message makes no notification while there is one with the key of its chat. That this hushes nothing rests on the rows
(`IsNotice`): a row that has a key is unread and is about the chat of its key, as every way to mark one as read takes the key away.

**The slots** (`OrderFilesProofs`): `SlotsStayCounted`, `CountersAgree` (`SlotsAreCounted`), `NoSlotIsIdle` (`NoSlotIdles`), `UrgentGoFirst`
(`UrgentFirst`), for positive limits. The counters
agree with the queue and the running jobs only if no job is in the list twice or both waiting and running (`PlaceInv`).
Between two calls a slot is free only if no waiting job could take it: `drain` does not end before.

**The switch** (`StatusMirrorProofs`): `SwitchIsKept` and `SwitchIsRemembered` (`SwitchIsSaved`), without any assumption. `SwitchInv`: of the requests that wait in
`updateQueue` only the oldest can be in the database and not yet in force, and then the database has what it asks for.

**The end of an order's files** (`OrderFilesProofs`): `OriginalsAreKept` (`SharedOriginalsStay`), `LateOnesWait`
(`LateOnesGetTheirTerm`), `ManagersDecide` (`ManagerDecides`), `TypeCorrect`, provided that the number of orders, the term and the page
are natural numbers and a page holds a row (`LimitsAreNatural`).

- The heart of the first is the count in `deleteBatch`: an original goes to the queue only if no row outside
  the batch has it. The batch holds at most a page of an order's rows, so the proof first shows what
  `Deletes` may take and leave (`DeletesOrNot`). `RemovalInv` covers the other way to the queue: `orders.remove` hands over
  originals without a count, but only once its order is gone, and what other orders lose by it is in `spoiled`.
- `TermInv`: a running term began no earlier than the late attachment came, as whatever comes after a cleanup
  waits for a new term (`rearmed`). Without it the age of the tag says nothing of the age of the attachment.
- `ManagersDecide` does not rest on what the lifecycle has read, but on the status that `updateOrderStatus` compares in
  its own transaction (`expectedStatusId`).

**The card of an order** (`OrderThreadProofs`): `AdditionsAreKept` and `AdditionsAreNotLost` (`AdditionsStay`), without any assumption: a request
that has got as far as the lists of photos and pinned sketches names what it adds or removes (`IsEdit`), so what others have changed since
it read the order stays, whatever it has read.

**The page of an order** (`OrderThreadProofs`): `NoHole` (`HistoryHasNoHole`) and `DraftSurvives` (`DraftIsKept`), provided
that pages hold a message (`LimitsAreNatural`).

- `IsPage` is what the server promises with an answer: each message from the cursor of the answer up to the id it was asked for, and
  nothing else. `History` is what the page shows: all of them from its cursor to the newest it was loaded with.
  Each request under way then carries a page that goes on where the history begins, if it is still `Awaited`; two requests that hold the
  same lock (`Rivals`) are never awaited at once, so none of them can find the cursor moved. A jump collects pages one by one, and `Collected` says that what it has
  so far has no hole either, although the page shows it only at the end.
- A draft is locked while it is being saved, so a request that saves the comment carries the draft that the
  page shows, and its answer replaces nothing else.

**The page of a chat** (`OrderThreadProofs`): `ChatHasNoHole` and `ThreadIsWhole` (`ThreadHasNoHole`). Here a message comes by three ways, the answer to the
page's own request, an event of the socket and a page of older ones, which overtake each other. `GoesOn` states what each change of the page keeps:
an id is shown once and none is lost; `ShowNew`, `ShowText` and `Prepend` are shown to do that. `Expected` says of a request what it may still bring.
A page that is loading or has failed has no history yet, though it may have heard of messages.

**The board** (`OrderThreadProofs`): `ColumnsAreFiltered` and `BoardShowsWhatIsAsked` (`ColumnsMatchTheFilter`), provided that the orders are finitely many
numbers and the columns a list (`BoardAssumption`, which `MCPages` evaluates).

- `RequestsInv`: of the requests for a column at most one counts, as the next one takes the version away from it.
  `FreshInv` is about that one: it was made for the filters that are set, and either the column already shows only what they let
  through, or it is loading and the answer replaces all of it. A reload after a change of the filters establishes the second case for each column at once,
  the answer turns it into the first. A background refresh may fail and leave the column as it is, so it may only begin in the first.
- An answer puts together as many pages as were asked for. `Flattened` proves that `FlattenSeq` of lists of cards is a list of cards, whatever
  their number: `FlattenSeq` is a recursive function, whose existence and whose type are shown by a least counterexample.
- A card that is dragged changes its column before the server knows; `CardsInv` shows that no such step brings in an order that neither passes the
  filters nor was dragged.

**The settings** (`AssignmentProofs`): `SettingsAgreeAtRest` (`AgreesAtRest`), the safety half of `SettingsAgree`, provided that an answer comes before
the next write (`~SlowAnswers`) and that nobody is no account; it speaks of the time before the first failure. `AccountsInv` keeps the form of what
travels: a page, a request and an answer each carry a profile of an account, and the profile of an account carries its name. `AgreeInv` is the argument:
at most one request that refreshes the settings is under way, it is of the account that is signed in, an answer carries what the server has until it is heard,
and a browser that has nothing to write and waits for nothing has what the server has. Signing in needs most of it: a request of the one who was there
before must not be answered after the sign-in, which holds because a page asks no one new while it waits. Both provisos are needed: TLC finds
`AgreesAtRest` violated without the first, and a write that fails is left to the next one.

What proving changed in the model. Two definitions had `CASE` arms that overlap, where TLC takes the first and
the logic takes any: the tracking of revisions in `StatusMirror` and `Check` in `ProductionFiles`. They are
disjoint now. The bound on `attempts` that the type invariant of `ProductionFiles` had was false: a worker that
puts its job back after the data changed there and back again counts up each time, so the type is `Nat`.
The finiteness of the loops, the shape of the list of directions and what a board is made of (`BoardAssumption`) were silent assumptions and are
named now. Lists are sorted by rank and filtered by their places (`Ascending` and `Sublist` of `Sorting`): the operators of the libraries for
this are recursions the prover cannot look into, and the definition by rank is as plain. In `OrderThread` whether a new
message has files to upload is a parameter of `SendMessage` (`todo`).

The bound on the generations was an assumption of `StorageCleanup` and is a hypothesis of its theorems now, since a module that
has an assumption can only be instantiated where it is shown.

Only model-checked. Liveness (`EveryRequestCloses`, `Converges`, `Settles`, `EveryRequestSettles`, `LinkSettles`,
`EveryOrderComesRound`, `ManualRefreshIsServed`, `SettingsAgree`, `HandedOverIsGone`, `CleanupCompletes`) is out of the
reach of the prover, as is everything with `ENABLED`; fairness is only used there. Induction over the length of a list is not available as a rule, since its library theorem
takes an operator as a parameter; where a list of any length matters, the proofs take the least index that fails (`LeastExists`).

## Findings

`production_lost`: `README.md:80` of the repository says that a prepared file is downloaded
from the cache. When the update to `READY` commits but its answer is lost, the catch
schedules the object for deletion while the row stays ready.

## Known limits

The properties above are stated for what the code can keep. What it does not keep, and
how a property says so:

- A write to BlueSales that was given up on may land after a newer change of the order (`LateWrites`);
  `docs/order-status-batching.md:17` has the next change wait until the previous one is finished. A second backend process
  that holds an old answer has the same effect on `LastRequestStands`.
- `setEnabled` (`bluesales-inbound-sync.ts:41–54`) waits for no loop, and a confirmation while the import is off does not move the
  stamp that `schema.prisma:209` describes as the protection against stale answers. Switched off and on again during one
  request, an import rolls a confirmed change back; `SwitchedOnWhenIdle` excludes it. A rejected initialisation
  of the switch is remembered until the restart (`bluesales-inbound-sync.ts:18`).
- Nothing renews the lease of a production file. A worker that outlives it, uploads after the
  deletion of its key was carried out, and dies in a restart leaves an object that no row knows of.
- Relinking by number: the comment at `bluesales-sync.service.ts:1308–1310` gives priority to the greater id whatever the order of events;
  the row of an import that is already under way by the older id still writes through. `LinkSettles` only says where it ends.
- A row whose import fails every time stays at the head of the refresh queue; an order that an import has seen before
  `orders.remove` is created again by it (`orders.service.ts:1415`); the link to an order that was deleted in BlueSales stays.
- An order that loses and regains its eligibility between two visits of the lifecycle keeps its old term
  (`order-lifecycle.service.ts:48`). `orders.remove` deletes originals that other orders share, and leaves objects behind
  when the process stops after its transaction (`orders.service.ts:1441`); an original that is attached between its question for metadata
  and the insert may be gone (`spoiled`). A print photo that is removed leaves its original.
- The sketch mark is decided on before the transaction that sets it, so the backfill may write a later time over
  it (`bluesales-sync.service.ts:1134`). Start and end of the sketch are checked against what was read, each by its own request, so two requests
  together can cross them. `updateComment` returns early on what it has read. A CRM status is never sent to BlueSales.
- The journal is written after the transaction of an edit, and a failure or a restart loses the event.
- An event that counts unread notifications may overtake a newer one, and a badge of 0 silences the signal that
  `NotificationsPage.tsx` promises while there is an unread notification. A notification that expires unpurged hushes its chat
  for up to an hour. One that arrives between the list and `markAllRead` is marked unseen. A new order is announced before its
  artist is assigned, so filters by artist miss it.
- The socket of `ChatThreadPage` is replaced at every render and does not ask for what it missed. `emitChatUpdated` sends the
  actor's own `notificationsEnabled` to all. Events about one message may arrive out of order.
- In `OrderThreadPage` other people's messages appear only after a reload; a text that is typed while a message is being sent is
  cleared with it; the edit dialog writes back every field it was opened with.
- On the board, pages that are read one by one skip or repeat an order that moves between them, until the next refresh.
- Settings are written as one object: writes of two devices, or two writes under way (`SlowAnswers`), overwrite each other. A setting
  that is changed while an answer is under way is replaced by the answer before it is written, although
  `AuthContext.tsx:63–64` says that writes always send the freshest value; `FreshestIsSent` states that and does not hold.

## Not modelled

Metrics, diagnostics and deployment; leads, dictionaries and the pages of the full
import; creating orders by hand, the search and its cache; signed addresses and
streaming of files, attachments of messages; passwords, roles and the check of tokens; the pages for workload,
metrics, users and production files; layout and wording; pixels: that equal parameters and an
equal source make the same image is the `version` of `ProductionFiles`.

The map covers about a fifth of the lines of the implementation. Most of the rest is JSX and styling of the pages, DTOs,
controllers that only pass a call on, mapping of BlueSales' answers to columns, and reports.

## What is left

The components with state of their own are modelled, and the safety properties of the runs are proved. What could be said
beyond that: that the board shows an order at most once in a column while nothing moves it; what an import may leave behind when it relinks a number
(the safety half of `LinkSettles`); the type invariants of `OrderImport`, `Notifications` and `FrontendSettings` as theorems; and an instance
of the outbox next to the client, so that the fairness one assumes of the other is shown.
