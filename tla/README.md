# Chytanka in TLA+

Chytanka is the firmware of an ESP32 e-paper reader: one Arduino program, two
FreeRTOS tasks that matter for its screens and a third for its dictionary, an SD
card that holds the books and everything the firmware remembers, a radio by which
two readers exchange files, and a flash with two images of the firmware. This directory holds TLA+ models of the
parts where its logic is hard to test, TLC configurations that check them on
small instances, and proofs that TLAPS checks for every instance.

The firmware's own code is under `src/src` and `src/lib`; a path without a
directory in front, such as `activities/ActivityManager`, is under `src/src`.

1. [Inventory of the system](#1-inventory-of-the-system)
2. [Modules](#2-modules)
3. [Screen manager](#3-screen-manager)
4. [Files on the card](#4-files-on-the-card)
5. [Renaming a book](#5-renaming-a-book)
6. [Sending a file to another reader](#6-sending-a-file-to-another-reader)
7. [Looking a word up](#7-looking-a-word-up)
8. [Firmware updates](#8-firmware-updates)
9. [Runs, bounds and fairness](#9-runs-bounds-and-fairness)
10. [Findings](#10-findings)
11. [Proofs](#11-proofs)
12. [What is not modelled](#12-what-is-not-modelled)
13. [Plan](#13-plan)

## 1. Inventory of the system

### How the parts interact

- `main.cpp` runs `setup()` once and then `loop()` for ever on the *main task*.
  Each turn may run a global shortcut (`ButtonShortcutController`) and then
  calls `ActivityManager::loop()`.
- An **activity** is a screen: a heap object with `onEnter()`, `loop()`,
  `render()` and `onExit()`. `ActivityManager` owns the current one, the stack
  of those suspended under it, and the one that waits to be launched. All
  callbacks except `render()` run on the main task; `render()` runs on the
  *render task*, holding `renderingMutex` (a `RenderLock`).
- Activities ask for navigation (`startActivityForResult`, `replaceActivity`,
  `finish`) and for painting (`requestUpdate`, `requestUpdateAndWait`). A
  navigation is only recorded; `ActivityManager::loop()` performs it later.
- The stores (settings, recent books, statistics, bookmarks, clippings) are
  singletons or values which activities call synchronously. They write files
  through `HalStorage`, by temporary file, backup and rename. Power can go at
  any time: the device is a handheld that is switched off by pulling a battery
  or by running it down.
- Network activities own the card or the radio while they run; the USB drive
  activity detaches the card from the firmware altogether.

### Components

For each: its state, its operations, what is hard, and what makes it correct.
The status is the one of `PROJECT.json`.

| component | state | operations | hard because | correct when | status |
|---|---|---|---|---|---|
| Screen manager and render task (`activities/ActivityManager`, `RenderLock`) | current, stacked and pending activity, pending action, result handlers, hand-off flags, mutex, waiter slot, two task notifications | push, replace, pop, deferred and synchronous updates, gestures, drawers, alerts | two tasks; requests that overwrite each other; callbacks that navigate from within navigation | no activity is destroyed while it is painted, none leaks, no wake-up is lost, a synchronous update shows what was changed, drawers cover the right pixels | partly |
| USB drive session (`network/UsbDriveActivity`) | the card's owner | enter, detach, restart | the card must not be used while the host has it | paint before detach; nothing replaces the owner | partly |
| Boot, main loop, shortcuts (`main.cpp`, `SilentRestart.h`) | boot snapshot, sleep state | setup, loop, sleep, silent restart | what survives a restart | the loop is never starved; the resumed screen exists | partly |
| Atomic documents and recent books (`PersistableStore.cpp`, `RecentBooksStore`) | `recent.json`, `.tmp`, `.bak`, `recent.bin`, the list in memory | load, migrate, update, move | power loss and failing operations between any two steps | the old list or the new one is always readable; memory and card agree | partly |
| Per-book statistics (`reader/BookReadingStats`) | `stats_v5.bin`, `.tmp`, `.bak`, files of older versions | load with recovery, save, reset | three recovery sources that compete | published statistics survive; a reset resets | partly |
| Global statistics (`reader/GlobalReadingStats`) | `global_stats.bin`, `.bak`, `.tmp`, the refusal flag | load, save with rotation, reset | a standing backup; files of a newer format after a downgrade | a write reports the truth; newer data is never overwritten | partly |
| Settings and state records (`PersistableStore.h`, `CrossPointSettings`, `CrossPointState`, credential stores) | one JSON file each, one mutex each | load, resave, save | two tasks save one store; the plain writer truncates in place | the last accepted change is the one on the card | not yet |
| Storage HAL (`lib/hal/HalStorage`, `StorageLock`) | the SPI lock and the storage mutex | every file operation | two locks shared with the display bus | one lock order; no task keeps both for ever | not yet |
| OTA and SD firmware update (`OtaBootSwitch`, `FirmwareFlasher`, `OtaUpdater`, `SdFirmwareUpdateActivity`) | two app partitions, two boot entries | validate, erase, write, switch | power loss between erase, write and switch; new images that do not come up; a card that is changed while the user is asked | the boot entries always select a whole image; the result tells which | partly |
| Manual page-turn queue (`reader/ManualPageTurnQueue.h`) | up to five turns, the dispatched turn, the quality decision | enqueue, take, cancel, reverse, decide | input races the render's decision | every accepted turn is shown once or cancelled; a deferred page gets its full redraw | not yet |
| Reader progress debouncer (`reader/ReaderProgressSaveDebouncer.h`) | last persisted position, pending count, time | observe, flush | page and time limits, wrap-around of `millis()` | a position is at most ten pages or five minutes unsaved | not yet |
| Shortcuts, quick lock, release suppression (`util/ButtonShortcutController.h`, `QuickLockState.h`, `ReleaseSuppression.h`, `InputReleaseGuard.h`) | armed suppressions, hold times | press, hold, release per frame | sequences across an activity transition | a release belongs to one action; no later press is swallowed | not yet |
| Dictionary lookup worker (`util/DictionaryLookupWorker`, `DictionaryLookupController`) | the owner slot, the cancel flag, the state and the answer of each controller | start, cancel, wait, finish | one task shared by controllers that may be destroyed, through atomic variables | no controller is used after it is gone; an answer belongs to its word; no wait lasts for ever | partly |
| EPUB reader (`reader/EpubReaderActivity`) | section, page, anchors, caches | turn, jump, load section, save progress | work on both tasks | page and section stay consistent | not yet |
| Nearby book transfer (`network/NearbyBookTransferActivity`) | session, chunks, acknowledgements, the received file | discover, offer, accept, send, acknowledge, verify, publish, cancel | ESP-NOW loses and delays packets; either side may stop or restart | a file arrives whole or not at all; the sender is told the truth; both sides end | partly |
| Nearby position and statistics synchronisation (`NearbyBookPositionSyncActivity`, `NearbyStatsSyncActivity`) | session, local and remote records | exchange, choose, merge | as the transfer | positions merge to one | not yet |
| KOReader synchronisation (`KOReaderSync`, `KOReaderSyncActivity`) | local and remote progress | fetch, compare, apply, upload | stale answers | the user's choice is what is applied | not yet |
| USB serial file transfer (`network/UsbSerialFileTransfer`) | the open file, bytes expected | commands and chunks | overflow and time-outs | a file is complete or removed | not yet |
| File moves and caches (`util/BookMoveUtils`, `BookCacheUtils`) | book, its cache directory, records that name it | rename, migrate, roll back, prune | a sequence of renames and saves that may fail or stop anywhere | the name the book has leads to its metadata; the result tells which name that is | partly |
| Bookmarks and clippings (`BookmarkStore`, `ClippingStore`) | one file per book | add, remove, export, migrate | as the stores above | as the stores above | partly |
| Statistics backup copies (`reader/StatsBackup`) | copies the user makes | copy, restore | — | a copy equals its source | not modelled |
| Power and battery (`SleepWakePolicy.h`, `HalPowerManager`) | power locks, saved frame | lock, unlock, sleep | nesting | no sleep under a lock | not yet |
| Web server, WebDAV, downloads | requests | handlers | mostly I/O of library servers | — | not modelled |
| Dictionary files and text search | an index file | look up | data access | — | not modelled |
| EPUB engine; fonts, graphics, images | documents, bitmaps | parse, lay out, draw | data, not control | — | not modelled |
| Other activities | menus and pages | callbacks | what they ask of the screen manager is nondeterminism of its model | — | not modelled |
| Vendored libraries; site, scripts, tests | — | — | — | — | not modelled |

The hazards of this code, each with its line and the properties that would
notice it, are the list `hazards` of `PROJECT.json`.

## 2. Modules

| module | models | extended by |
|---|---|---|
| `ActivityManager` | `ActivityManager.cpp`, the render task, the navigation half of `main.cpp`, `UsbDriveActivity::onEnter()` | `MCActivityManager`, `ActivityManagerProofs` |
| `SdCard` | what the firmware relies on from the card and `HalStorage` | the three stores below, `BookRename`, `NearbyTransfer` |
| `DurableDocument` | the abstract promise of a saved document | instantiated by `RecentBooksStore` |
| `RecentBooksStore` | `RecentBooksStore.cpp`, `PersistableStore.cpp` | `MCRecentBooksStore`, `RecentBooksStoreProofs` |
| `BookReadingStats` | `BookReadingStats.cpp`: load, save, remove | `MCBookReadingStats`, `BookReadingStatsProofs` |
| `GlobalReadingStats` | `GlobalReadingStats.cpp`: load, save, resetLocal | `MCGlobalReadingStats`, `GlobalReadingStatsProofs` |
| `BookRename` | `BookMoveUtils.cpp`: `migrateRenamedBookState()`, and the rename migrations of `BookmarkStore.cpp` and `ClippingStore.cpp` | `MCBookRename`, `BookRenameProofs` |
| `Delivery` | the abstract promise of sending a file | instantiated by `NearbyTransfer` |
| `NearbyTransfer` | `NearbyBookTransferActivity.cpp`, both modes, over a lossy radio | `MCNearbyTransfer`, `NearbyTransferProofs` |
| `DictionaryLookup` | `DictionaryLookupWorker.cpp`, `DictionaryLookupController.cpp` | `MCDictionaryLookup`, `DictionaryLookupProofs` |
| `BootImage` | the abstract promise of a firmware update | instantiated by `FirmwareUpdate` |
| `FirmwareUpdate` | `OtaBootSwitch.cpp`, `FirmwareFlasher.cpp`, the installing half of `OtaUpdater.cpp` and `SdFirmwareUpdateActivity.cpp` | `MCFirmwareUpdate`, `FirmwareUpdateProofs` |

The `MC...` modules declare the model values (and, for the screen manager, the
symmetry) which the configurations use. A definition whose comment says
*mutant* is never part of a specification: it is a plausible mistake in the
action that follows it, and replacing that action by it must make the property
named in `PROJECT.json` fail.

## 3. Screen manager

### State

| variable | in the code |
|---|---|
| `current`, `stack`, `pending`, `action` | `currentActivity`, `stackActivities`, `pendingActivity`, `pendingAction` |
| `handler[a]` | whether activity `a` has a `resultHandler`, and the child it was set for |
| `overlay` | the drawer held in a local of `restoreBackdropBehindCurrentOverlay()` |
| `resume`, `menuAction`, `alert` | `APP_STATE.pendingOverlayResume`, `pendingReaderMenuAction`, `APP_STATE.hasPendingAlert` |
| `requested`, `restored` | `requestedUpdate`, `restoredActivityNeedsRender` |
| `mutex`, `waiting`, `notifR`, `notifM` | `renderingMutex` and its holder, `waitingTaskHandle`, the two task notifications |
| `pc`, `after`, `cb`, `ops`, `navigated` | where the main task is, where a synchronous update returns to, the callback it runs and what that callback may still do |
| `rpc`, `target` | where the render task is in its loop, and the activity it paints |
| `detached` | `Storage.beginUsbDrive()` succeeded |
| `heap`, `entered`, `frame`, `painted`, `snap`, `fresh`, `locked` | history: constructed and not destroyed, between `onEnter()` and `onExit()`, whose pixels the panel shows, what the running render read, whether the panel is up to date and how the last change was made |

### Actions

The main task is the code between two points at which the render task can tell
a difference: taking or releasing the mutex, registering the waiter, notifying,
waiting. A turn of `loop()` is

`between` → (a gesture returns to `between`) → `callback` → `pending` →
one iteration of the `while (pendingAction != None)` loop after another →
`LoopEnd` or `LoopEndAlert` → `between`.

- `Boot`: `setup()` puts up the first screen. `Shortcut`, `LoopPanelGesture`,
  `LoopGesture`, `LoopActivity`, `LoopHomeGesture`: the branches at the top of
  `loop()`, in the code's order of early returns.
- `Cb...`: what a callback does, in any order. State changes with or without
  the lock (`CbWrite`), `requestUpdate()` (`CbRequest`), `requestUpdate(true)`
  (`CbRequestNow`), `requestUpdateAndWait()` (`CbSync`, `CbSyncRejected`), and
  at most one navigation (`CbStart`, `CbPush`, `CbReplace`, `CbFinish`).
- `Sync...`: registering the waiter, notifying, sleeping and returning.
- `Pop...`, `Handled...`, `Backdrop...`: a pop, the result handler, and the
  repaint of what lies behind a drawer.
- `Launch...`, `OnEnter`, `Detach`, `Entered...`: a push or a replacement, the
  beginning of `onEnter()`, the rest of the USB drive's, and what is resumed
  after `onEnter()`. The launch releases the lock (or, without a current
  activity, never takes it) and `OnEnter` is a step of its own (`launched`): the
  render task may run between the two.
- `Render...`: the eight steps of `renderTaskLoop()`.

### Modelling choices

- The render task holds the lock until the end of the loop body, as the local
  `RenderLock` of the code does: the waiter is signalled before it is released.
- A task notification is a counter in FreeRTOS; both tasks take it with
  `pdTRUE`, which clears it, so a flag is enough.
- A callback asks for one navigation: the code's activities return after one.
  Requests from *different* callbacks overwrite each other, and do in the runs.
- What an activity draws is a single bit: whether the panel shows its present
  state. `snap` is cleared by a change that comes after the render has read.
- A drawer opens no drawer (`allowFrontlightPanelGesture()`); the USB drive is
  opened from the file transfer screen only, which is itself a replacement and
  has an empty stack; its session ends with a restart of the firmware.
- At the bound on the stack an alert is dropped; the code has no such bound.
- A reader may leave an alert behind when it renders or exits
  (`moveFinishedBookToReadFolder()`).

### Properties

| property | says | run |
|---|---|---|
| `TypeOK` | types | am_live |
| `RenderSafe` | the activity being painted is alive and current until the lock is released, and has been entered and not exited; the exception, stated in it, is the window between a launch and its `onEnter()`, see [Findings](#10-findings) | am_live |
| `NoLostWakeup` | while the main task sleeps in a synchronous update, it is notified or registered with a render still to come | am_live |
| `SyncRenderFresh` | a synchronous update that reports `Rendered` has painted every change made under the lock | am_live |
| `SingleOwner` | every live object has exactly one owner among current, pending, stack and the drawer set aside | am_navigation |
| `LifecyclePaired` | exactly the live objects that are not pending, nor launched and about to enter, are between `onEnter()` and `onExit()` | am_navigation |
| `PendingIsServable` | the while loop over the pending action always finds what it serves, so that it cannot spin | am_navigation |
| `BackdropRepainted` | a drawer comes back over its repainted source | am_navigation |
| `OverlayOverSource` | a drawer opens over the pixels of the activity it covers, never over those of a popped child | am_navigation |
| `ExclusiveOwnerStays` | while the card is exposed, its owner is current and alone | am_navigation |
| `SyncReturns`, `NotificationServed` | a synchronous update returns; every notification leads to a completed render | am_live |
| `DetachAfterPaint` | the statement of a comment; it fails, see [Findings](#10-findings) | am_usb_paint |

## 4. Files on the card

### The card

`SdCard` says what the callers rely on. A path holds a whole document, a
document cut short (`Torn`) or nothing. Opening a file for writing truncates it;
it is whole only once the write was reported complete. `remove()` and
`rename()` are atomic, and a rename refuses to replace an existing file, as the
stub of `src/test/persistable_store_atomic` does. `exists()` and reads are
reliable. With `CardFails`, each operation may report failure and leave the
card as it was. A failure and a loss of power cost one fault each, and there are
`MaxFaults` of them. `SdCard` is marked external in the map: the card library is
not in the repository.

A document is opaque. Whoever reads a torn file knows it (a size check, a
version byte or the JSON parser), and so does the model.

### Recent books

Actions: `Start`, `Load`, `LoadLegacy`, `Retire`, `Edit` and `EditNothing` are
the steps of `ensureLoaded()`, `loadFromFile()` and the public operations;
`Save...` are the nine steps of `writeDocToFileAtomically()`, with every error
path; `PowerLoss` keeps only the card. An operation whose failure is undone is
`op = "move"` (`updatePath()`), every other one is `"update"`.

`DurableDocument` is the promise: a document is replaced in one step or not at
all, and the save says which. `Durable == Document!Spec` with
`doc <- List` (what a reader of the card would find: the file, else its backup)
is the refinement. The interesting point is where the abstract `Publish`
happens: at the second rename of the save, and not at the first, at which the
backup takes over as what is read.

`MemoryMatchesCard` and `MoveKeepsAgreement` relate the list in memory and the
card between operations: after a failed `updateBook()` they may differ, after a
failed `updatePath()` they may not.

### Statistics of a book

`Load` recovers from a complete temporary file or the backup and moves it back
in place if it can; `Save...` and `ResetBegin`, `ResetFallbacks`,
`ResetCanonical` are the steps of `save()` and `remove()`. `Stats` is what a
load would return, `Opens` the file it would read. Whoever saves has loaded the
statistics since the device started (every caller in `activities/reader` does),
and what is saved is not the empty statistics.

`StatsSurvive` (published statistics are found until they are reset),
`RecoverableSave` (a save leaves the old ones or the new ones) and
`ResetOutcome` (what `remove()` reports is what is read) hold; the exception in
`RecoverableSave` is described in [Findings](#10-findings). `ResetOutcome` is about
deletions that fail: a reset that power cuts off reports nothing, and what it
leaves is covered by no property (*A reset can revive older statistics*).

### Global statistics

`Load` reads the main file, else the backup, and refuses further saves when what
it finds is of a newer format (`Newer`, one document that stands for all of
them); nothing is moved back. `Save` rotates the main file to the backup, which
stays; `ResetLocal` replaces the main file and keeps the backup. At first the
two files are in any state, missing, torn, old or newer, in any combination.

`ReportsTruth`, `RecoverableSave` and `NewerIsKept` hold. The last one is an
action property over whole histories: saves that fail, restarts that clear the
refusal, and loads that set it again.

## 5. Renaming a book

The file browser renames a book, and with it what is stored under its path: the
cache directory, the bookmarks and the clippings. The recent books and the book to
open again name the path too. `migrateRenamedBookState()` copies the bookmarks and
clippings to the new name (merging the bookmarks with those another book, which is
gone, left there), moves the cache and the book, updates the two references and
then deletes the sources. When a step fails, `recover()` goes back, and when that
fails too, forward again.

`BookRename` has a step for every call that changes the card, in the code's
order, with both outcomes; `op.active` and `op.parked` are the fields of the
migrations, `op.moved` the flags of the rename. What a file says is the set of the
books it is from, `"mine"` and `"theirs"`, which is all that merging, copying and
losing can be told by. Two variables are history: `kept`, what there was to keep at
first, which no step changes; and `cut`, the names whose bookmarks were last written
short (`writeToFile()` of the bookmarks does not look at what its writes return, so
that `WriteMarks` goes on after a failure as after a success). `Short(name)` says that
such a file stands for the name's bookmarks. The code does not keep its promise then,
and `MetadataFollowsBook` says so: it demands the clippings and the bookmarks, but for
bookmarks that are `Short`. Nothing else is excepted. With `Short` left out, TLC
refutes the property with a single failure.

| property | says |
|---|---|
| `MetadataFollowsBook` | at every moment, also after a loss of power, the book is at a name under which its clippings are readable, and its bookmarks unless their write there ended short |
| `ResultTellsPlace` | what the file browser is told is where the book is |
| `OneFailureIsUndone` | after a single failure, wherever it strikes, the cache and both references are at the name of the book |
| `BothCanBeRestored` | the statement of a comment about the *other* book's bookmarks; it fails, see [Findings](#10-findings) |

## 6. Sending a file to another reader

`NearbyTransfer` composes two copies of one activity, a sender and a receiver, over
the radio. A device that sends puts some of its packets into the queue of the other
one; a packet that is not put there is lost. Both sides repeat what is not
answered. A user may leave the screen, a timer may fire and power may be lost at
the receiver at any time; a session is a new number each time.

Actions: `SenderStart`, `SelectPeer`, the timers, and one action for each packet the
sender handles; `StartListening`, one action for each packet the receiver handles,
the two questions to its user, `DrawReceiving` (the render task paints the
receiving screen) and `SendPendingAccept` (which waits for that), and the steps of
`finishReceivedFile()`, with every error path. A packet nobody expects is consumed
by `SenderIgnores` or `ReceiverIgnores`, as in `handlePacket()`. The content of
chunk *i* is *i*, so that a chunk written twice or left out makes another file.

`Delivery` is the promise: a file is put in its place at most once, and the sender
is told of a success only if it was. `ImplementsDelivery` is the refinement; the
abstract specification admits that a failure is reported of a file that did
arrive, and even after a success, because the code does both.

| property | says |
|---|---|
| `NothingPartial` | no file that can be opened is a part of one |
| `FileIsKept` | the file that is replaced is on the card until another one has its name |
| `InStep` | while both are in the same transfer, the receiver has what was acknowledged and at most one chunk more |
| `ImplementsDelivery` | what the sender reports is true, and no file is put in its place twice |
| `WaitsEnd` | a receiver stops waiting for a chunk, and a sender for the answer to an offer or a chunk |
| `SendingEnds` | a transfer ends whatever becomes of the receiver; it fails, see [Findings](#10-findings) |

## 7. Looking a word up

Dictionary activities stand above one another, each with a controller; one task,
the worker, runs the lookups of all of them. They share `owner_`, a task
notification, and the atomic fields of the controller. `DictionaryLookup`
interleaves the two tasks at each of these: claiming the worker and notifying it
are two steps (`ClaimWorker`, `NotifyWorker`), and so are setting `lookupDone` and
letting the controller go (`Publish`, `Release`). Between the last two the main
task may take the answer, start the next lookup, which is then refused as busy, or
leave the screen. `Exit` and `Destroy` are `onExit()`: the request to cancel, and
the wait until the owner is another.

A word is the number of its lookup, so that the answer to another word shows
(`foundFor`). `suggested` is history: whether a word was chosen from the
suggestions.

| property | says |
|---|---|
| `NotUsedByBoth` | a lookup runs only for a controller that exists, is the topmost one and waits for it |
| `WaitIsServed` | the controller that waits has the worker to itself; a worker that has an owner is notified of it or runs it |
| `AnswerIsCurrent` | the answer that is taken is the one to the word that was asked for |
| `SuggestionIsMarked` | a suggestion that was chosen is reported as one, over the list, the prompt and another list |
| `WaitsEnd` | every lookup ends, and `onExit()` returns |

## 8. Firmware updates

Both activities end in `flashValidatedFile()` and `switchTo()`: the partition that
does not run is erased and written, then the boot entry that is not in use is
erased and written with the next number that stands for that partition.
`FirmwareUpdate` has a step for each of these, with failures and losses of power
between them. A file of the card is validated, the user is asked, and it is
validated again, since the card may have been changed meanwhile; a download is
validated once. The bootloader is external: it starts the partition that the
usable entry with the higher number stands for, and confirms a new image or aborts
it. That it might try the other partition when one holds no image is not counted
on. A good image is one that `validateOpenImageFile()` accepts. That includes an
image without a board tag, which may be for another board
(`network/FirmwareBoardTag.h:14`).

`BootImage` is the promise: the image the device would start is replaced in one
step by a good one, and until that one has started the old one can come back. In
the refinement (`boots <- parts[Selected(entries)]`, `runs <- parts[running]`) the
step is the writing of the boot entry; the erasing of entry and partition are
stutters, which is the point.

| property | says |
|---|---|
| `NeverBricked` | the device starts a whole image that was accepted whenever power is lost, and also if the new one is given up |
| `ResultTellsBoot` | after `OK` it starts what was installed, after a failure what it ran |
| `ImplementsBootImage` | the refinement |

## 9. Runs, bounds and fairness

| run | distinct states | instance | why it is enough |
|---|---|---|---|
| am_navigation | 3,632,000 | two Homes, one object of every other kind; `MaxStack` 2, `MaxOps` 0, the drawer's gesture, hand-offs | two suspended activities put a source under a drawer under a child, whose pop repaints the backdrop; two Homes let one replace the other and a request be overwritten; `MaxOps` 0 leaves out painting requests of callbacks, which navigation does not depend on, while the manager's own synchronous updates stay |
| am_live | 266,000 | a Home and a plain activity; `MaxOps` 2, `MaxStack` 1, `FairSpec`, no symmetry | two operations fit a change under the lock or without it and a synchronous update; the tasks interleave without bound |
| rb_store | 53,000 | three lists, one of them in `recent.bin`; four faults | a save can fail, its restoration fail, and power go in the recovery, with one fault left |
| bs_faults | 169,000 | the empty statistics and two others; four faults | two saves and a reset can each be cut, and the recovery of one of them too |
| gs_faults | 26,000 | the empty, the newer and two other statistics; four faults | the same, from every initial state of the two files |
| bn_rename | 2,429,000 | two names, every combination of files at either; three faults | a step fails, a step of the way back fails, and a step of the way forward again; renames back and forth without bound |
| nt_transfer | 326,000 | two sessions of up to two chunks, one retry of each kind, two packets in a queue, one fault | a chunk and its repetition are under way at once; a second session meets the packets and the files of the first |
| dl_lookup | 24,000 | two activities, four lookups, `FairSpec` | a word found opens the second activity while the worker still has the first; a lookup of a suggestion after one after one |
| fu_update | 7,700 | two good images, a bad one; four installations, three faults | both entries and both partitions are used twice |

`TypeOK` is an invariant of a run where it is not already a theorem (section 11)
or where another component's mistake would show in it. The counters that the
bounds cut are `MaxStack` (depth of the stack), `MaxOps` (operations of one
callback), `MaxFaults` (failures and losses of power), `MaxSessions`, `MaxChunks`
and `Capacity` (of the transfer; `MaxRetries` and `MaxApprovals` are the code's own
limits, made small), `MaxOpen`, `MaxLookups` and `MaxInstalls`. The proofs hold for
every value.

Objects of one kind are interchangeable, so that am_navigation uses
`Permutations` of the Homes and of the plain activities; no liveness property is
checked under symmetry. `CHECK_DEADLOCK` is never switched off: the main loop, an
idle store and the next operation always have a step.

**Fairness.** It is assumed where a property needs it:

- am_live. `WF(Render)` and `WF(Manager)`: the FreeRTOS scheduler runs both tasks,
  and the manager's own code between callbacks does not stop. `SF(RenderLock)`:
  the mutex is not withheld for ever from a task that waits for it. Weak fairness
  is not enough here, since the main task takes and releases the lock again and
  again and the lock is only free at times. Releasing a FreeRTOS mutex makes the
  task that waits for it ready to run, and the main loop sleeps between its turns
  with the lock free, so that the render task is not passed over for ever.
  `WF(CbUnlock)`: a callback that holds the lock releases it. Nothing is assumed of
  the rest of a callback: it may run for ever without navigating or painting.
- nt_transfer and nt_unanswered. Weak fairness of what `loop()` of either device
  does in every turn: handling a packet, the timers, the steps of a publication,
  the pending acceptance; and of the render task. No user has to do anything, no
  packet has to arrive and no device has to stay.
- dl_lookup. Weak fairness of the worker, of the calls the main task is in
  (`ClaimWorker`, `NotifyWorker`, `Destroy`) and of handling a lookup that is done:
  both tasks have the same priority, and `loop()` polls. Nobody has to press a key.

## 10. Findings

Three are runs that TLC refutes with the code's own steps.

1. **The USB drive's screen can be painted while the card is detached**
   (am_usb_paint). A notification that was pending before the synchronous paint
   is served after it, while `beginUsbDrive()` runs.
2. **A sender whose receiver is gone at the end never stops** (nt_unanswered).
   `updateTimers()` repeats the final packet through `sendNextChunk()`, whose last
   branch sets `retryCount_` back to 0 (`NearbyBookTransferActivity.cpp:481`), so
   that the limit is never reached.
3. **A failed rename can delete the other book's bookmarks** (bn_others_lost).
   `beginRenameMigration()` sets `active` before it has put the destination's
   bookmarks aside; when that fails, its rollback deletes the destination
   (`BookmarkStore.cpp:790`).

Met while modelling, without a run of their own.

*Screens.*

- *A synchronous update can report a stale panel.* The main task changes its state
  without the lock while a render is between reading and painting; it calls
  `requestUpdateAndWait()`; that very render ends, takes the waiter and wakes it.
  The touch feedback of `DictionaryWordSelectActivity` relies on the opposite.
  Under the lock the protocol is right, which is `SyncRenderFresh`.
- *An activity can be rendered before its `onEnter()` has begun.* `loop()` releases
  the lock and then calls `onEnter()` (`ActivityManager.cpp:413-414`), and
  `replaceActivity()` without a current activity takes none (lines 572-573). A
  notification that is pending then has the render task paint the new activity in
  the state its constructor left. `docs/activity-manager.md` does not say that
  `render()` may come first. The paint is overtaken by the one `onEnter()` asks
  for. `RenderSafe` and `LifecyclePaired` name the window (`pc = "launched"`).
- *A request that is overwritten.* `pushActivity()` says of the pending activity
  it drops that this "should never happen in practice"
  (`ActivityManager.cpp:785`). It does: the gesture branches of `loop()`
  (lines 298–319) return before the pending action is served, so that the next
  gesture, shortcut or callback finds it pending. Nothing leaks (`SingleOwner`).
- *A result handler that outlives its child.* `src/docs/activity-manager.md:157`
  has the handler receive the result of the child it was set for. When that
  child's push is overwritten by a shortcut's push, which sets no handler, the
  handler stays and is called with the other child's result
  (`ActivityManager.cpp:361`). `handler[a]`, which names the child, shows it:
  at `PopRestore`, `handler[Top(stack)]` can differ from `current`.
- *Hand-off flags that are never taken.* `pendingReaderMenuAction` and the overlay
  resume stay set when the activity they were left for is not launched.

*Files.*

- *The recent books can be lost in their migration.* The save of the migrated list
  fails, `recent.bin` is put aside all the same, and power is lost before a later
  save succeeds. With a card that does not fail, the migration is safe whenever
  power is lost (`MigrationIsSafe`).
- *A reset can revive older statistics of a book.* It deletes the temporary file,
  at that moment the newest readable copy, before the backup.
- *A save of a book's statistics that begins with the temporary file as the
  newest copy* deletes it as stale before it writes anything
  (`BookReadingStats.cpp:300`): the statistics in it are lost if power is lost
  next. A load that could not move the file back leads there. This is the
  exception `source # Tmp` of `RecoverableSave`.
- *A save of the global statistics gives up the only readable file.* It removes the
  backup before the main file is replaced, also when the main file is missing or
  corrupt.
- *A reset of the global statistics* removes `global_stats.bin` before the fresh
  one is renamed into place (`GlobalReadingStats.cpp:252`). Power lost between
  the two leaves the backup, with statistics older than those that were reset. A
  reset that replaces a newer format's file leaves the refusal to save in force
  until the device restarts (line 372).

*Renames.*

- *A short write of the bookmarks loses them.* `writeToFile()` does not look at
  what its writes return (`BookmarkStore.cpp:551`); on a full card the copy ends
  short, the rename succeeds and the commit deletes the source. The torn file then
  makes every later rename of the book, or to its name, fail. This contradicts
  `BookMoveUtils.cpp:164` ("after it succeeds, the new-path metadata is already
  discoverable"); it is what `MetadataFollowsBook` excepts (`Short`), and the
  theorem with it.
- *A cache left at the new name.* Power lost between the rename of the cache and
  that of the book leaves the reading position there; once the book is opened it
  gets a second cache, and no rename to that name can succeed
  (`BookMoveUtils.cpp:180`).
- *Merging.* The bookmarks of both books are merged up to `MAX_BOOKMARKS`, those
  of the other book first, so that the book's own may be dropped
  (`BookmarkStore.cpp:69`). Clippings are not merged: the other book's are removed.

*Transfers.*

- *Two devices in an error state answer each other's Cancel with a Cancel* until one
  of them is closed, and a Cancel that arrives after the success withdraws it on
  the sender's screen though the file is in its place
  (`NearbyBookTransferActivity.cpp:317`, 383).

*Lookups.*

- *A controller can be refused as busy by itself.* `start()` fails while the worker
  has set `lookupDone` and not yet `owner_`; `DictionaryLookupWorker.h` has it fail
  for another controller only. The user sees a memory error.
- *A word can be recorded as a suggestion that was none.* `nextIsSuggestion` stays
  set when a list of suggestions is cancelled after a suggestion missed, when a
  start is refused, or when the failure is left for a clipping; the next lookup
  inherits it.
- *A cancellation between the worker's last check and `lookupDone` is ignored.*

*Updates.*

- `ota_seq` is not protected from wrapping round at 2^32, which no device reaches.

## 11. Proofs

Every theorem holds for all sets of activities, lists and statistics, all
bounds, and all values of the flags that the module's assumptions admit. The
assumptions are the named `ASSUME`s of the modules, which TLC evaluates in every
run: kinds of activities do not overlap, the null values are not values, the
paths of a component differ, and a bound is a natural number. Each proof follows
one pattern: `Init => IInv`, `IInv /\ [Next]_vars => IInv'` by one lemma per part of
`IInv`, one step per action, and `IInv => Property`.

**`ActivityManagerProofs`.** The properties are not inductive: whether a waiter
is served depends on who holds the lock, whether a pop has something to pop on
where the main task stands, and whether a drawer covers the right pixels on
every step since the last paint. `IInv` conjoins

- `LockInv`: who holds the mutex in which phase of either task;
- `PhaseInv`: what is current, pending and set aside at each `pc`;
- `OwnerInv`: `SingleOwner`, `LifecyclePaired`, `PendingIsServable`, which need
  each other (the object that is overwritten must be pending, so not entered, and
  the one that is launched is entered by the step that follows);
- `WaiterInv`: exactly one of registered and notified while the main task waits;
- `FreshInv`: what the running render has read, for changes under the lock;
- `ExclusiveInv`: how an exclusive owner comes to be current, and why no alert,
  gesture or hand-off can reach it, which takes that an alert never outlives the
  turn of the main loop in which its reader is left;
- `Paints`, `BackdropInv`, `SourceInv`: whose pixels the panel shows.

`RangeOfPop` and `RangeOfAppend` are the facts about the stack's sequence. The
theorems are `TypeCorrect`, `RenderIsSafe`, `ActivitiesAreOwned`,
`CallbacksArePaired`, `PendingActionsAreServable`, `WakeupsAreKept`,
`SynchronousUpdatesAreFresh`, `TheExclusiveOwnerStays`, `DrawersCoverTheirSource`,
`BackdropsAreRepainted` and `SynchronousWaitsAreShort`, which is about a measure:
`WaitLeft` counts the steps of the render task to the point where it takes the waiter.

**`RecentBooksStoreProofs`.** `WholeInv` (the file and its backup are only ever
renamed from whole files), `CardInv` (what is on the card at each step of a
save), `MemoryInv` and `MoveInv`. `ImplementsDocument` is the refinement: the
initial states map to initial states, and each step to `Begin`, `Publish`,
`Finish`, `Lose` or a stutter. `MemoryAgrees` and `MovesAreUndone` are the memory
properties.
`MigrationIsSafe` has the extra assumption `~CardFails` and the extra invariant
`MigrationInv`.

**`BookReadingStatsProofs`.** `WholeInv`, `CardInv`, and

- `KeptInv`: published statistics are in the file or its backup, never only in
  the temporary file, which the next save deletes;
- `SaveInv`: with `Behind`, what a load would read without the temporary file;
  since a save may delete or truncate that file at will, what lies behind it has
  to be one of the two admissible statistics as well;
- `ResetInv`: which files are gone at each step of a reset that has not failed.

**`GlobalReadingStatsProofs`.** `CardInv`, `SaveInv`, `OutcomeInv`, and
`NewerInv`: while a newer format is what a load reads, no save is under way and,
if the statistics were loaded, the refusal is set. `NewerIsKept` is an action
property: it follows from `NewerInv` step by step, not from a state predicate.

**`BookRenameProofs`.** `BookInv`: the book is at exactly one of its two names, and
what the rename remembers of its progress tells which. `KeptInv`: what is kept of the
book is readable at the old name until the commit, and at the new one from the move of
the cache on, with the exception of `MetadataFollowsBook` for a short write; it is the
part that the two files of metadata share. `CopyInv`: what is
merged or copied was looked at before, and a bookmarks file that is opened is torn until
it is written, which is what tells a short write. `ResultInv`: what may still be returned at each
step of the rollback and of the second way forward. The steps are proved by what they
may touch (`Preparing`, `GivingUp`, `Standing`, `BookMoves`, `Committed`): a step that
touches only the new name's files cannot disturb what is read at the old one.

Two further invariants, on top of `IInv`, are about the whole rename.

`OneInv` gives `FailuresAreUndone`. With fewer than two faults,

- `StageInv` says what each step has moved: nothing before the book moves, the recent
  books before the book to open again, and on the way back the reverse. The second
  way forward (`"again"`) takes two faults, so it is not reached;
- `CacheInv` and `RefsInv` say at which name the cache and the references are: at the
  old one before the move, at the new one from the commit on, and on the way back with
  those that are not yet moved back;
- `OpenInv`: the book to open again is the same in memory and on the card, except while
  its move back is being saved, and the rename remembers whether it referred to the book.

The exception in all of them is `CutOff`: the one fault was a loss of power, which the
property itself leaves out (a cache moved, the book not), but after which the device
starts again and the user may begin the next rename: with the fault used up, that rename
has to be seen not to do more harm. `FreeInv` holds for any number of faults: a file is
renamed only to a free name, so that a rename fails by a fault and by nothing else.
Without it, a failure that no fault explains would leave `faults` at 0.

`RestoreInv` gives `PowerLossKeepsBoth`, on a card whose operations do not fail:

- `TheirsKept`: `BothCanBeRestored` without its exception, since no write ends short;
- `FitInv`: of a book with both, what is put aside is part of what is there; so losing
  either of them loses nothing;
- `MergeInv`: the bookmarks are written over nothing but what was put aside or a torn
  file, and without failures nothing is ever abandoned or taken back;
- `MergedInv`: once merged, what is at the new name is what both names had, until the
  commit deletes what it came from.

That the assumption is needed is the third finding: one failed operation breaks
`BothCanBeRestored`.

**`NearbyTransferProofs`.** `SenderInv` (packets on the way to the receiver name a
session), `ReceiverInv` (a file is finished only while it is being received, and synced
only when all its chunks are there), `PartInv` (the temporary file is not torn at any
step that may rename it, and no other file is partial), `TargetInv` (the name that is
used is free, or holds the file that is kept) and `HeldInv` (that file is under its
name or in the backup) are `IInv`, about the card. The retries, the prompts and the
losses of packets leave all of it alone; the work is in the steps of
`finishReceivedFile()`.

`Protocol` is about the packets on their way and what either device knows of the other:

- `Closed(s)`: the sender has begun session `s` and no offer of it is on its way or asked
  about. It never ends (`ClosedForGood`), and it is why a receiver that restarts in the
  middle of a file cannot begin the same one again: `ClosedInv` says that whatever was
  received, acknowledged or put in its place belongs to a closed session;
- `OrderInv`: no offer follows a chunk of its session in the queue, so the first chunk
  that is heard closes the session; this is where the order of the packets is needed;
- `SentInv` and `MeetInv`: `snd.next <= Len(rcv.got) <= Sent`, every chunk on its way is
  below `Sent`, and every acknowledgement on its way is at most what was received, so that
  the one the sender expects tells it exactly where the receiver is;
- `PlacedInv`: a positive result on its way, and the receiver's success, are of a file that
  was put in its place, and a file being received was not;
- `KnownInv`, `CountInv` and `TypeInv`: no session is known before it begins, and the counts.

`SenderProtocol` and `ReceiverProtocol` say once, for each device, what a step and the
packets it sends must satisfy to keep all of this; the actions are then one lemma each.
The theorems are `NoPartialFile`, `ReplacedFileIsKept`, `TypeCorrect`, `DevicesAreInStep` and
the refinement `TransfersAreDelivered`, for queues, retries and files of any length.
`FinishingIsShort` and `RetriesAreCounted` are about why the two devices stop waiting:
`FinishLeft` counts the steps of `finishReceivedFile()`, and `WaitGoesOn` says that a timer
counts towards its limit and that only a chunk further starts the count again.

**`DictionaryLookupProofs`.** `OwnerInv`: exactly one party sees to an owner: the main
task that is about to notify, the notification, or the worker. `StackInv`: only the
topmost controller is not idle. `LookupInv`: until it lets go, the worker's owner is
the topmost controller, which waits and is not done. `AnswerInv` follows the answer
from step to step of the worker. The steps are proved by what they change
(`TopMovesOn`, `TopStarts`, `WorkerGoesOn`) rather than one by one, since many
events of the controller have the same effect. `LookupsAreShort` is about the
measure `WorkLeft`, the steps from the claim of the worker to its release.

**`FirmwareUpdateProofs`.** About the operators first: the entry that is rewritten is
never the one in use (`TargetIsFree`); erasing it changes nothing
(`UnusableTarget`); the next number is higher and stands for the partition asked for
(`NextSeqSelects`); the entry written with it is then the one in use, and aborting
it selects what was selected before (`WrittenEntry`). `EntryInv` says which entry may
be new, and `ImageInv` what the partitions hold. The refinement, `UpdatesAreAtomic`,
takes only these. `NothingInUseIsWritten` says of every step what it leaves alone.

**Only model-checked:** liveness (`SyncReturns`, `NotificationServed`, and `WaitsEnd`
of both modules), which is out of the prover's reach, and the violations. Every
safety property and every refinement that a passing run checks is also a theorem. Of
`SyncReturns` and `WaitsEnd` the part that needs no fairness is proved for all bounds:
every step towards the end lowers a measure, and none raises it but the one that begins
the wait (`SynchronousWaitsAreShort`, `LookupsAreShort`, `FinishingIsShort`) or brings
the file a chunk further (`RetriesAreCounted`). That those steps are then taken is what
fairness adds, and TLC checks.

## 12. What is not modelled

The models stand for about 1 % of the lines of the repository. Most of the rest is
fonts, images and generated tables, vendored libraries, and parsing, layout and
drawing: data without control. Of the firmware's own control, these are left out:

- *In the screen manager:* the identity of the book a hand-off is left for, the
  touch registry, the arguments of the `goTo...()` wrappers, sleep and wake-up,
  the snapshot for the network boot, and the host's states during a USB session
  (`loop()` of `UsbDriveActivity` is one nondeterministic restart).
- *In the stores:* what a list contains and its limit, parsing of `recent.bin`,
  callers on several tasks, the arithmetic of the statistics and their
  aggregation over other devices. A save of a book's empty statistics is left
  out.
- *In a rename:* the number of bookmarks, the legacy bookmark files as files of
  their own, the move to the Read folder (`migrateMovedEpubState()`) and the
  pruning of caches.
- *In a transfer:* the choice of a folder, the numbering of copies, the opening of
  the received file, and losses of power at the sender, which has nothing to lose.
- *In a lookup:* the statuses of stems and alternate forms as such, the history of
  words, the index files and the drawing.
- *In an update:* the release feed and the transfer over the network, which are
  one nondeterministic file, the space on the card, and the bootloader, which is
  external.
- *Of the card:* corruption of a file at rest (other than the initial states of
  the global statistics), reads that fail, and the file system itself.
- *Entirely:* the components whose status is not modelled in section 1.

## 13. Plan

What would be modelled next, in this order.

| step | modules | question | proof |
|---|---|---|---|
| 1 | `SettingsStore`, with `SdCard` | two tasks save and load one store under `storeMutex`; the plain writer truncates in place (`PersistableStore.h:110`), and the resave of a load runs outside the lock (117–138). Is the last accepted change what is on the card, and what does a cut write leave? | mutual exclusion, last writer |
| 2 | `PageTurns` (`ManualPageTurnQueue`, `QueuedTurnRenderingState`, the debouncer), later composed with the render task of `ActivityManager` | are accepted turns shown once or cancelled, does a deferred page get its redraw, how long is a position unsaved? | queue bounds, the decision protocol |
| 3 | `InputRelease` (shortcuts, suppression, guard, quick lock) | does a release belong to one action, across a transition? | one-shot suppression |
| 4 | `StorageLock` | the SPI lock and the storage mutex, taken by both tasks: is there one order? | deadlock freedom as an invariant |
| 5 | `NearbySync`, `UsbSerial` | positions and statistics over the radio; chunks over a serial line | whole or nothing |
