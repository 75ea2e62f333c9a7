# A verification project for the window manager

The repository is a small window manager for embedded devices (openvela/NuttX, in C++): a service that owns the
display and composes the screen with LVGL, and a library in every application that draws a window into shared
memory. This directory holds TLA+ models of it, checked with TLC on small instances, and proofs, checked with TLAPS,
that every safety property of the passing runs, and every refinement, holds for every size.

Paths are relative to `src/` throughout (`server/WindowState.cpp:115`).

1. [The system](#the-system)
2. [The modules](#the-modules)
3. [What each run checks](#what-each-run-checks)
4. [What is proved](#what-is-proved)
5. [Where the code falls short](#where-the-code-falls-short)
6. [What is not modelled](#what-is-not-modelled)
7. [Plan](#plan)
8. [Running it](#running-it)

## The system

### Processes and calls

Each process has one thread that matters, a libuv loop: a callback (a binder call, a timer, a posted task, an input
event) runs to its end before the next begins. So within a process steps are whole handlers, and everything that is
hard happens *between* processes, or between a handler and the later callback it leaves behind.

| From | To | How | What |
|---|---|---|---|
| app | server | two-way binder call | `addWindow`, `removeWindow`, `relayout`, `addWindowToken`, `removeWindowToken`, `updateWindowTokenVisibility`, `monitorInput`, `releaseInput` |
| app | server | one-way binder call | `applyTransaction`, `requestVsync` |
| server | app | one-way binder call (`IWindow`) | `dispatchAppVisibility`, `onFrame`, `bufferReleased` |
| server | app | shared memory, no lock | `FakeFmq`, a ring with the keys of the buffers the server is done with |
| app | server | shared memory, no lock | the buffers themselves |
| server | app | POSIX message queue | input messages |
| server | itself | task posted to the loop | `postWindowRemoveCleanup` |
| kernel | server | death notification | `WindowDeathRecipient::binderDied` |

One-way calls to the same object arrive in the order they were made. A two-way call is not ordered with the one-way
calls still on their way, and this is the source of most of what is difficult: `relayout` makes a new surface and
changes visibility while transactions and VSYNC requests for the state before it are still to be handled.

### Components

| Component | Its state | Its operations | What makes it correct |
|---|---|---|---|
| `BufferQueue`, `BufferProducer`, `BufferConsumer` | per buffer a state (FREE, DEQUEUED, QUEUED, ACQUIRED) and a place on the free or the data list | `dequeueBuffer`, `queueBuffer`, `cancelBuffer`, `acquireBuffer`, `releaseBuffer`, `syncState` | states and lists agree; buffers go round one cycle; the oldest frame is acquired first |
| `FakeFmq` | ring of keys in shared memory; each end its own position | `create`, `read`, `write` | a FIFO, although neither end looks whether it is full |
| `SurfaceControl` | buffer ids and descriptors, the ring, all known by name | made by the server, copied through a parcel, opened by name, unlinked by either side | the two ends mean the same buffers, the second opening erases nothing, no name outlives its surface |
| `BaseWindow` (app) | `mAppVisible`, `mSurfaceControl`, `mVsyncRequest`, a producer, the UI driver | `setVisible`, `onFrame`, `scheduleVsync`, `bufferReleased` | a visible window gets frames and a buffer for each |
| UI driver proxies (app) | `mPrevBuffer`, `mAllAreaDirty`, LVGL's dirty areas | `onInvalidate`, `drawFrame`, `onRenderStart`, `updateVisibility` | a buffer in which only dirty areas are drawn is nevertheless whole |
| `SurfaceTransaction`, `LayerState` | what is to be set, per surface | `setBuffer`, `setBufferCrop`, `apply` | applied in order, to the surface they were made for |
| `WindowManagerService` | `mWindowMap`, `mTokenMap`, `mInputMonitorMap`, whether VSYNC is on | the binder calls above, `responseVsync`, `responseInput` | no pointer to a deleted window; the timer runs exactly as long as somebody waits |
| `WindowState` | visibility, request, flags, surface, consumer | `sendAppVisibilityToClients`, `scheduleVsync`, `onVsync`, `applyTransaction`, `removeIfPossible` | what it believes of the app agrees with the app once all calls have arrived |
| `WindowToken` | children, visibility, `mRemoved` | `setClientVisibility`, `addWindow`, `removeIfPossible` | goes exactly once, and after its windows |
| `WindowNode`, `lv_mainwnd` | the buffer shown, LVGL's dirty areas | `updateBuffer`, `draw_buffer` | never shows a buffer of a surface that is gone; repaints enough |
| `RootContainer` | display, input device, VSYNC timer | `enableVsync`, `readInput` | see its users |
| `GestureDetector` | last sample, origin, flags | `recognizeGesture` | a touch is one gesture or none, and goes to windows whole or not at all |
| `InputDispatcher`, `InputChannel`, `InputMonitor` | a message queue and its name | `create`, `sendMessage`, `receiveMessage`, `release` | each reader gets its own messages in order |
| `VsyncRequest` | NONE, SINGLE, SINGLESUPPRESS, PERIODIC | `nextVsyncState` | the two sides count the same request down to the same end |
| `WindowAnimator`, `WindowAnimEngine` | a running animation and its id; `mAnimRunning`, `mFrameWaiting` of the window | started on hide and on the first frame of a surface, cancelled for a new visibility, its end a callback | at most one runs; its end is not lost: the app is told to hide, the removal goes on |
| `FrameMetaInfo`, `FrameTimeInfo` | the marks of a frame, counters of the frames since the last log line | `setVsync` and the marks, `time`, `logPerSecond` | a line is true of the frames it counts, and about less than a second |
| parcelables, utilities | plain data | | not modelled |

### What is hard here

* **Two copies of one state.** The app and the server each keep the state of a buffer, of the window's visibility and
  of its VSYNC request. They never compare them; each is changed by messages that are on their way while the other
  side changes its own. (`SurfaceBuffers`, `WindowSession`)
* **Messages overtaken.** A transaction or a VSYNC request sent before `relayout` is handled after it.
  (`SurfaceBuffers`, `WindowSession`)
* **Shared memory without locks.** The ring and the buffers rest on a protocol, and nothing in the code would notice
  if it were broken. (`FakeFmq`, `SurfaceBuffers`, `DirectRender`)
* **Everyone waits for everyone.** With two buffers the app can draw only when the server has replaced the one it
  shows, and it asks for a frame only when it believes that no earlier request is pending. A lost key or a lost
  request stops the window for good. (`SurfaceBuffers`, `WindowSession`)
* **A frame nobody asked for does not come.** Every frame counts the app's request down, drawn or not, and LVGL tells
  of a change once: whoever leaves something undone in a frame must ask again. (`FrameRequests`)
* **Removal in two steps.** A window is marked and a task is posted with a plain pointer to it; three parties can mark
  it and the client can come back before the task runs. (`WindowLifecycle`)
* **Names used again.** Both ends of an input channel unlink its name, each when it likes. (`InputChannels`)
* **Names left behind.** The shared memory of a surface has names that outlive both processes unless one of them unlinks
  them; creation and opening fail half-way, the window is removed and the app dies in between. (`SurfaceMemory`)
* **An animation in the way.** With the transition animation a hide is told, and a removal done, only when the
  animation has ended; a new visibility, a first frame or a removal may replace it or take it away.
  (`WindowTransition`)
* **A touch cut short.** Its events pass a window that may be hidden, animated or removed, a queue that may be full,
  and an app that reads nothing while it waits for `relayout`. (`WindowTouch`)
* **Statistics across frames.** The marks and counters are kept in one object while frames are cut short and lines are
  forced out in the middle of a frame. (`FrameStats`)
* **Pictures made of parts.** The app draws only what changed and the server repaints only what it was told of;
  a mistake shows only when a particular sequence of frames, hidden times and new surfaces comes together.
  (`DirectRender`)

The full list, with the line where each hazard bites, is under `hazards` in `PROJECT.json`.

## The modules

```
BufferSlots <-- BufferQueue                  <-- MCBufferQueue
     ^          FakeFmq (implements KeyFifo) <-- MCFakeFmq
     |          BufferQueue, FakeFmq         <-- SurfaceQueues_proof <------------------+
     |                                                                                  |
SurfaceBuffers (implements BufferOwnership) <-- DirectRender <-- FrameRequests <-- SurfaceBuffers_proof
VsyncRequests <-- FrameRequests, WindowSession
WindowLifecycle, WindowSession <-- Windows_proof
SurfaceMemory    <-- SurfaceMemory_proof        GestureDetector <-- GestureDetector_proof
WindowTransition <-- WindowTouch <-- WindowTouch_proof
InputChannels    <-- MCInputChannels, InputChannels_proof
FrameStats       <-- FrameStats_proof
```

| Module | Models | State and actions in the code |
|---|---|---|
| `BufferSlots` | `common/BufferQueue.cpp` as operators on a value | a queue is `[state, free, data]`: `mBuffers[..].mState`, `mFreeSlot`, `mDataSlot`; `ToState`, `SyncState` |
| `BufferQueue` | one `BufferQueue` and every call to it | one action per method of `BufferProducer` and `BufferConsumer`, with keys that are not its own among the arguments |
| `FakeFmq` | `include/wm/FakeFmq.h` | `mQueue`, `mWritePos`, `mReadPos`; the two stores of `write` are two actions |
| `KeyFifo` | abstract: what a ring of keys promises | |
| `SurfaceBuffers` | the buffers of one window over several surfaces, in both processes, with what is on its way | `BaseWindow::setVisible`, `handleOnFrame`; `WindowState::relayout`, `applyTransaction`, `removeImmediately`; the cleanup task |
| `BufferOwnership` | abstract: each buffer of the current surface is in one pair of hands | |
| `DirectRender` | the picture in those buffers; each action is one of `SurfaceBuffers` and what it does to the picture | `LVGLDriverProxy::drawFrame`, `onRenderStart`, `updateVisibility`, `resetBuffer`; `lv_mainwnd_update_buffer`, `draw_buffer` |
| `VsyncRequests` | the kinds of request and their countdown, for the two modules below that use them | `aidl/os/wm/VsyncRequest.aidl`, `nextVsyncState` |
| `FrameRequests` | when those pictures are drawn: each action is one of `DirectRender` and what it does to the app's request for frames | `BaseWindow::mVsyncRequest`; `scheduleVsync`, `onFrame`, `handleOnFrame`, the end of `setVisible`; `LV_EVENT_REFR_REQUEST` |
| `SurfaceMemory` | the names in shared memory of one window's surfaces, each side's mappings, creation and opening that fail | `SurfaceControl::initSurfaceBuffer`, `initSharedBuffer`, `uninitSurfaceBuffer`; `WindowState::destroySurfaceControl`; `BaseWindow::setSurfaceControl`, `doDie`; `binderDied` |
| `WindowSession` | visibility and VSYNC of the windows of a token, in both processes | `WindowToken::setClientVisibility`, `WindowState::sendAppVisibilityToClients`, `scheduleVsync`, `onVsync`, `responseVsync`; `BaseWindow::setVisible`, `onFrame`, `scheduleVsync` |
| `WindowLifecycle` | windows and tokens from `addWindow` to the task that deletes a window | the maps of the service, `removeIfPossible`, `binderDied`, `postWindowRemoveCleanup` |
| `WindowTransition` | one window with the transition animation, from the token to the task that deletes it; the engine is external: it may report a cancelled animation or not | `WindowState::sendAppVisibilityToClients`, `applyTransaction`, `removeIfPossible`, `onAnimationFinished`; `WindowAnimator` |
| `WindowTouch` | a touch on that window, composed with it | `lv_mainwnd`'s events, `WindowState::sendInputMessage`; `InputMonitor`, `LVGLDriverProxy`'s input device |
| `FrameStats` | the frame log of an app or of the server, clock and all | `FrameMetaInfo`, `FrameTimeInfo`; `BaseWindow::onFrame`, `LVGLDriverProxy`'s marks, `RootContainer` |
| `GestureDetector` | `server/GestureDetector.h` | one action per branch of `recognizeGesture`; the screen poll |
| `InputChannels` | message queues between server and apps | `monitorInput`, `releaseInput`, `responseInput`, `sendInputMessage`, `release`, `stop`, `receiveMessage` |

`PROJECT.json` maps every definition to the lines it stands for. `MC*` modules only give constants values, `*_proof`
modules hold the theorems. `BufferQueue`, `FakeFmq`, `WindowLifecycle`, `DirectRender` and `FrameRequests` are extended
together with, or extend, another specification, so their `Init`, `Next`, `Spec` and types have names of their own
(`QueueInit`, `RingNext`, `LifecycleSpec`, `PictureOK`, `RequestsSpec`).

An action is one handler, up to a two-way call it makes: `BaseWindow::setVisible` is `SetVisible` up to its call of
`relayout` and `RelayoutReturns` after it, since the server handles other calls in between. In `SurfaceBuffers` the
server's half of `relayout` is part of the calling action (nothing the app sends can come between, and removal, which
can, may come before or after); in `WindowSession`, where VSYNC requests of the same app may be handled before
`relayout`, it is an action of its own.

Beside a definition there is often one that changes it the way a plausible mistake would, with a comment that says
which property it breaks (`Cleanup` and `CleanupKeepsChild`). No specification uses these; they document what a
property is there to catch. `PROJECT.json` lists them under `mutants`, and each was checked to break its property.

## What each run checks

All state counts are of distinct states.

| Run | Instance | States | Shows |
|---|---|---|---|
| `buffer_queue` | 4 buffers, 1 foreign key | 477 | states and lists agree, buffers keep to their cycle, in every order of calls |
| `fake_fmq` | 3 keys | 1128 | the ring is a FIFO under every interleaving of reader and writer, if no key is written that is in it |
| `surface_buffers` | 2 buffers, 3 surfaces | 9223 | every buffer in one place, the server shows no buffer of a former surface, the ring is never overrun, a starved app gets a buffer; implements `BufferOwnership` |
| `surface_memory` | 3 buffers, 3 surfaces | 1715 | the names that exist are those of the present surface, a hidden window has none, a dead app leaves none |
| `frame_requests` | 2 buffers, 2 surfaces, 2 regions, 2 versions of each | 150731 | what comes to the screen is what the app would draw, never a mixture and never something older; nobody draws into what is shown; a window with something to draw has asked for a frame (but for `NeverAsked`, [below](#where-the-code-falls-short)), and the picture arrives |
| `window_session` | 1 window whose UI may listen for VSYNC, 5 changes of visibility, 2 calls pending | 74256 | visibility agrees once all calls have arrived, no wake-up is lost, no periodic wake-up is left over |
| `window_lifecycle` | 3 clients, 1 registered token, limit of 2 windows; 3 windows and 3 tokens made | 83948 | no task, map or list holds a deleted window; tokens are in the map as long as they live; what is removed goes |
| `gesture_detector` | 5 x 4 points, edge 1, far 3 | 77680 | a release reports what its first and last point say; touches are withheld whole |
| `input_channels` | 2 monitors, 1 window, 3 names, capacity 2, 3 messages each, 3 queues | 1.33 million, names up to symmetry | own messages, in order, none lost but for a full queue, no name left behind |
| `window_touch` | 4 changes of visibility (visible, hold, gone), 2 transactions pending, a queue of 2; an engine that reports what is removed or not | 139386 | at most one animation, a hide is told, a removal is done, and the app agrees on the touch |
| `frame_stats` | a second of 5 ms, a period of 1 ms, 1 skipped frame, the clock to 9 ms, 3 frames to a line | 1.15 million | a line says what its frames were, is about less than a second, and the stages of a frame fit in it |
| `lost_hide` | 1 window, 4 changes, 2 pending | violation | see [below](#where-the-code-falls-short) |

### Why these bounds are enough to be interesting

* `surface_buffers`: transactions of one surface meet the next, and there is one more to meet those; with three, a key
  can be two surfaces old. Two buffers is the default and the tight case (with three, the app never waits for the
  server to show what was just sent). What is bounded is the number of surfaces that are *made*; failing, hiding and
  removing are not. At the bound, making a surface fails, which the code handles as it handles any failure.
* `frame_requests`: of two regions one is a partial change and both are everything, which the code treats apart; two
  buffers and two versions let a buffer lag one frame behind, which is what the copies are for. That the crop is the box
  around what changed, and may take in a region between that did not, shows with three regions: the run passes with
  them too (1.14 million states, four minutes), and the safety properties are proved for any number. Both versions of
  a region are used up during a run, after which the UI no longer changes; nothing else stops.
* `window_session`: show, hide, show, hide is the shortest sequence that loses a hide (`lost_hide`); the properties
  that hold are checked over one change more, so also when a window that missed its hide is shown again. Two calls
  pending is what lets one be overtaken. Several windows that share the timer are the subject of the proofs. The two
  bounds hold back only changes of the token, frames the timer sends, and requests of an idle app; the code has no
  such limits.
* `window_lifecycle`: three objects let one client come back while its first window waits for its task and a second
  client shares the token; a limit of two is reached.
* `gesture_detector`: 5 x 4 with an edge of 1 has points of every kind: corners, where two edges meet, each edge, and
  the inside; 3 is reached from each edge and not from a neighbour. A touch may be arbitrarily long.
* `surface_memory`: three buffers is the configuration in which a creation can fail with two made, which the code goes on
  with; three surfaces let the app still hold one, the server have the next, and another be made. Only what makes a
  surface is bounded: showing and hiding go on as long as there may be one more.
* `window_touch`: hide, show, hide and show let an animation be replaced by another and a removal come to either; hold
  takes one away without another. A queue of 2 is full after a press and one more event, so a release is dropped.
* `frame_stats`: a second of 5 ms holds several frames of 0 to 4 ms, more than one line is begun and ended by 9 ms, and
  a frame may be longer than the second; three frames have a minimum before, at and after a frame of 0 ms. The proofs
  are for any times.
* `input_channels`: a name passes from one channel to another and back; a queue of 2 is full while a third message
  comes.

### Deadlock

Deadlock is checked in every passing run but four. `window_lifecycle` and `input_channels` set `CHECK_DEADLOCK FALSE`
because their bounds run out: after the last window or queue has been made and removed, or with every client dead,
nothing is left to do. In `window_touch` and `surface_memory` the window goes in the end, or its app does. The violation
run uses the instance of a passing run. In the other passing runs there always is a next step, and that alone would
show little: `BuffersComeBack`, `FramesArrive`, `PictureArrives`, `RemovedGoes` and `RemovalGoesOn` state that the
*right* step comes.

### Fairness

Only what the runtime gives. Each process has one loop that keeps running and handles what has arrived; the binder
delivers one-way calls; a two-way call returns.

| Specification | Fair | Because |
|---|---|---|
| `SurfaceBuffers` | `RelayoutReturns`; `ApplyTransaction`; `FrameBegin` of an app without a free buffer (`Starved`); `FrameCancel` or `FrameSend` | calls return and are delivered; a starved app always has a frame requested (`FrameIsAsked`, in `FrameRequests`), and what is requested comes (`FramesArrive`, in `WindowSession`); a frame that was begun ends in its handler. Nothing says the app ever draws something: fairness is for the disjunction |
| `FrameRequests` | the loop of the app: the end of its calls, of the frames it draws, and a frame while one is *requested*; the loop of the server: transactions and `ServerRender` | no frame comes unasked: that the code asks for those it needs is what `FrameIsAsked` and `PictureArrives` check. LVGL's refresh timer redraws what is dirty |
| `WindowSession` | the timer while it is enabled, the handling of every call that has arrived, per window | |
| `WindowLifecycle` | `Cleanup` | a posted task runs |
| `WindowTouch` | `HandleTransaction`, `SetVisible`, `Relayout`; `Cleanup`; `AnimationEnds` | calls are delivered, the task runs, and an animation that is not cancelled comes to its end |
| `SurfaceMemory` | `BinderDied` | the binder driver reports the death of an app to the server |

The user, the system and the UI are never fair: nothing needs to be shown, hidden, touched, changed or removed.
`Spec` without fairness is used where there is no liveness property.

## What is proved

TLAPS proves these for every value of the constants.

| Theorem | Of | States |
|---|---|---|
| `SurfaceQueues_proof!MembersTyped`, `SlotsAlwaysMatch`, `AcquiresInOrder` | `BufferQueue!QueueOK`, `SlotsMatchStates`, `AcquiredIsOldest` | for any set of buffers and foreign keys, in any order of calls |
| `SurfaceQueues_proof!CycleKept` | `BufferQueue!KeepsCycle` | no call takes a buffer off its cycle |
| `SurfaceQueues_proof!RingTyped`, `RingKeepsShape` | `FakeFmq!RingOK`, `RingShape` | for a ring of any size |
| `SurfaceQueues_proof!RingIsFifo` | `FakeFmq!ImplementsFifo` | the ring, store by store, implements `KeyFifo` |
| `SurfaceBuffers_proof!TypeCorrect`, `OnePlaceEach`, `ShownStaysCurrent`, `KeysAreInTheRingOnce` | `SurfaceBuffers!TypeOK`, `EveryBufferInOnePlace`, `ShownIsCurrent`, `RingHoldsKeyOnce` | for any number of buffers, surfaces made, and transactions on their way |
| `SurfaceBuffers_proof!RefillIsHarmless` | `SurfaceBuffers!RefillErasesNothing` | the second filling of the ring changes nothing |
| `SurfaceBuffers_proof!BuffersAreOwned` | `SurfaceBuffers!ImplementsOwnership` | the two queues, the ring and the transactions implement `BufferOwnership` |
| `SurfaceBuffers_proof!PicturesTyped`, `NewestPictureIsWhole`, `ScreenShowsUi` | `DirectRender!PictureOK`, `NewestIsWhole`, `ScreenIsUi` | for any number of buffers, surfaces, regions and versions |
| `SurfaceBuffers_proof!DrawnIntoUnseen`, `ScreenNeverGoesBack` | `DirectRender!DrawnUnseen`, `NeverOlder` | the same, of every step |
| `SurfaceBuffers_proof!PicturesKeepBuffers` | `DirectRender`, `SurfaceBuffers!Spec` | `DirectRender` implements `SurfaceBuffers`, whose theorems therefore hold of it |
| `SurfaceBuffers_proof!FrameIsAlwaysAsked` | `FrameRequests!FrameIsAsked` | for any number of buffers, surfaces, regions and versions |
| `SurfaceBuffers_proof!RequestsKeepPictures` | `FrameRequests`, `DirectRender!PictureSpec` | `FrameRequests` implements `DirectRender`, whose theorems therefore hold of it |
| `SurfaceBuffers_proof!StarvedAlwaysServed`, `PictureAlwaysComes` | `StarvedIsServed`, `PictureComes` there | the safety behind `BuffersComeBack` and `PictureArrives` |
| `Windows_proof!ObjectsKeepTypes`, `TasksDeleteTheirWindow`, `NoPointerIsLeft`, `RemovedTokensAreGone`, `NoTokenIsLeft` | `WindowLifecycle!LifecycleTypeOK`, `TaskFindsItsWindow`, `PointersAgree`, `TokensAgree`, `OwnTokensAreUsed` | for any number of clients, binders, windows and tokens, and any limit of windows |
| `Windows_proof!RemovalAlwaysPosted` | `RemovalIsPosted` there | the safety behind `RemovedGoes` |
| `SurfaceMemory_proof!TypeCorrect`, `NamesAlwaysMatch`, `HiddenAlwaysFrees` | `SurfaceMemory!TypeOK`, `NamesMatch`, `HiddenFreesMemory` | for two or three buffers and any number of surfaces |
| `SurfaceMemory_proof!RemovalFreesMemory` | `RemoveImmediately` | any removal leaves no name, the safety behind `CrashFreesMemory` |
| `Windows_proof!TypeCorrect`, `AlwaysShownWithToken` | `WindowSession!TypeOK`, `ShownWithToken` | for any number of windows, of changes and of calls on their way |
| `Windows_proof!NoWakeupIsLost`, `NoPeriodicIsLeft` | `WindowSession!NoLostWakeup`, `PeriodicIsWanted` | the same, if no token is put on hold (`NoHold`) |
| `WindowTouch_proof!TypeCorrect`, `OneAnimationAlways`, `TouchAlwaysAgrees` | `WindowTouch!TypeOK`, `OneAnimation`, `TouchAgrees` | for a queue of any size, any changes of visibility, and either behaviour of the engine |
| `WindowTouch_proof!HideAlwaysComes`, `RemovalAlwaysComes` | `HideComes`, `RemovalComes` there | the safety behind `HideIsTold` and `RemovalGoesOn` |
| `GestureDetector_proof!TypeCorrect`, `OneDirectionAlways`, `VerdictOnRelease`, `TouchGoesWhole` | `GestureDetector!TypeOK`, `OneDirection`, `ReleaseVerdict`, `WholeTouch` | for a display of any size and any distances |
| `InputChannels_proof!TypeCorrect`, `NamesAreFreed`, `AlwaysInOrder`, `NothingIsEverLost` | `InputChannels!TypeOK`, `NoNameIsLeft`, `InOrder`, `NothingIsLost` | for any number of monitors, windows, names and messages, and queues of any size |
| `FrameStats_proof!TypeCorrect`, `LinesAreTrue`, `LinesAreShort`, `StagesAlwaysFit` | `FrameStats!TypeOK`, `LineIsTrue`, `LineIsShort`, `StagesFit` | for any second, period and number of frames |

They assume only what the modules' `ASSUME`s say, in the main that the keys of a surface are distinct and not 0 (the
server draws them at random, see below) and that edges are narrower than the display; and `NoHold` where it says so.
The types (`PictureOK` among them), `AcquiredIsOldest` and `RingShape` are proved and not run: they are what the others rest on.

**Behind the liveness properties.** What is to happen needs somebody to do it, in every state; that is safety, and seven
theorems state it. An app with no free buffer either gets one with the next key it reads, or has a frame on its way, and
the server gives back the buffer it shows when that comes: there are two buffers at least, and `AllInPlace` leaves no
other place for the rest (`StarvedAlwaysServed`). A screen that is not what the app would draw has something to draw, on
its way or to repaint (`PictureAlwaysComes`), and while there is something to draw a frame is requested, unless the
only one that was asked for made the surface (`FrameIsAlwaysAsked`). An app that takes its hidden window to be shown is told by an animation
that still runs, has a call on its way, or is about to call `relayout` for the window to be shown; this needs that what the
server told last is the last call on its way or what the app has made of it (`ToldIsLast`), and that an animation is
taken away without a word only if the app had been hidden before (`HiddenBefore`). A window that may be removed is
removed or has its animation (`RemovalAlwaysComes`), unless that was taken away without a report (`Stuck`, see below); a
removed one has its task, about the window its client's entry of the map points to (`RemovalAlwaysPosted`); and a removal
leaves no name in shared memory (`RemovalFreesMemory`). What these leave to TLC is that the steps are taken, and that
enough of them are. For `FramesArrive` it is `NoWakeupIsLost` that says so much.

**BufferQueue.** The three invariants together are inductive. The queue is a value, so the work is in lemmas about
`ToState` and `SyncState` in `BufferSlots`: moving one buffer from one list to another keeps the lists free of
repetitions and equal to the sets of buffers in the matching states (`MovedKeepsSlots`), and leaves the head of the
data list in place unless that is what moves (`MovedKeepsOldest`). Every action is such a move or nothing
(`StepIsMove`), which also gives the action property.

**FakeFmq.** `RingShape` with the types is inductive. The heart is that `write`, which never looks whether there is
room, has room: the unread keys are distinct, the key written is not among them, so there are fewer than `Caps - 1` of
them, by counting (`RoomForKey`). Three lemmas say what the unread sequence is after each of the three stores and
loads (`AfterFlag`, `AfterItem`, `AfterRead`); the first leaves it alone, the others append a key and take the first
one away, and these are the steps of `KeyFifo`.

**SurfaceBuffers.** The app and the server each have a `BufferQueue` of the same buffers, and between them are the ring
and the transactions. `AllInPlace` says of each buffer, by the state the *app* has for it, where it is on the other side;
`SlotsAgree` of the two queues is what the lemmas on `BufferSlots` keep. Two things hold this together. The server fills
the ring with all keys before the app has any, and the app, whose buffers are free from the start, may dequeue one whose
key still waits in the ring; when that key is read it must find the buffer free, or a buffer that is drawn or shown would
be taken for free. `StaleFirst` is why: those keys are at the front of the ring, in the order of the free list, and
`bufferReleased` reads one key before `dequeueBuffer` takes the first of that list. And a transaction of an older surface must not
touch the new one: `SentOK` says that transactions come in the order of their surfaces, and that when the server shows a
buffer, those on their way are of the same surface. `CallsOK` is what holds while the app waits for `relayout`: it keeps
an older surface, and the ring is untouched since the server filled it, so `RefillErasesNothing`. The proof cites the
lemmas on `BufferSlots`, and none of what the two components assume of their callers. That the keys written are not in
the ring, which `FakeFmq` takes for granted (`WriteFlag`), is `KeysAreInTheRingOnce` here.

**DirectRender.** Every step is one of `SurfaceBuffers`, so its invariant is at hand. A buffer is drawn from the one drawn
before it, and the screen repaints only the crop it is told of. `CropsOK` says that a frame on its way is its predecessor,
on its way or shown, but for its crop; `PrevIsLast` that the buffer the app copies from is the last on its way, which
fails as soon as a frame could be lost; `PrevIsWhole` that it shows the UI but for what is dirty; `ScreenIsShown` that
the screen shows the buffer but for what is to be repainted; `Rising` that versions do not fall along this chain. What
the app has yet to draw needs its flags: `UiOK` says when all of it is dirty.

**FrameRequests.** Every step is one of `DirectRender` (`RequestsKeepPictures`), so what is known of pictures and buffers
holds. `FrameIsAsked` is not inductive, since a request is used up by the frame it brings; `AskedOK` adds what the request must
still be worth. Once the app has drawn on its surface, what is dirty became so after its last frame, so LVGL has asked
for SINGLESUPPRESS or PERIODIC and nothing has been counted down since; a frame that finds no buffer asks again. Before
that all buffers are free, and as there is more than one (`AnotherBuffer`), the first frame leaves one, so the app
does not starve with a request used up; that this first frame is asked for is what `NeverAsked` excepts.

**WindowLifecycle.** The four properties are inductive together with three facts. A window that was removed and is not
deleted has a task, and no other has (`RemovedHaveTasks`); with `TaskFindsItsWindow`, which says that it has one task
only, the task that runs deletes the window it was posted for. `WindowsKnown` and `TokensKnown` say that maps hold
objects of their own keys, and that a token of a window's own has the number it was made with, so that none is made
twice. The loop of `removeIfPossible`, over the children of a token, is a recursive function; that it posts each
unmarked window once, in order, is proved by induction (`PostedInTurn`, `PostedOnce`).

**SurfaceMemory.** What could unlink a buffer in use is the app letting go of an older surface. Surfaces are numbered as
they are made, and the invariant says that between the answer of `relayout` and the opening of what it names the app
holds a surface older than the server's (`OlderSurface`), whose names are therefore others. That a hidden window holds
nothing needs what the answer to a hidden window was (`HiddenSurface`).

**WindowSession.** The two sides must be compared at one point of time, with calls and requests on their way. `ToldToShow`
says that the calls on their way to a window of a visible token end with one that shows it, and that as long as the
server takes such a window to be hidden, its app has a `relayout` to send. For requests, what the server will have when
the requests on their way have come (`Asked`) is at least what the app will have when the frames on their way have come
(`Counted`: two frames end every request that ends), unless the app is about to be hidden, which makes it start again
(`AskedEnough`); and if the timer does not run, a request is on its way or nobody waits (`TimerRuns`). That the timer is
one for all windows comes out in `ResponseWakes`. `PeriodicIsWanted` adds what ends a periodic request that outlives the
app's own: the `relayout` of the hidden window, or the call that shows it again (`HiddenStops`, `ShownKeeps`).

**WindowTouch.** Everything the server does to a window is composed of a few operators on its state, and each of these
keeps `OneRuns`: an animation runs only for a window that is alive and knows of it. The touch needs what the app will
know from the last message of the queue (`Heard`).

**GestureDetector.** The properties speak of a touch's first and last point, the code only keeps flags. The inductive
invariant says what the flags are at any time of a plain touch: exactly the verdict for its first point and the point
it has reached, `origin` being that first point; and no flags between touches. That a trigger comes and goes with the
finger is then the fact that the flags after a sample depend on the direction flag and the sample only.

**InputChannels.** An end that is open is open on a queue that was made (`EndsAreQueues`), and when the server has closed a
channel the app still has open, its name is free and stays so until the app is done with it (`HalfOpen`). A name that
may be opened therefore has no queue, the channel that opens it gets a new one, and an open queue is that of one channel
at both its ends (`OneChannel`, `SameQueue`). What a channel has received followed by what is in its queue (`Stream`) is
then its own messages in order: receiving leaves it as it is, sending adds the next number to its end or finds the
queue full, and closing leaves what was received, a prefix of it.

**FrameStats.** The marks of a frame are in the order of time as far as it has come (`MarksInOrder`), and the counters
are about frames that ended before it began (`CountedBefore`). For `LineIsTrue` the counters are compared with functions of
all the times counted: `Tells` says what the maximum and the minimum are, not how they are chosen, so one more time
needs no induction; the sum does.

**Induction over data.** The library's induction theorems take a predicate as a parameter, which the provers cannot
instantiate. `Windows_proof` and `FrameStats_proof` state induction for a *set* of numbers instead (`Induction`, from the
least element that well-foundedness gives), and prove with it that a recursive function on `0 .. n` exists and what its
values are (`LoopRuns`, `AddingRuns`). That is enough for the two loops the proofs meet, of `removeIfPossible` and of the
sum of a line. Both functions are written with `LET f[n \in 0 .. Len(s)] == ...`; operators of the community modules that
recurse inside (`SelectSeq`, `FoldLeft`) are not used where something is proved. No module declares a `RECURSIVE`
operator.

**Only model-checked.** All liveness: `BuffersComeBack`, `FramesArrive`, `PictureArrives`, `RemovedGoes`, `HideIsTold`,
`RemovalGoesOn` and `CrashFreesMemory`. Liveness under fairness and `ENABLED` are beyond this prover; the theorems
that stand behind them are about single states and steps. The violation of `lost_hide` is a counterexample and needs no
proof.

## Where the code falls short

One run ends in a violation of what an interface of the repository says.

* **A hide is lost** (`lost_hide`, `server/WindowState.cpp:115`). Show, hide, show, hide, each sent before the app has
  answered: the app's `relayout` for the first hide makes the window gone in the server after the second show was
  sent; the second hide then finds the window gone already and is not sent. The app handles the second show and stays
  visible, and so does the window, under a token that is gone (`aidl/os/wm/IWindowManager.aidl:68`, "Change the
  visibility of a window by token").

The rest was met while modelling, and there is no run for it; where a property leaves such a case out, it says so.

* *A blank window.* `setVisible` asks for a SINGLE frame (`app/BaseWindow.cpp:285`), in place of the SINGLESUPPRESS that
  LVGL asked for when all of the window became dirty. If its `relayout` has made no surface, the frame this brings makes one
  (`app/BaseWindow.cpp:300-305`): `onFrame` has counted SINGLE down to NONE (`include/wm/VsyncRequestOps.h:29-30`), and
  `handleOnFrame` returns without drawing and without asking again. The window is visible, has its surface, is
  dirty as a whole, and stays blank until something else asks for a frame: an animation of the UI, hiding and showing
  it, or a change, if LVGL, which is not in the repository, asks for an area that is dirty already. By
  `aidl/os/wm/VsyncRequest.aidl:22` SINGLE would wake it for two frames, the second of which would draw. If that frame's
  `relayout` makes no surface either, no other is tried until then. `PictureArrives` and `FrameIsAsked` name
  this state (`NeverAsked`) as their exception; without it TLC finds the case in seven steps.
* *VSYNC and visibility.* `aidl/os/wm/VsyncRequest.aidl:25` says SINGLESUPPRESS "only wakes up for the next frame", but
  `nextVsyncState` takes it to SINGLE, not to NONE (`include/wm/VsyncRequestOps.h:32`), and the server sends `onFrame`
  for both, so it wakes for two; SINGLE, which by line 22 wakes for the next two frames, wakes for one. A window
  whose UI listens for VSYNC can be left visible, waiting for frames, with the timer stopped: shown, hidden and shown quickly, its periodic request is served while the window is gone
  (`app/BaseWindow.cpp:113`), `responseVsync` finds nobody visible and stops the timer
  (`server/WindowManagerService.cpp:584`), and `relayout` makes the window visible without starting it.
  `NoLostWakeup` and `FramesArrive` leave the timer of such windows out. HOLD withdraws the server's request and tells
  the app nothing, which then does not ask again (`server/WindowState.cpp:127-131`). A window attached to a token that
  is already visible is told nothing until the token changes (`server/WindowToken.cpp:43-52`). An app may keep a
  periodic request after its last animation frame (`app/LVGLDriverProxy.cpp:289-297`): wasteful, not wrong.
* *Surfaces.* If the app cannot open the shared memory of a surface for a frame, a surface that is neither null nor
  valid stays and no other is asked for until the window is hidden (`app/BaseWindow.cpp:300-312`); `HiddenFreesMemory`
  shows only that hiding it is a way out. If only some buffers open, the two ends of the ring compute different capacities,
  and if the ring does not open, no released key reaches the app, which stops after its first frames
  (`common/SurfaceControl.cpp:309-330`); the app then also unlinks the ring's name. A `relayout` between the removal
  of a window and its cleanup makes a surface whose buffers nobody unlinks if the app dies before it does
  (`server/WindowState.cpp:76-84`); `NamesMatch` and `CrashFreesMemory` show that names are left in no other way.
  The ring is written with plain stores (`include/wm/FakeFmq.h:61-67`): the code writes the end mark first, but neither
  store is atomic and there is no fence, so a reader on another core may see the item before the mark that ends the
  ring after it, and then find the old content of the next slot; `FakeFmq` takes the stores to be seen in their order.
  Keys and names are random numbers, and nothing looks for equal ones (`server/WindowManagerService.cpp:591-624`).
  `BufferQueue::update` with another surface keeps the old keys on its lists (`common/BufferQueue.cpp:87-122`); nobody
  calls it so. A `SurfaceTransaction` keeps one layer state for every surface it was used with until some window is
  removed (`app/SurfaceTransaction.cpp`).
* *Gestures.* A touch that begins exactly where the last one ended loses its first sample
  (`server/GestureDetector.h:78-80`): origin and direction come from the second, and a window may see a part of the
  touch. A screen switched off in mid-touch gives a window a press without its release. The constructor takes any
  brightness of 0 or less for off, the poll only -1. In `GestureDetector` such touches are `"odd"`, and
  `ReleaseVerdict` and `WholeTouch` do not speak of them.
* *Animation.* A token that is shown or held again cancels the animation (`server/WindowState.cpp:118-122`). Whether the
  engine then calls back is not in the repository; if it does not, `mAnimRunning` stays set, frames without a buffer
  are dropped and a removal waits for an end that never comes. `RemovalGoesOn` names this state (`Stuck`) as its
  exception, `HideIsTold` has none.
* *Frame log.* Frames skipped before the first valid frame of a line are forgotten when it comes
  (`common/FrameTimeInfo.cpp:47-48`), more than 255 skipped frames are counted from 0, and a frame of 0 ms makes the
  minimum forget the frames before it (`common/FrameTimeInfo.cpp:58`); `LineIsTrue` states the last as it is.
* *Input.* Two monitors of one process with the same name share a queue (`server/WindowManagerService.cpp:511`; names
  are also cut to 50 characters), and each may take the other's messages; `InputChannels` takes the names of open
  monitors to differ. There is no death notification for a monitor, so the dispatcher of a dead app stays. A full
  queue drops any message, releases included, and a window hidden in mid-touch never sees the release
  (`server/lvgl/lv_mainwnd.c:342`): the app is left with a finger down. `TouchAgrees` does not speak of such a touch (`cut`): it is
  about those whose events come late or pass a window that is hidden and shown, not about events that never come. The
  point of a released message is not read (`app/LVGLDriverProxy.cpp:377-389`).
  `sendInputMessage` returns the dispatcher's 0 for success as `false`.
* *Event loop.* `uv_close` of LVGL's event timer only asks for it; a window made before the loop has run again
  initialises the same handle (`app/WindowManager.cpp:227`).
* *Null and end.* `addWindow` uses an input dispatcher that may be null (`server/WindowManagerService.cpp:316-317`);
  `requestVsync` reads through `end()` in a log line for a window it does not know
  (`server/WindowManagerService.cpp:493-494`).

## What is not modelled

* **The animation engine**: an external library, known by its calls. The transition animation itself is in
  `WindowTransition`; it is off by default (`ENABLE_TRANSITION_ANIMATION`), and the other modules describe the default
  build, in which a removal never waits.
* **Rendering modes full and partial** and the dummy driver. Direct mode is the default.
* **Failures of the system calls**: `shm_open` and `mmap` fail in `SurfaceMemory`; in `SurfaceBuffers` a surface is opened
  whole or not at all, and `mq_open` does not fail. What the code does then is described above.
* **Buffers without names** (the build without `CONFIG_ENABLE_BUFFER_QUEUE_BY_NAME`), whose descriptors are passed in a
  parcel.
* **Position, alpha, scaling, layers, toasts, dump, logging**: written, parcelled or printed and not read by anything
  modelled.
* **Parcelables, geometry, colour formats**: plain data and arithmetic without state of their own.
* **`HOLD`**: the visibilities of the runs are visible and gone. `WindowSession` has the server's side of it.
* **Equal random keys.** `IdsAssumption` takes the ids of a surface to be distinct and not 0.

## Plan

Done, in this order: `BufferSlots`, `BufferQueue` and its proofs; `FakeFmq`, its FIFO and proofs; `SurfaceBuffers` and
the ownership it implements; `WindowSession`; `WindowLifecycle`; `GestureDetector` and its proofs; `InputChannels`;
`DirectRender`, and `FrameRequests` on top of it; `FrameStats`, `WindowTransition` and `WindowTouch` with their proofs;
the proofs about `WindowSession` and `InputChannels`; `SurfaceMemory` and its proofs; the proofs about `SurfaceBuffers`,
`DirectRender`, `FrameRequests` and `WindowLifecycle`, the rest of those about `FrameStats`, and those behind the liveness
properties.

Left:

1. Windows attached to a token that is already visible, and HOLD, in `WindowSession`.
2. Surfaces that are opened in part, in `SurfaceBuffers`; the failure of `mq_open`, in `InputChannels`.
3. The full and partial rendering modes, in `DirectRender`. Triple buffering needs nothing new (`frame_requests` passes
   with three buffers).
4. The server's half of a request composed with the buffers: `FrameRequests` has the app's half, and takes from
   `WindowSession` that a frame that is asked for comes.

## Running it

```
tlc -config BufferQueue.cfg MCBufferQueue
tlc -config SurfaceBuffers.cfg SurfaceBuffers
tlapm Windows_proof.tla
```

`PROJECT.json` names the module and the configuration of every run. The longest take one to two minutes, and
the longest proof, `SurfaceBuffers_proof`, about five.
