# Blair: models, checks and proofs

Blair is a Wayland compositor written in Rust. This directory holds TLA+ models of its
concurrent and stateful parts, the TLC configurations that check them on small instances,
and proofs, checked by TLAPS, that hold for every value of the constants. The models are
translated from the source; `PROJECT.json` names, for every definition, the lines it stands
for. Paths below are relative to the repository; `dbus/` is short for
`integrations/blair-integration-dbus/src/`.

1. [Inventory](#1-inventory)
2. [Plan](#2-plan)
3. [The modules](#3-the-modules)
4. [The runs](#4-the-runs)
5. [Fairness](#5-fairness)
6. [What is proved](#6-what-is-proved)
7. [Only model-checked](#7-only-model-checked)
8. [Assumptions about the environment](#8-assumptions-about-the-environment)
9. [Findings and observations](#9-findings-and-observations)
10. [Not modelled](#10-not-modelled)

To repeat a check: `tlc -workers 2 -config X.cfg M` for the module and configuration of a
run, `tlapm M.tla` for a module of proofs.

## 1. Inventory

The compositor is one thread around a calloop event loop. It owns the windows, the outputs,
the seat and the Wayland protocol state. A second thread runs a tokio executor with the D-Bus
service. The two meet in three shared structures: the command queue (requests to the
compositor), the authorization table (questions from the compositor and from D-Bus calls to
the permission service) and the event queue (what happened, on its way to subscribers). A
client process that subscribes through `crates/client` has an event queue of its own behind
the bus. Below the compositor the DRM backend presents frames and reports, or loses, vertical
blanks.

| Component | State | Operations | Interacts with |
|---|---|---|---|
| Capture authorization, `dbus/auth.rs` | entries by token with fallback and result, an mpsc channel, worker tasks, the wake-up ping | register, complete, drain, disconnect, drop of ticket or receiver; worker: BeginRequest, WaitRequest, CancelRequest | compositor thread, D-Bus calls, permission service on the bus |
| Screencopy frames, `src/screencopy.rs` | state of each frame, parked frames, the policy | capture by policy or consent, copy, complete, cancel, resume | authorization table, renderer, configuration |
| Event queue, `crates/integration/src/events.rs` | backlog, byte count, reset flag, closed flags, one Notify permit | send (coalescing, overflow), reset, receive, close | compositor, forwarding loop; again in the client |
| Event delivery, `dbus/server.rs`, `crates/client/src/events.rs` | two queues in series, signals on the bus, the reason a subscription ended | forward, reset, subscription task, `next_result` | event queue, bus |
| Session lock, `src/session_lock.rs` | lock state, confirmation waiting for a frame, lock surfaces | lock, unlock, death of the locker, presentation of a locked frame | backend, keyboard focus |
| Frame pacing, `src/backend/mod.rs`, `src/backend/drm.rs` | redraw flag, frame in flight, timers, the two frame slots of the display | poll, queued, presented, forced, vblank, pause, resume, mode switch | lock, rendering, event loop |
| Windows, workspaces and focus, `src/state.rs` | windows, workspaces, focus histories, focused window, show-desktop set, workspace of each output | map, unmap, close, minimize, focus, switch, move, create, prune, reload, show desktop | pointer, shortcuts, layer surfaces, lock, events |
| Command queue, `dbus/command.rs`, `interface.rs`, `backend.rs` | semaphores for places and bytes, pending permits, registrations of clients | send, send_control, dispatch in batches, late replies, exit | D-Bus tasks, disconnect monitor, compositor |
| Display modes, `src/backend/drm.rs`, `src/outputs.rs` | the mode shown, the preview with its deadline, armed timers | preview, confirm, revert, expiry, VT switch | the loop and what wakes it, configuration file |
| Configuration, `src/config.rs`, `src/state.rs` | the configuration in force, the files in layers, the watcher's channel and timer, the keymap | load, apply, save and roll back; watch, debounce, reload | input devices, display modes, workspaces |
| Input devices, `src/input_devices.rs` | devices plugged in, the settings each has, errors | add, remove, preflight, configure, put back, reapply | configuration, the session |
| Layer surfaces, `src/layer_surfaces.rs` | phase with the awaited serial, the layer map of the output, the zone left to windows | role, configure, acknowledge, commit, unmap, destroy; a new mode of the output | outputs, focus, tiling |
| Popup grabs, `src/popup_grabs.rs` | recent presses, the chain of popups with the grabs of keyboard and pointer | record, authorize, grab, dismiss, end | focus, panels, lock, interactive moves |
| Keys, `src/shortcuts.rs`, `src/accessibility.rs`, `src/input.rs` | sticky modifiers; pressed, pending and active shortcuts; suppressed keys | press, release, (un)bind, lock, pause, reload, inhibit | clients, command queue |
| Decorations, `src/state.rs`, `src/handlers.rs`, `src/window_integration.rs` | mode asked for, decided and told for each window | negotiate, rule, policy, hybrid controls, refresh | painting, clients |
| Window placement, `src/state.rs`, `src/grabs.rs` | location, size, place to restore, pending and acknowledged configures, anchor of a resize | maximize, fullscreen, minimize, place, drag, resize, commit | outputs, clients, pointer |
| Tiling, `src/state.rs` | tiles of a workspace | retile, relayout | windows, configuration, outputs |
| Pointer and scene, `src/input.rs`, `src/render/mod.rs` | order of surfaces, focus of the pointer, the mark that it must be refreshed | motion, press, every change of the scene | windows, panels, lock |
| Hot corners, `src/hot_corners.rs` | corner entered, generation, timers | motion, expiry, cancel | pointer, session |
| Frame geometry, `src/decorations/` | none: functions of theme and size | layout, hit test | painting, input |
| Frame painting, `src/render/decoration.rs` | what is kept of each frame, damage of each output | update, render, drop of the kept | decorations, outputs |
| Screenshots, `src/screenshot.rs`, `src/backend/mod.rs` | budget, requests waiting, jobs of the encoder thread | request, capture, submit, encode, finish, unwind | renderer, thread, command queue |
| Idle dimming, `src/idle_dim.rs`; supervised children, `src/state.rs` | brightness to restore; processes with the time of the next restart | tick, activity; supervise | timers, the kernel |
| Frame callbacks, `src/render/frame_callbacks.rs` | callbacks asked for, deadline of each surface, one timer | render, hidden timer, plug and unplug | outputs, clients |
| Rendering on the GPU, drawing of decorations, protocol handlers, wire formats, client calls | pixels, protocol values | | |

### What is hard, and what correct means

- **Capture consent.** Three actors hold a request: the side that asked, the worker that asks
  the service, and the table. Any of them may go first: the frame is destroyed, the caller
  leaves the bus, the policy changes, the worker times out or is aborted, the whole service
  stops. Correct means that nothing is captured without the consent the policy asks for, that
  a policy of denial holds from the moment it is set, and that nobody waits for ever.
- **Events.** The queue drops what was superseded and everything when it overflows. Correct
  means that no consumer can tell: what it reconstructs is what is, or it is told to start
  again. The wake-up is a single permit, consumed before the queue is looked at.
- **Locking the screen.** `locked` is sent when the first locked frame was presented. Frames
  that were already queued, lost flips, failed renders and VT switches lie between the request
  and that frame. Correct means that a client told `locked` finds its lock on the screen, and
  that the confirmation comes in the end.
- **Keyboard focus.** Some twenty operations change windows, workspaces or claims on the
  keyboard, and each must leave focus, history, events and visibility in agreement. Each is
  tested alone; what breaks is a sequence.
- **Configuration.** An update touches the devices, the file and the keymap one after the
  other, each may refuse, and what was done is then undone, which may fail too. The same file
  is edited by the user, saved by the compositor and read again by the watcher; the mode of the
  display is tried before it is saved. Correct means that what runs is what the configuration
  says, that no edit is missed, and that no mode stays on the screen that nobody confirmed.
- **The command queue.** Three semaphores, each with its own point of acquisition and release;
  the cleanup after a client must get through although others keep the queue full.
- **Surfaces and grabs.** A client learns the layout by a configure that it acknowledges and
  draws later, while the output and the other surfaces change; the layout of one surface
  depends on all before it. A popup asks for all input by naming a press, after anything may
  have happened to the keyboard, its parent or the session. Correct means that nothing is shown
  for a configure of an earlier life, and that every grab belongs to the chain that is up.
- **Windows.** Modes, drags, resizes and commits interleave over one place to restore.
  Who draws the frame is decided in one cell by half a dozen parties. Correct means that the
  window comes back to where it was, that the edge not dragged stays, and that client and
  compositor agree about the frame.
- **What is seen and what is hit.** Two pieces of code list the same surfaces in the same order;
  the focus of the pointer is refreshed only by those who remember to ask. What is kept of a
  frame between renders must be dropped whenever what it was made of changes.
- **Keys.** Sticky modifiers, shortcuts with a pending modifier and suppression see the same
  keys, on several keyboards, across VT switches and locks. Correct means that no key is believed
  to be down that is not, and that a shortcut fires only for keys that are held.
- **Budgets and threads.** The room of a screenshot passes from request to job to thread, each
  of which may be dropped or die. Correct means that the sum is right and that every request is
  answered.

Every hazard is listed in `PROJECT.json` with its line and the properties aimed at it.

## 2. Plan

| Step | Modules | State |
|---|---|---|
| 1 | `CaptureAuth`, `ScreenCapture`, abstract `CaptureConsent` | checked; safety and refinement proved |
| 2 | `EventQueue`, `EventQueueView`, `EventDelivery` (two instances of the queue) | checked; safety proved |
| 3 | `FramePacer`, `SessionLock` | checked; safety proved |
| 4 | `Desktop` (operators), `Workspaces` (actions) | checked; proved |
| 5 | `CommandQueue` | checked; wake-ups and the conservation of bytes, places and permits proved |
| 6 | `ConfigTransaction`, `DisplayModes` | checked; safety proved |
| 7 | `LayerLayout`, `LayerSurfaces`, `PopupGrabs` | checked; proved |
| 8 | `WindowModes`, `Tiling`, `Decorations` | checked; proved |
| 9 | `Keys`, `HotCorners`, `PointerScene` | checked; proved |
| 10 | `FrameParts`, `FramePainting`, `FrameCallbacks` | checked; geometry, painting and the throttling of callbacks proved |
| 11 | `Screenshots`, `Housekeeping` (idle dimming, autostart) | checked; the budget and idle dimming proved |

What is left, in the order in which it would add most: two outputs in `WindowModes`, `Tiling`,
`LayerSurfaces` and `PointerScene`; the nested backend. Abstract specifications worth stating next: a configuration that changes as a whole or not at all (for `ConfigTransaction`),
a lock that is requested, confirmed and released (for `SessionLock`).

No module declares a `RECURSIVE` operator: folds of the community modules and recursive
functions are used throughout.

## 3. The modules

Every module models whole handlers: one action is one handler of the compositor thread
(which are atomic with respect to each other) or one step of a task between two awaits.
Operators used by several actions return the state after a call, so that an action is a
composition of the calls the handler makes, in their order.

### Screen capture: `CaptureAuth`, `ScreenCapture`, `CaptureConsent`

`CaptureAuth` is `dbus/auth.rs`. `entries`, `fallback` and `verdict` are the table under its
mutex; `mailbox` and `receiver` the channel; `task`, `heard`, `running`, `closing` the loop of
`auth::run`, its workers and the drop of the receiver; `ping` the wake-up of the compositor. A
token names one request for ever, so requests stand for tokens. `Register` is admission with
its three refusals, `StartWorker`, `BeginReply`, `BeginEnds`, `WaitEnds` and `Release` are the
worker between its awaits, `Abort` the drop guard of an aborted one, `Stop` and
`CloseReceiver` the two halves of the shutdown.

`ScreenCapture` adds the frames of `src/screencopy.rs` (`CaptureRejected`, `CaptureByPolicy`,
`CaptureAsk`, `Copy`, `CompleteCapture`, `CancelFrame`, `Drain`), the `Screenshot` method of
`interface.rs` (`CallPolicy` to `CallScreenshot`) and policy changes. `CaptureConsent` is the
abstract specification: a request is asked once, answered once, and granted only if allowed or
if the policy did not ask. `ConsentOf` is the refinement mapping.

### Events: `EventQueue`, `EventQueueView`, `EventDelivery`

`EventQueue` is `crates/integration/src/events.rs`. An event is a coalescing key (or
`Lifecycle`), a number and a size. `receiver` and `permit` are the tokio `Notify`: an awaiting
receiver that is notified is woken, otherwise one permit is stored. `EventQueueView` adds a
publisher and a consumer that keeps the latest value of each key; `EventDelivery` puts two
instances of the queue in series, with the signals on the bus, the forwarding loop of
`server.rs`, and the subscription task, `OnceLock` and `next_result` of the client.

### Locking: `FramePacer`, `SessionLock`

`FramePacer` has the functions of `FramePacer` in `src/backend/mod.rs` on records; time is
the age of the last frame: below one refresh interval, from one on, and from two on, where its
feedback counts as missed. `SessionLock` has the
lock manager, `dispatch_redraw`, `render` and the vblank handler of `drm.rs`. A frame is what
it shows and the lock it carries; `flip` and `queued` are the two slots of the
`DrmCompositor`. `Tick` is the end of a loop iteration; `Pause`, `Resume` and `SwitchMode` are
the session and mode switches.

### Windows and focus: `Desktop`, `Workspaces`

`Desktop` has one operator per method of `BlairState` that changes windows, workspaces or
focus, from a desktop (a record) to a desktop; `Workspaces` has the handlers. `desktop.told`
is what a client that follows the events knows: each operator updates it where the code
publishes. Geometry and stacking are left out: where the code takes the topmost window, any
visible one is chosen. `Retaining` is `Vec::retain`, the subsequence of the members of a set,
written as a recursive function so that it can be proved about; `Screenshots` uses it too.

### Requests: `CommandQueue`

`slots` and `memory` are the channel's places and the byte semaphore of `command.rs`, `pending`
the permits of `interface.rs`, `call` the one request each client has under way. `Handle` is
everything the task of a method call does up to its first await; `Monitor...` is
`send_control`, which waits for bytes and then for a place; `Dispatch`, `Take`, `BatchEnds`
are `dispatch_batch`. `Disconnect` is the bus that is lost, or an event that cannot be emitted: the
monitors are shut down with what they have not sent, while the compositor goes on
(`server.rs:176`). `ServiceEnds` follows that, or the compositor that closes its end.

### Settings: `ConfigTransaction`, `DisplayModes`

A configuration is a record of four settings that stand for the kinds there are: `layout` is
compiled into a keymap, `pointer` is set in each device, which may refuse it, `mode` needs a
restart, and `reload` is `hot_reload` itself. `Layered` and `Loaded` are the merge of the
defaults, the `config.toml` of the user and `conf.d`, whose fragments may set anything, the mode too. `Accept` and `Reject` are the two ways out of
`apply_config_with` and of the commit that calls it: `Feasible` is what is checked before
anything changes, `DevicesTake` and `DevicesPutBack` a `configure_transaction` that succeeds and
one that is undone, `Saved` the write of the file. `WatchEvent` and `Reload` are the watcher's
channel and timer; `unread` says that events wait, `debounce` that the timer is armed.
`DeviceAdded`, `DeviceRemoved` and `Reapply` are `input_devices.rs`. `edited` and `refused` are
history: who wrote the file last, and whether its present content was refused.

`DisplayModes` extends it with the preview of a mode in `drm.rs`. `Iterate` is what one
iteration of the loop does for the display: an overdue preview is reverted, then the requests
are looked at, then the devices are configured again if the configuration changed. It runs only
when something has `woken` the loop: a callback, the preview's own timer, or `Supervise`, the timer of
`init_housekeeping` that fires every second and stands for input, clients and frames as well. `expired` says that the deadline has passed; `timers` counts
armed timers, whether their preview is still on or not.

### Layer surfaces and popups: `LayerLayout`, `LayerSurfaces`, `PopupGrabs`

`LayerLayout` is the arithmetic of `layer_surfaces/layout.rs`: anchors, margins, sizes and
exclusive zones clamped to what earlier surfaces left and to 32 bits, one axis at a time.
`LayerSurfaces` is the life of a surface: `Register`, `Commit` with a disjunct for each phase,
`AckConfigure`, `LayerDestroyed` and `OutputChanged`, with the layer map, and `told`, the zone
announced to clients. `Layouts` projects the requests of the mapped surfaces one after the other,
as `prepare_layer_layout` does; `ZoneOf` is what smithay's map computes from the projected
requests on its own, by adding up what they reserve.
`PopupGrabs` has one record `seat`: the recent presses of `popup_input`, `active_popup_grab`,
and the chain with the grabs smithay keeps for it. Its actions are presses (key, button,
finger), the request of a grab with its refusals, dismissal, the death of clients, locks and
exclusive panels; `begun` and `moved` are history.

### Windows: `WindowModes`, `Tiling`, `Decorations`

`WindowModes` follows one floating window in one dimension, as the code treats both axes
alike: its place, the place to restore, the size asked of the client and the one it has
committed, the anchor of a resize, and the grab that drags it. `Tiling` has `master_stack`
and `retile` on rectangles, and every operation that lays out a workspace. `Decorations` keeps for
each window what its client asked for over either protocol, the mode decided on (the cell that
painting reads) and the mode of the last configure.

### Input: `Keys`, `HotCorners`, `PointerScene`

`Keys` is the way of a key: `StickyKeys`, then `ShortcutRegistry`, then `keyboard_transition`
with its suppressed keys. `down` counts the keyboards that hold a key, `told` is what clients
believe. Sticky keys and the keymap are reloaded at any moment, whatever is down. Three fields are history:
`held`, the modifiers held together since there were none; `left`, what was pending when
`release_sticky_keys` released the last of them; `astray`, the modifiers whose latch it released while
their own press was withheld. `HotCorners` has the state of `hot_corners.rs`; a timer carries whether it is of the
current generation. `PointerScene` states both orders of surfaces, of painting and of the hit
test, and the pointer's focus with its dirty mark; `stale` is history: the scene was changed by
something that leaves no mark (section 9), and `FocusFollows` says nothing until the next refresh.

### Frames: `FrameParts`, `FramePainting`, `FrameCallbacks`

`FrameParts` computes the rectangles of a frame and what a point of it hits. `FramePainting`
keeps parameters, sampled row and text as `WindowDecoration` does, with the damage each output
has still to repaint. `FrameCallbacks` has the deadlines of hidden surfaces and their one
timer; times are relative to now.

### Services: `Screenshots`, `Housekeeping`

`Screenshots` has the reservations with their drop guards, the queue of the loop, the bounded
queue of the encoder thread, and the thread itself, which may panic. `Housekeeping` has the
backlight with writes the kernel may refuse, inhibitors, and autostart commands.

### Runs of several modules: `MCSurfaces`, `MCWindows`, `MCServices`

Modules that share no state share a run. The variable `scene` names the one that a behaviour
moves; the others stay in their initial states, of which one is picked. Each invariant of such
a run says which scene it is about, fairness is guarded by the scene, and `AskedIsDone` and
`DutiesDone` state one liveness property for several scenes: in each they mean the formulas of
the modules that their comments name. The product of the modules would only repeat each
state of one for every state of the others.

### Proofs: `ScreenCaptureProofs`, `SurfacesProofs`, `SessionLockProofs`, `WorkspacesProofs`, `SettingsProofs`, `WindowsProofs`, `ServicesProofs`, `SequenceFacts`

See section 6. `SequenceFacts` has the lemmas that the others share: ranges and injectivity of
sequences and what `Retained` keeps of them, functions by recursion up to a bound, folds over
sequences and finite sets, and sums. The `MC...` modules hold the instances of section 4. Definitions named after a
mistake (`ForwardResetSilently`, `HandleLeaks`, `MoveTileForward`, ...) are deviations used to
see that each property depends on the code it is about: with the deviation in place of the
definition it is named for, TLC finds the property violated.

## 4. The runs

| Run | Instance | Properties |
|---|---|---|
| `capture` | one frame and one call over one slot of the table | `ConsentRequired`, `EntriesSound`, `DenyHolds`, `ImplementsConsent`, `CapturesResolved` |
| `capture_denial` (violated) | the same | `ExplicitDenialSurvives` |
| `session_lock` | two locks, one failure, one VT switch | `LockedScreen`, `NeverAsleep`, `OnlyHolderUnlocks`, `LocksSettle` |
| `workspaces` | four sessions (`MCSessions`): two windows and three configurations; two outputs, three workspaces and two configurations; layer surfaces and a lock over one window on two workspaces, and over two on one | `DesktopSound`, `EventsTell`, `KeyboardSeen`, `KeyboardClaimed`, `ChangesTold`, `SwitchFocuses` |
| `registrations` (violated) | two clients that register | `OwnedByLiving` |
| `settings` | two devices; three layouts, one without a keymap; two modes; four requests, two edits and a broken file, three fragments of which one names a mode; one timer | `InForce`, `EditsTaken`, `Settled` |
| `display_preview` | two modes, switches that fail, VT switches, two timers; three layouts, files left alone, no devices | `PreviewEnds` |
| `surfaces`, scene *layers* | a dock and a backdrop on an output of two sizes, MaxInt 15, four configures, one resize | `LayersSound` |
| scene *tiling* | three windows, two workspaces, three arrangements | `TilesKept` |
| scene *popups* | two windows and a panel of two clients, two popups, two inputs | `GrabsSound` |
| scene *events* | two keys, sizes 1 to 3, queue of 3 events and 4 bytes, 5 publications | `NoLostWakeup`, `QueueExact` |
| `windows`, scene *decorations* | one window | `FramesAgree` |
| scene *modes* | two sizes of the output, two of the window, two bounded moves | `PlacesKept`, `Restored` |
| scene *pointer* | a framed window and one with controls over it, a panel above them, popups, four points | `PointerAgrees` |
| scene *corners* | two corners, dwell of two | `CornersWait` |
| scene *parts* | 384 themes: bars, buttons and drag regions that fit or do not, edges, icons, both sides; two sizes | `FramesUsable` |
| scene *painting* | two outputs of different scale, all titlebars but gradient | `FramesCurrent` |
| scene *keys* | two modifiers, a key, a shortcut of a modifier alone and one with a key | `KeysReleased`, `FiresWhatIsHeld` |
| `services`, scene *commands* | two clients, two places, three bytes, batches of two, one pending permit | `CallsConserved`, `AskedIsDone`, `DutiesDone` |
| scene *events* | queues of 1 and 2, two signals in flight, 3 publications | `DeliveriesExact`, `AskedIsDone` |
| scene *screenshots* | three requests on one output of two modes, room for two requests and six bytes | `ShotsWithinBudget`, `AskedIsDone` |
| scene *house* | three levels, two inhibitors, one command | `LightKept`, `AskedIsDone`, `DutiesDone` |
| scene *frames* | two surfaces, two outputs, interval of two | `CallbacksKept` |
| `decorations` (violated) | two windows, one of which never negotiates | `UnnegotiatedUnframed` |
| `restyled_titlebar` (violated) | one window, blend and gradient titlebars | `PaintedRight` |

What they show:

- *Capture*: nothing is granted without the consent the policy asks for, a denial holds from
  when it is set, everything in the table is in somebody's hands, each request is resolved, and
  the whole implements the consent protocol.
- *Session lock*: a client told `locked` has its lock on the screen, the loop keeps its
  wake-ups, and a lock is confirmed in the end if the user comes back to the VT.
- *Workspaces*: histories hold what they should, no window is stranded, the keyboard follows
  the strongest claim and never a window that is not seen, and events tell the whole desktop.
- *Settings*: see the three properties; the seat and devices run what is configured, and that
  compiles; types are proved. A preview
  ends (`display_preview`), although its timer is armed before the mode is switched (`drm.rs:203`) and
  its deadline taken after it (`drm.rs:214`), so that the timer may wake the loop too early, and
  although a revert that fails arms no other: the supervision timer looks again.
- *Surfaces*: a layer surface is shown only for a configure of its present mapping and all
  layouts are current (`CycleAcked`, `LayoutCurrent`, `ZoneInside`); tiles are in the slots of the
  present layout and these fit (`EveryTileInPlace`, `SlotsFit`); a popup grab belongs to the
  chain that is up and each press starts one (`GrabsOwned`, `PressOnce`, `PressesFollowFocus`);
  no consumer of the event queue can tell what it dropped.
- *Windows*: `FrameTold`, `Placed` with `OppositeEdgeStays`, `SeenIsHit` with `FocusFollows`,
  `ActsOncePerDwell`, `FrameSound`, `PaintedRight` and `NothingStuck` hold through any order of
  operations, and modes restore the place from before the first (`Restored`).
- *Services*: budgets are conserved (`Conserved`, `BudgetExact`), the chosen light is never lost
  (`LevelKept`), hidden surfaces are told but not too often (`HiddenThrottled`,
  `CallbackCalled`), and what was asked for is done: `AskedIsDone` is `CallsEnd`,
  `CatchesUpOrFails`, `ShotsAnswered` and `ChildrenRestart`, `DutiesDone` is `CleanupRuns` and
  `IdleDims`.

Why these bounds are enough:

- *capture*: the capacity of one makes every refusal happen while another request is queued,
  asked or waiting; the two requests are one of each kind, and they interact only through the
  table. The proofs do away with the bound.
- *session_lock*: two locks are a holder and a rival, or a lock after a release; with two
  slots the frames of two locks and of the session between them can all be in flight. One
  failure at any point, and one VT switch, meet every state of the slots; the safety properties
  are proved for any number.
- *workspaces*: two windows make the history matter; three configurations shrink, grow and
  change the policies while windows are anywhere. What two outputs add (swapping and pinning)
  does not need the second window.
- *settings*: the requests, edits and fragments change each setting alone and several together,
  name the layout without a keymap, and switch reloading off and on; a second timer would only
  wake the loop once more. The proofs do away with the bounds. In *display_preview* two timers are
  that of the preview that is on and one left over from a preview before it.
- *layers*: the dock takes its margin and zone from what is left, asks for more than there is,
  and the backdrop reaches beyond the output, so every clamp is met; the one resize falls between
  any two steps of either surface. Four configures let a surface be mapped twice.
- *tiling*: three windows are a master, a stack and a stack of more than one; the arrangements
  have room for all tiles, for one, and for none but gaps. Proved for any.
- *popups*: a chain of two, a rival window of another client, a panel; the second input may
  come between a press and the grab that names it. Proved for any number of either.
- *events* of `surfaces`: three places and four bytes make both overflows possible, with and
  without an event to coalesce, and a size of 3 exceeds the limit of a single event. Five
  publications overflow, recover and fill the queue again.
- *modes*: two sizes of the output differ in both directions from those of the window; two
  moves interrupt a mode or a resize anywhere. Proved for any sizes and number of moves.
- *pointer*: windows, popups, controls, handles, a panel and the lock may cover each other at one of four
  points. Panels below the windows, or several on a layer, are left to the proof, which is for any windows, points
  and panels.
- *painting*: what an output owes depends only on what changed since, and two are enough to
  disagree; gradient is left to the violated run.
- *keys*: one keyboard, because of the observation on two in section 7; two modifiers are one that
  is latched, locked or withheld and another that is used meanwhile. Reloads come at any moment. A key that switches
  terminals is withheld just as one that completes a shortcut is; it is left to the proofs, which have any number of both.
- *commands*: any two requests fill the queue; a cleanup and two requests compete for its bytes
  and places.
- *events* of `services`: either queue can overflow while a reset of the other is under way.
- *screenshots*: two requests fill the budget, or one does by its bytes; the third must wait
  for what they return.
- *frames*: two surfaces share the timer and two outputs may both show one of them.

`SYMMETRY` is used for windows, layers, popups, layouts and devices that nothing tells apart, in
runs without liveness properties. Deadlock is reported in the run of the desktop and in
`decorations` and `restyled_titlebar`; in the others the system may legitimately stop
(everything closed, released or exited) and liveness properties say where it must not.

## 5. Fairness

| Module | Fair | Why |
|---|---|---|
| `ScreenCapture` | the compositor drains, the loop spawns and joins, each worker ends its waits, drop guards run | calloop dispatches readable sources; tokio polls ready tasks; every wait of a worker is under a timeout (`auth.rs`). The permission service, the clients and the policy are not fair |
| `EventDelivery` | forwarding, the subscription task, the consumer | each is a loop on an executor. Publications and the end of the service are not forced |
| `SessionLock` | the loop ticks, time passes, timers fire, a flip in flight is presented or fails, the user returns to the VT | `Resume` is needed only because a lock cannot be confirmed on a VT that is not shown; a lost flip is covered by the timer |
| `CommandQueue` | the loop serves its wake-up; strongly fair: tasks that wait for a permit | the executor is first in, first out, and so are the semaphores: a task that is ready again and again is polled. Requests, departures, the loss of the bus and the exit are not forced |
| `DisplayModes` | the loop iterates once it is woken, time passes, timers fire, the supervision timer again and again, the user returns to the VT; strongly fair: an iteration that switches an overdue preview back | calloop; the timer of `backend/mod.rs:252` is armed again for a second later each time it fires, and `drm.rs:593` looks at the preview after each dispatch. The last is an assumption about the device and the user: a switch that is asked for again and again succeeds at last, and is not kept away for ever by VT switches. Requests, input, clients and frames are not forced |
| `Screenshots` | the loop captures for each output, the encoder thread runs, what it leaves is dropped | each output is rendered when a request waits for it; a thread with a job is scheduled, or unwinds. Requests and mode changes are not forced |
| `Housekeeping` | the loop's refresh, the supervision of children, seconds pass | `refresh` ends each iteration and the dim timer starts one; activity, inhibitors and exits are not forced, nor do writes succeed |
| `FrameCallbacks` | the hidden timer, refresh, passing time, rendering of an output that stays plugged | calloop dispatches timers and the backend renders what was asked to be; an output that is plugged and unplugged for ever is not rendered (see section 9) |

In `services` the fairness of a module holds in its scene. Of the command queue's two clients, only
those tasks are fair that belong to the one its properties speak of; as no client is told from
another, this says the same for each, and it is the weaker assumption. All other modules state
safety only.

## 6. What is proved

All of it for every value of the constants, from the assumptions named in the modules
(finite sets of frames, calls, clients and windows, positive capacities, natural bounds and
sizes, disjoint markers, disjoint kinds of surfaces). The theorems about `WindowsSpec`, `ServicesSpec` and `SurfacesSpec` rest on
theorems about the modules alone, which hold without the composition (`CornersActOnce`,
`FramesAreTold`, `FramesAreSound`, `PlacesAreKept`, `WindowsAreRestored`, `LightIsKept`,
`TilesAreKept`, `LayersAreAcked`, `LayersAreCurrent`, `FramesArePainted`, `GrabsKept`, `PointerFollows`): a step of a run is a step of the module or leaves it alone.

| Theorems | Argument |
|---|---|
| `QueueTypeOK`, `QueueBounded`, `QueueNoLostWakeup`, `ReceiversAreWoken` | The type says that the byte count is a natural number, and it is not inductive alone: a subtraction could go below zero. The invariant adds a *ledger*, a function of running totals from 0 to the byte count along the backlog (`Ledger`), which states without a fold that the count is the sum of the sizes. Lemmas show that appending and removing an event keep a ledger, and that the one event that coalescing removes is the last one with its key |
| `QueueIsExact` | The ledger is the fold of the property. A replay of the backlog is a function of what the consumer has seen, computed step by step; removing the superseded event of a key changes no later state but of that key, and the new event at the end sets it |
| `DesktopTypeOK`, `ClaimsRespected`, `KeysGoToTheScreen`, `NothingIsLost`, `ClientsAreTold`, `WorkspaceChangesAreTold`, `SwitchingFocuses` | `DesktopInvariant`, of the present desktop: its type, and that every history is injective and names mapped windows of its workspace, every window and output is on a workspace that is, the focus is on the screen and respects what claims the keyboard, and what clients were told is what is so. One lemma for each operator of `Desktop`, one step for each handler; the operators that fold over windows or outputs are shown to keep it by induction over the set folded. What a step sends is proved of each handler with the counts before and after |
| `CaptureTypes`, `CaptureConsentRequired`, `CaptureEntriesSound` | Two layers. `AuthInv` is about the table and its workers: queued requests are distinct and have no worker, a verdict of a denial fallback that allows was heard from the service. `CaptureInv` relates it to frames and calls. `AuthEffect` sums up what any step of the bus thread does to the table, so that the second layer never looks into the workers |
| `CaptureImplementsConsent`, `CaptureDenyHolds` | Step simulation under the invariant, one lemma for the table, frames, calls, the drain and the disconnection; denial is an action property from the same cases |
| `LockTypes`, `LockedScreenHolds`, `WakeupsKept`, `HolderUnlocks` | `Slots` says what may be in the two slots: a frame that carries a lock shows it, no lock still to come has one, and once the lock in force is in the first slot nothing else is behind it. `Clients` says what the clients know of the lock in force. `NeverAsleep` is inductive with a lemma on the pacer: every way out of `poll` and `render` leaves it at rest or with a timer |
| `SettingsTypes`, `ConfigurationInForce`, `EditsAreTaken`, `ModeSettled` | `SettingsInv` adds two facts. `ModeKept`: the mode on the screen, or the one a preview will go back to, is that of the configuration in force. `FilesKept`: a file the compositor wrote last names that mode too. Lemmas on devices and on the transaction (`TakeFollows`, `PutBackFollows`, `AcceptApplies`, `RejectRestores`, `TransactionFiles`) carry it through updates and reloads. Nothing is assumed of the fragments: that the screen has the mode of the configuration in force holds whatever they name; what the next start will load is said, as in `Settled` itself, of the states in which none names a mode (`LoadedMode`) |
| `CornersAlwaysWait` | Only the timer of the last entry is current, and what is left of it is what is left of the dwell: `acts` cannot grow early, nor twice |
| `FramesAlwaysAgree` | `FramesInv`: the cell, the mode told and the mode that rules, wish and policy resolve to move together, with the exception of a rule that is gone |
| `FramesAlwaysUsable` | The geometry depends on theme, size and tiling alone, so the invariant is their type. The lemmas are arithmetic: the row of buttons, the title between icon and buttons, the bands of the edges, and the cases of the hit test one by one. Themes are natural numbers of any size |
| `PlacesAlwaysKept`, `AlwaysRestored` | `ModesInv` relates what is remembered to the modes in force: what is remembered is the place before the first mode (`Remembered`); a window in a mode is, or when minimized will be, where the mode puts it in the present output (`InItsMode`); during a resize the edge not dragged has not moved (`EdgeKept`). One lemma for each operator of the code, one step for each action |
| `LightAlwaysKept` | `LightInv`: dimming goes with idling, except where a write has failed, and what is remembered is what was chosen |
| `CommandsWake`, `PermitsReturn`, `CallsAlwaysConserved` | `PermitsInv`: a command in the queue that awaits a reply is the only one of a call that was sent, so that its reply, its late answer or its loss ends one call. With it, permits are counted by the calls under way (`PermitsFollow`, over `Cardinality`) and places by the queue and the monitor. In `CallsAlwaysConserved` the bytes join them: `BytesOf` is a fold, shown to be the last of its running totals (`BytesSteps`), which append and split (`BytesAppended`, `BytesTaken`); what a release frees goes to the monitor first (`FreedBytes`) |
| `ShotsAlwaysWithinBudget` | `ShotsInv`: a request in flight is in one place of one queue (`QueuesApart`), holds its reservation and has no reply, but for the one that the thread or the unwinding is about to finish (`InFlight`). The budget is then a sum over the requests of what each holds, which changes by what one of them takes or gives back (`TakenBalances`, `ReleasedBalances`, over `SumChanged`); so nothing is given back twice |
| `ReasonsAreReported`, `DeliveriesAlwaysExact` | `StreamInv`: the task leaves its loop with nothing told, and the consumer finds either nothing or the reason itself, never the fallback. `DeliveryInv` puts the subscription, the bus and the service in one line of events: up to the first reset on the bus, each lifecycle event in it finds a consumer that knows what was published before it (`Whole`), and if there is no reset the whole line tells the latest (`Line`). An update that a later one of its key supersedes, with no lifecycle event between, can be left out anywhere in the line (`WholeWithout`, `Coalesced`), so neither queue needs to know of the other |
| `TilesAlwaysKept` | The slots: `StackFits` bounds the stack of `master_stack` for any ratio, gap and number of windows by the algebra of quotients, and ranks of windows are distinct positions (`RanksUpTo`, `RanksDiffer`). The tiles: `TilingInv` says that every workspace without a fullscreen window is in place; `Agree` compares two arrangements on one workspace, so that laying out one leaves the others in place |
| `FramesAlwaysPainted` | `PaintInv`: where an output repaints nothing, what it kept (the parameters of the shader, the row of the strip, the text) is what it would paint now. Without a gradient the parameters tell everything that is drawn over the bar but for the row. With a gradient they do not, which is the finding of `restyled_titlebar` |
| `AlwaysFiresWhatIsHeld` | `KeysInv`, for any number of keyboards: ordinary keys the registry holds are down, the modifiers pending were held since there were none, or are what a reload left, and are at least as many as are held now. What one key does is a fold over the transitions that sticky keys make of it (`TransitionsSteps`); those of a release compose (`RelievedBoth`), and latched modifiers that are used up can only make the registry remember less |
| `KeysAlwaysReleased` | On top of it `KeysExact`, for one keyboard: what is told, withheld or pressed is down, latched or locked, or (not for what is pressed) `astray`; a key that is both told and withheld is `astray`; a modifier is held in the sticky sense only while it is down, and latched or locked only while it is up. A key is withheld by its own press and no longer once its release comes; the only way out of this is a latch that a reload releases behind the back of the shortcuts, and `astray` follows the key until a release of it is forwarded |
| `HiddenAreThrottled` | `ThrottleInv`: what is left of the deadline of a surface and the time since it was told make up one interval, so that nobody is told early. The timer is early enough for the first of the hidden surfaces because it is set to a minimum over them (`MinTime`, because inclusion is well-founded on finite sets); rendering may only delay deadlines |
| `GrabsKept`, `GrabsAlwaysSound` | For any clients, windows, panels, popups and presses. `GrabsOwned` speaks of the end of an iteration of the event loop, so that the invariant has to say what holds before it. `Sound`: the chain climbs from the root of its grab without a repetition, in one client (`ChainUp`); the grabs of keyboard and pointer answer the grab of the chain (`KeysHeld`, `PointerHeld`); a keyboard grab keeps the focus with that client, and no popup has it otherwise (`FocusHeld`); what opened a chain is neither remembered nor held (`BegunOnce`). `Guarded`: a lock leaves no grab, and an exclusive panel, of which there is one at most, has the keyboard or is the root of the chain. While a grab is being replaced only `Loose` holds, a part of `Sound`. One lemma for each helper of the code (`DirectedLoose`, `RefreshedSound`, `WithoutSound`, `GrantedSound`, ...), one for each action; that a chain leads to its root whatever the depth is an induction over its positions (`RootOfChain`), and that a chain cut in the middle keeps its front is a fact about `Retained` (`RetainedFront`) |
| `LayersAlwaysAcked` | `CycleInv`: configures are counted up, those on their way are above the last one acknowledged (`InOrder`), and a surface that has a size was configured in this mapping (`OfThisCycle`). A reset puts the start of the cycle above all that was sent. One lemma for each operator of the code; a new layout only adds configures (`RelaidCounts`) |
| `LayersAreCurrent`, `LayersAlwaysSound` | First the arithmetic, for any request and any space left (`Room`): an exclusive edge is anchored and the only one of its surface (`OneReserves`), its margin was bounded by what is left, so what is taken is there (`MarginBounded`, `ReservationFits`, `LeftInRoom`), and the request handed to smithay's map, with its zone corrected by the margin, reserves just that (`MapAgrees`). Layouts and the totals of the map are two recursions over the mapped surfaces, shown to run together (`LayoutsSteps`, `TotalSteps`, `ZoneIsLeft`). Then the life of the surfaces: `LayoutInv` adds to `CycleInv` that the map holds the mapped surfaces, each once, and that everybody has the size of the present layout. An arrangement establishes that from any state of the surfaces (`RelaidCurrent`); what is done without one changes no surface that is mapped (`OnlyCurrent`) |
| `PointerFollows`, `PointerAlwaysAgrees` | Two arguments, both for any windows, widths, places, frames, panels and handles. That what is hit is what is seen holds in every scene of the right types (`SceneTypes`: no window is twice in the stack). Painting is a sequence and hitting a search from the top, so the lemmas compare them block by block: of two blocks of elements the later one is seen if it has anything at the point (`ForemostBoth`); a layer, a window, the stack, the whole scene are such blocks (`PanelsSeen`, `WindowSeen`, `BlocksSeen`, `StackSeen`, `DesktopSeen`), the stack by induction over its windows. The handles are the exception, and the property says no more than that: a handle takes what is behind its window, never what is painted over it. That the focus follows is inductive (`PointerInv`, `Followed`): each operation asks for a look at the focus, is one of those that leave it to the next motion, or leaves what is below every point as it was (`UnderSame`); a grab remembers where it will go |

## 7. Only model-checked

- Liveness (`CapturesResolved`, `LocksSettle`, `AskedIsDone`, `DutiesDone`,
  `CallbacksKept`, `PreviewEnds`): fairness and `ENABLED` are outside what TLAPS proves.
  Every other property of the runs that pass, invariants and what a step may do, is proved. The
  induction theorems of the library take an operator as a parameter, which the provers cannot
  instantiate; what they would give is had from an induction over a *set* of numbers or of finite
  sets (`InductionUpTo`, `RecursionUpTo`, `FoldValue`, `InductionOverSets` of `SequenceFacts`).
- `KeysReleased` is checked and proved for one keyboard only (`MaxDown = 1`), and false for more: with the same modifier pressed on two, a
  reload that switches sticky keys on while it is held leaves it down for clients, in a trace of
  seven states that TLC finds for `MaxDown = 2`.
- Of `FramesCurrent`, titlebars with a gradient, for which it does not hold (see section 9).

## 8. Assumptions about the environment

- *smithay, `DrmCompositor`*: a queued frame is submitted at once or replaces the one queued
  before it; `frame_submitted` takes the frame in flight, submits the queued one, and loses its
  data if that fails; a flip interrupted by a VT switch is reported later or forgotten with
  what was queued; a resume and a mode switch reset the buffers, so that the next frame is
  damaged.
- *smithay, seat*: when the keyboard focus becomes nothing, no focus change is reported
  (`src/state.rs:1655` relies on it).
- *tokio and zbus*: each method call is handled by a task of its own; released permits go to
  the first waiter; `Notify` stores one permit.
- *The permission service* answers anything, at any time, or never. *Clients* do what the
  protocols allow, and leave at any time.
- *Devices* take a setting, refuse it, or keep the new value when the old one should be put back.
  *The user* edits either file at any time, also with something that does not load.
- *smithay, xdg and layer shell*: configures are acknowledged in order, some skipped; a popup grab
  is ended by the death of its popup and dismissed from the top; the implicit grab of a press
  keeps the pointer's focus until the last button is up.
- *smithay, damage*: an element is repainted on an output where its commit counter has moved since that
  output last saw it.
- *The kernel* may refuse any write of the backlight and any spawn. *A thread* may panic in the
  encoder, at any job.

## 9. Findings and observations

- *A denial can be lost* (`capture_denial`): the worker holds an explicit denial in a local
  variable while it awaits `CancelRequest`, and is aborted there when the transport shuts down;
  its guard then completes the request with the fallback, which allows under `ask-safe`. A test
  (`dbus/auth/tests.rs:201`) is named for the opposite, and aborts only after the result was
  recorded.
- *A registration can outlive its client* (`registrations`): the task of a method call and the
  disconnect monitor are not ordered. When the cleanup is queued first, the rule or shortcut of
  a client that is gone stays, although `interface.rs:374` calls it process-owned.
- A save writes the configuration in force to `config.toml` only. A fragment of `conf.d` that names
  the same setting undoes the update when the watcher reloads the files; an edit of
  `config.toml` that was not read yet is overwritten. If a fragment names a mode, the next start shows that one and not
  the one the user confirmed. None of it is denied anywhere.
- An update of the output is saved with the mode in force and waits for a restart that will not
  find it: `apply_config_with` puts the old values back before it saves.
- The `focused` window is kept when the keyboard focus becomes nothing, so it may name a window
  without the keyboard; windows mapped or moved while a layer surface has the keyboard are not
  in the focus history; switching back to a workspace restores its remembered window even if
  it was minimized. No text of the repository says otherwise.
- In every state explored, the clean-up of the histories in `apply_workspace_config` finds
  nothing to remove: it is redundant.
- *Windows are framed that did not negotiate* (`decorations`): `refresh_decoration_modes`
  (`state.rs:2770`) sets the mode of every toplevel, although the comment at `state.rs:2744` says that
  a client that never negotiated is framed only when the compositor forces it. A reload, or any
  client that opts in to hybrid controls, is enough.
- *A restyled titlebar stays* (`restyled_titlebar`): switching `titlebar_color` between blend and
  gradient changes none of the parameters that `WindowDecoration::update` compares, so that nothing
  is damaged (`render/decoration.rs:335`); the comment at `render/decoration.rs:248` says that a restyled
  frame is dirty as a whole.

The following were met while modelling. The models do what the code does, and the properties
leave these cases out by name; no text of the repository says otherwise.

- *Keys*: `release_sticky_keys`, which a reload calls, releases latched modifiers without a look at
  `pending_modifiers` or `suppressed_keys`. Switch sticky keys on, tap Super, switch them off: Super stays pending, and a tap of
  Control alone fires the launcher (`left` in `FiresWhatIsHeld`). Hold a key, switch sticky keys on, tap
  a modifier whose press completes a shortcut, and reload: the modifier stays withheld, and the next
  release of it is swallowed although its press was told (`astray` in `NothingStuck`). With two
  keyboards, switching sticky keys on in the middle of a chord makes clients believe a key to be down.
  Releases of intercepted keys are forwarded without their press after a lock or a pause.
- *Command queue*: a cleanup that the disconnect monitor has not sent when the bus is lost is dropped with
  it; what that client registered stays for as long as the compositor runs (`Abandoned` in
  `CleanupRuns`).
- *Popup grabs*: when a client with an open grab dies toplevel first, the keyboard belongs to nobody
  until the next click.
- *Decorations*: clients of the KDE protocol are not told again on a refresh. A rule's mode stays in
  the cell when the rule is gone and the window maps again. A window-integration object created
  anew is told `None` while a hybrid request is in force. A change of the frame by negotiation
  does not lay out a maximized window again. A hybrid request changes the mode of other windows,
  whose buffers are dropped only at the next render.
- *Window placement*: a minimized window that is maximized, made fullscreen, moved over D-Bus,
  dragged, or anchored by a commit is put back into the space, and restored later to a stale place.
  `relayout_all` skips minimized windows. A resize of a maximized window is allowed. An anchor left
  by an unfinished resize displaces a window that was maximized before its client commits; the
  end of a resize makes the next commit drop the anchor, even if the client has not caught up. A drag
  goes on when the client maximizes itself in the middle of it.
- *Tiling*: with two outputs, a swap or switch of workspaces does not lay them out for the output
  they come to; a tiled window that becomes fullscreen leaves its slot empty below it.
- *Pointer*: the resize handles around a frame take clicks on what is behind their window and painted
  there, but nothing that is over it. The controls of an overlay take clicks before a popup of the same window that is
  painted over them. A fullscreen request that moves nothing, and commits that change a size, a popup or an anchor,
  do not mark the pointer's focus; a mark that is taken while a grab prevents the refresh is
  lost. A press focuses the window that is there but is delivered to the focus of the pointer, which
  may be stale. A motion activates the constraint of the surface below although a grab keeps the
  focus elsewhere; absolute motion ignores confinement; the hovered button changes on motion only.
- *Hot corners*: warps do not update the corner, and a reload or VT switch in a corner arms it again
  at the next motion.
- *Frames*: small buttons may lie wholly within the resize zone of a corner, which goes first by
  design; narrow windows push buttons out of the titlebar.
- *Frame callbacks*: a surface starves while its output is unplugged and plugged again for ever.
- *Services*: an autostart command whose spawn fails once is given up. The light may be dimmed while the
  session is paused, and a brightness set by another program while it is dimmed is overwritten. An
  encoder that panics answers before it gives its reservation back.

## 10. Not modelled

The parts listed as not modelled in `PROJECT.json`, each with its reason. Within the modelled
parts:

- *Session lock*: lock surfaces (their keyboard is in `Workspaces`), several outputs, a failed
  activation of the device, a timer that cannot be inserted, the nested backend, whose frames
  are shown by its host.
- *Desktop*: geometry and stacking (in `WindowModes` and `PointerScene`), kiosk mode, more
  than one layer surface, rules other than the workspace.
- *Settings*: system profiles, validation of values, the directories watched, device errors as text,
  a seat without a keyboard, the nested backend, a failed activation of the DRM device, a
  timer that cannot be inserted; what a reload changes in the desktop is in `Workspaces`.
- *Command queue*: what the commands do; the theme and sleep monitors, which send as the
  disconnect monitor does.
- *Event delivery*: the start of the service, activation, decoding of signals.
- *Capture*: copying of pixels.
- *Layer surfaces*: the removal of an output, which does not happen while the compositor runs.
- *Popup grabs*: drag and drop, other seats, popups that ask for no grab.
- *Window placement*: both dimensions together, limits of sizes, the choice of the edge.
- *Pointer*: constraints, magnification, touch and tablets; the output has one dimension.
- *Frame painting*: rasterizing, shaders, opacity, and the pool that shares equal images of buttons.
- *Housekeeping*: commands without `restart`, which are reaped and forgotten.
- *The rest* of the source is drawing (shaders, blur, glyphs, cursors), conversion (wire types, parsing,
  validation), forwarding (protocol handlers, the client library) and set-up (devices, buses),
  with no state that outlives a call and is shared.
