# Verification of the smart home RC simulator

TLA+ specifications of the smart home remote-control simulator, the TLC runs
that check them on small instances, and TLAPS proofs of their main properties
for every value of the constants. Source paths are relative to the root of the
repository; `web_server.py`, `scheduler.py` and the other Python files are in
`test_simulator/`, the C library is in `src/` and `include/`, and the page's
scripts are in `test_simulator/web_static/js/simulator/`.

    tlc -config TvServerPresses.cfg MCTvServer     # one run
    tlapm TvServerProofs.tla                      # the proofs of one module

## 1. Inventory

### How the parts fit together

                    HTTP / socket               REST, MQTT, presets
     C remote  ------------------->  web server  <------------------- scheduler
     (library)                        tv_state                        (a process)
                                       |    ^
           interrupts, tv_state_update |    | button_press, update_volume,
                                       v    | request_state
                                   browser pages

The C remote keeps a local copy of the TV's state and a *connection* to the
device, transmits IR codes through a simulated transmitter, and can hand its
presses to the simulator over a UNIX socket or HTTP. The web server owns the TV
and the room, two plain dictionaries that every thread reads and writes. Pages
hold a copy of the state, renewed by broadcasts. A scheduler process applies
presets at times of day through adapters, of which the simulator is one.

### Components

| Component | State | Operations | What is hard | What makes it correct |
|---|---|---|---|---|
| Press handler (`web_server.py` 290-568, 723-747) | `tv_state`, `room_state`, notification timer | `handle_button_press`, `handle_update_volume`, the timer's `_clear` | a thread per caller, no lock on the state | fields in range; overlays exclusive; entries consumed and never stale; broadcasts current; one timer; notifications neither stick nor vanish early |
| Events between server and pages (`web_server.py`, `socket-state.js`) | the sockets, events under way, each page's copy | emit, `button_press`, `request_state`, connect, disconnect | pages answer interrupt events; events of one page run in parallel; lost connections | a press applied at most once; echoes end; pages end up with the server's state |
| Rate limit (`web_server.py` 96-122) | windows per client | `_rate_limit_exceeded` | the store's growth, window borders, clock set back | never more than twice the limit in a window's length; the store bounded |
| Graphics preset and tier (`gpu_runtime/`, `web_server.py` 257-262, 582-608) | configuration file, cache | detect and save, set override, get cached | read-modify-write of a file by several threads | an override is not lost; the cache agrees with the file |
| Webhooks, MQTT (`service_layer.py`) | none but threads under way | `fire_webhook`, `publish_mqtt`, subscriber | a thread and a retry per event | at least once while the receiver answers; ordering is *not* promised |
| Presets and adapters (`presets_loader.py`, `adapters/`) | `_INSTANCES` | `get_adapter`, `send_button` | cache without lock, answers that come late | one instance per target; retries that repeat |
| Scheduler (`scheduler.py`) | `last_triggered`, `shutdown_requested` | `run_due_rules`, `apply_preset`, `send_button_with_retry` | time passes while it works | once per minute; nothing missed unless slow; stops when asked unless a send hangs |
| Connection manager (`src/connection.c`) | status, device, counters, configuration | init, establish, verify, reconnect, disconnect, test, send with retry, cleanup | a transmission calls handlers that change what it relies on | status agrees with device; counters add up; reconnects recover |
| Remote control (`src/remote_control.c`) | local volume, channel, power, device | press, set device, ensure connection | local state changes before the send may fail | a press reaches the device selected; local state in range |
| Handlers (`src/handlers.c`) | registered handlers, pending tick, pending button | register, trigger, timer, interrupt | signal handlers and timer-queue threads | no expiration handled twice or dropped without an answer; a stopped timer is quiet |
| System lifecycle (`src/system_handler.c`) | system state, error log | init, set state, report error, reset, shutdown | handlers that re-enter | only transitions that the state machine has; ERROR can be left |
| Universal TV scan (`src/universal_tv.c`) | scan index, mode | start, next, confirm, cancel | handlers that cancel the scan during a step | every code is offered once; a scan ends |
| IR transmitter, codes, protocols (`src/ir_*.c`) | `initialized` | init, send, encode | bit-exact encodings | encoding agrees with the protocol |
| Latency, I/O modes (`src/latency.c`, `src/io_mode.c`) | samples, totals | record, percentiles, execute | limits, unsigned totals | statistics describe what was recorded |
| IPC link (`src/tv_simulator.c`, `ipc_server.py`) | sockets, command queue | connect, send, read | framing, a restart of the server | a press arrives, once |
| HTTP link (`src/tv_simulator_web.c`) | a kept-alive socket | request with one retry | a late reply is taken for a lost request | a press is applied once |
| Page state, volume display (`socket-state.js`, `animations.js`, `globals.js`) | `tvState`, `volumeStabilizer` and its flags, timers, a frame loop | `updateTVState`, `smoothVolumeTransition`, the frames' monitor | a page's own echoes among the changes of others, timers, lost connections | flags never stay up; the displayed volume ends at the server's; stabilizing ends |
| Picture (`main.js`, `animations.js`, `screen.js`, `ir.js`) | animations, channel overlay, canvas, beam, lit button, LED | start of an animation, a frame, `updateTVScreen` | animations that overlap, frames that come late, a page that goes offline | canvas current; dark when off; at rest the state's picture alone; one beam, one light; everything ends |
| Screen contents (`screen.js`) | the canvas context | one draw function per app and show | context state that leaks from one helper to the next; positions by formula | texts on the canvas; a screen looks the same whatever was drawn before |
| First-person player (`controls.js`, `fp-*.js`) | who walks, panels, remote, keys, fingers | enter, exit, pointer lock events, keys, touch | the browser answers late, takes the lock or the focus away | panels and lock belong to a walk; no ghost input; the remote within reach; an exit happens |
| Virtual TV (`virtual_tv.py`) | the desktop simulator's TV | `handle_button` | a second implementation | agrees with the web server's |
| 3D scene, collision and audio, GPU detection, brand detection, assembly | - | - | numeric or timing only | not modelled, see section 8 |

The hazards of the code, each at its line and with the properties that catch
it, are listed in `PROJECT.json`; a hazard without a property names the module
of the plan that will cover it.

## 2. Plan

Done, in this order (the state everything else revolves around came first):

1. `TvState`, `TvServer`: the press handler and its threads.
2. `PressPromise`, `PressEcho`: what is promised of a press, and what server and
   pages make of it.
3. `Connection`: the link of the C remote, with the remote's press on top.
4. `Scheduler`.
5. `TimerDispatch`.
6. The page, from the outside in: `PageVolume` (with the server, on top of
   `TvState`), `TvPicture` (on top of `TvState`), `WalkMode` with `WalkPromises`,
   and the screens `ScreenLayout`, `TvScreens` with `ScreenPromises`.

Next, most important first:

| Module | Question | Composition, abstract specification | Runs and bounds | Main claim |
|---|---|---|---|---|
| `WebClient` | a late reply and the retry: is a press applied once, and at least once? | against a promise like `PressPromise` | 2 presses, 1 late reply, 1 lost connection | at most two applications per press |
| `IpcLink` | framing, queue, restart of the server | `TvState` through its abstract press | 4 presses, queue of 4, 1 restart | bytes neither lost nor reordered |
| `UniversalScan` | the scan with handlers that cancel or confirm | - | 3 codes | index in range |
| `SystemHandler` | the state machine with handlers that re-enter | - | re-entry depth 2 | legal transitions |
| `GraphicsConfig` | detection against override, cache against file | a register per setting as abstract specification | 2 threads, 2 tiers | cache and file agree when idle |
| `RateLimit` | the bound over any two windows | - | 2 clients, limit 2, 8 ticks | the count of a window |
| `Outbound` | webhooks and MQTT: which orders can a receiver see? | - | 3 events, 1 retry | at most two deliveries per event |
| `Handlers`, `RemoteState` | the interrupt slot; the local copy of the state against the TV's | `RemoteState` uses `Connection` | 3 interrupts; channel modulo 256 | ranges |
| `VirtualTv` | two implementations of a button agree | uses `TvState` | every button from boundary states | - |
| `Adapters`, `Latency`, `IoMode`, `IrProtocol` | instance cache, statistics, encodings against their definitions | - | bounded inputs | - |

The runs of the later modules join existing ones where components interact
(`RemoteState` and `Handlers` compose with `Connection` and `TimerDispatch`,
`Adapters` with `Scheduler`), and the pure
functions (`IrProtocol`, `VirtualTv`, the tier classifier) share one run whose
states are their inputs.

## 3. The modules and the code

`PROJECT.json` maps every definition to its lines. In all modules an action is
what the code does between two points where somebody else can interfere;
logging and wording are left out, and drawing where a
module is not about it.

**`TvState`** has no variables. `Tv` and `Room` are the fields of `tv_state` and
`room_state` that buttons change; `TvAfter` and `RoomAfter` are the branches of
`handle_button_press`. A branch is given what the thread has *read* (`seen`) and
what the dictionaries hold when it *stores* (`now`): `tv_state['volume'] =
min(100, tv_state['volume'] + 1)` is
`[now EXCEPT !.volume = AtMost(seen.volume + 1, 100)]`. A notification is a kind
and a number, enough to tell equal texts from different ones.

**`TvServer`** runs the handler in `Threads`. REST requests, Socket.IO events,
the IPC command loop, the MQTT subscriber and presets each call it in a thread
of their own (the server runs in Socket.IO's threading mode). `pc[t]` walks
through the reads and stores: `ReadState`, `StoreState`, `CloseOthers` (the
second store of Menu and Settings), the seven steps of the number pad from
`CheckStale` to `ClearEntry`, `Emit`, `ScheduleClear`. The stores of one branch
are otherwise one step, and so is a broadcast, which encodes the dictionary and
queues it. Every press starts a `Timer`, which fires, compares, clears and
broadcasts in steps of its own. `now` counts pauses longer than
`CHANNEL_INPUT_TIMEOUT_SEC`.

**`PressPromise`** is the abstract specification: the server runs a button only for
a press that was made, with the code of that press, and once; only a press that is
announced to pages can come back as an echo, at most twice for each page. It
says which presses are handled and not what becomes of `tv_state`: handlers that
overlap can lose each other's updates, and what holds all the same is
`TvServer`'s to say.

**`PressEcho`** models what travels, with a thread for each press. `HandleButtonPress`
is its beginning (`last_button`, notification); then a hardware press (REST's default,
and IPC) is announced by two interrupt events (`Announce`, twice), the branch stores
any number of times (`Branch`) and the state as it then is goes out (`Finish`). No
lock is held in between: threads of other presses, and the other writers
(`update_volume`, brand detection, the notification timer: `Write`,
`FinishWrite`), take their steps at any time. `tv` is one of a few `States`, and a
store may leave any of them. A broadcast reaches the connected pages in order
(`inbox`, a sequence); what a page sends (`outbox`, a set) is handled in any order;
a lost connection drops both, and the threads under way go on. `Receive` answers
each interrupt with a press, as `socket-state.js` does. History: `pressed` (the code
of each press), `applied` (how often it was handled), `told` (which page was told
which interrupt of it).

**`Connection`** is the library's link. `link.fresh` is "verified within
`verify_interval_ms`". A call is one step, but a transmission is a step per
attempt, because `ir_send` runs the application's handlers: between two attempts
they may bring the transmitter up or down, select another device, change the
configuration or reset the counters. Handlers that connect or disconnect in the
middle of a send are not modelled. `Press` is `remote_press_button` as far as
the link goes. CONNECTING and VERIFYING do not outlast a call and TIMEOUT is
never assigned, so `Status` has three values.

**`Scheduler`** is the loop with its clock. Ticks pass while it sleeps
(`Sleep`) and while it sends (`Send`, which takes up to `MaxSendTicks` and
succeeds or not); the rest takes less than a tick. A send to a target in `Untimed`
may also never return (`Hang`): the Samsung, LG and CEC adapters set no timeout
(`samsung_tv.py` 69 and 83, `lg_tv.py` 63 and 77, `cec_adapter.py` 84-86), the
simulator's and Broadlink's do. A rule's time is an absolute
minute. An unknown target and an unknown preset both fall through to the next
rule, as the caught exceptions do.

**`TimerDispatch`** has both builds of the `#ifdef`, chosen once in `windows`: on
Windows a thread of the timer queue increments `timer_pending`, also after the timer was deleted,
and an exchange takes it; on POSIX a signal handler sets it between any two
steps of the program, which reads and then stores. `latest` follows the latest
expiration that was marked: due, handled by a call, refused with -1 because no
handler is registered (which drops it, `handlers.c` 518), dropped by a stop, or
erased by POSIX's race.

**`WalkMode`** is walk mode of the page. A script's handler runs to completion,
so it is one action; the state of all scripts is one record and a handler a
function on it, composed as the code calls them (`BeginWalk` is
`InteractEnter(HudEnter(...))`, the order in which `FP.emit('enter')` reaches the
modules). The browser is the other actor: `Grant` and `Deny` answer a request
for the pointer lock at any later time, `Unlocked` completes a release, `Blur`
takes the focus and with it the lock and every key that is let go meanwhile.
`hands` is what the user really holds down. One key stands for the four of
movement, one device for everything that can be used. The canvas gets the mouse's
clicks while nothing covers it, and under the pointer lock whatever covers it.
**`WalkPromises`** is what is
claimed of it: an instance of `WalkMode` and the properties, under names that do not
collide with those of `TvPicture`, so that both parts of the page share a module
of theorems.

**`PageVolume`** is the volume stabilizer of the pages against `update_volume` of
the server. `page[p]` has the page's `tvState`, the fields of
`volumeStabilizer`, whether its frame function is scheduled (`loop`) and the two
kinds of timeouts (`soon`, 100 ms after an echo; `later`, 500 ms after a
transition). Broadcasts are a queue; the requests of a page are handled in any
order, as the server gives each a thread. `Frame` is a frame of
`animate` in `main.js`: the monitor, then the transition. Volumes and the easing
are whole numbers, a transition is drawn at half its time and at its end.

**`TvPicture`** follows a `tv_state_update` to the canvas. `anim.clock` has the
age of each animation in quarters of a second; `UpdateTVState` is `updateTVState`,
`Frame(g)` a frame `g` quarters after the last, with `Fade`, `AdvanceApp` and the
other parts of `animate` in their order, and a redraw if `Dirty`. `Draw` says what
`updateTVScreen` puts on the canvas as a function of state and animations: level
of brightness, content, texts, volume bar, overlay. `scene` is the LED, the
beams of `ir.js` with the loops that will remove them, and the lit buttons. The
volume stabilizer, which `updateTVState` starts as well (`socket-state.js` 299-346)
and whose frames store volumes after the redraw (`animations.js` 292-295), is not
part of it but of `PageVolume`: the volume of this page is that of the last update.

**`ScreenLayout`** has an operator per draw function of `screen.js`: the sequence
of what it writes and paints, with places and extents in pixels, and of what it
does to the context's alignment (`textAlign`, `save`, `restore`). **`TvScreens`** is the
machine that executes them: a frame of one screen after a frame of any other,
one context for all. `Frame` puts around the content what `updateTVScreen` draws
itself: channel number before it, volume bar, channel overlay and input label
after it. During a change of the app its phases stand in place of the content
(`AppSwitch`). What moves for a moment is drawn as if it stood still, and particles,
ripples, waves, scan lines and shimmer are left out; so is `textBaseline`, the vertical
half of the alignment, which is state of the context as well. **`ScreenPromises`** is what
is claimed of it. `SameEveryTime` says what alignment a text of a frame drawn
alone would have without executing anything (`AlignedAlone`: the last alignment that
was set at a depth of `save` and `restore` that still counts), so that the machine
is compared with a definition and not with itself.

## 4. Runs

| Run | Configuration | Properties | What it shows |
|---|---|---|---|
| `tv_presses` | `TvServerPresses` | TypeInv, OneOverlay, SingleTimer, ShownIsCurrent, NotificationClears | two presses of any kind of button and a volume update in every interleaving: fields stay in range, menu and settings do not stay open together, at most one timer waits, the last broadcast carried the state, a notification goes away |
| `tv_digits` | `TvServerDigits` | EntryIsConsumed, NoStaleDigits | three digits always have a thread that consumes them; no channel from digits a pause separates |
| `echo_hardware` | `PressEchoHardware` | EchoesEnd, EveryEchoIsApplied, PagesInStep, PagesConverge | echoes end; without a lost connection a press is handled once and once for each interrupt a page was told, no less; while no thread is between store and broadcast the last state under way to a page is the server's; connected pages end up with it |
| `echo_promise` | `PressEchoPromise` | KeepsPressPromise | server and pages implement `PressPromise`: whatever overlaps, buttons are run only for presses that were made, with their own code, and no more often than they were announced |
| `echo_once` | `PressEchoOnce` | AppliedOnce | **violated**, see the finding |
| `conn_link` | `ConnectionLink` | StatusFitsDevice, StatsAddUp, PressReachesItsDevice, PressRecovers | status and device agree, counters add up, a press goes to its device and finds a link again |
| `sched_day` | `SchedulerDay` | OncePerMinute, MissedOnlyIfSlow, StopsWhenAsked | a preset at most once a minute, none missed unless a pass was slow, the signal stops the loop unless a send hangs in an adapter without a timeout |
| `timer_builds` | `TimerDispatchBuilds` | TickIsKept, StoppedIsQuiet, RunsFollowTicks | on both builds no run without an expiration, and a marked expiration stays until a dispatch answers it or refuses it with -1, or a stop drops it (POSIX's race aside); POSIX leaves nothing pending after a stop |
| `page_volume` | `PageVolume` | NotStuck, PageShowsServer, LimitHolds, Settles | the stabilizer of a page never blocks itself, ends, ends with the server's volume and below the limit, whatever buttons, late echoes and a lost connection do |
| `tv_picture` | `TvPicture` | CanvasIsCurrent, DarkWhenOff, AtRest, OneBeamOneButton, Settles | overlapping animations end in the picture of the state, the canvas never lags behind, at most one beam and one lit button |
| `tv_screens` | `ScreenPromises` | Legible, Seen, SameEveryTime | every screen, and every phase of a change of the app, after every other: nothing leaks through the context, texts and shapes lie on the canvas, the named exceptions aside |
| `walk_mode` | `WalkPromises` | WalkTypeInv, PanelsAndLockBelongToWalk, NoGhostInput, RemoteInItsPlace, EnterInHand, ExitLeaves | walk mode survives a browser that answers late or takes lock and focus away: panels, lock, keys and fingers stay consistent, the remote within reach, an exit happens |

Every property of a passing run is violated by a mutant of the module, listed in
`PROJECT.json`: a comment `Mutant:` in a module precedes the changed definition.

### Finding

*A hardware press is applied three times with one page open*
(`socket-state.js:166`): the page answers both interrupt events with a press of
its own.

### Observations

What the models showed on the way and no run keeps. C library and services:

- A notification can vanish early (`web_server.py:302`). A timer that has fired
  is not stopped by `cancel()`; it compares the text and clears without the
  lock, so it can clear what a press stored in between. The docstring
  (295-297) presents this as cured.
- Of two rules of a minute with the same preset and two targets the second
  never fires (`scheduler.py:155`): the key of a fired rule lacks the target.
  "Fire every rule due" and "once per (minute, preset)" (137) disagree, and rules
  are documented to have a target each (`SERVICE_AND_AUTOMATION.md:56`).
- On POSIX a signal between the read and the store of `timer_pending` is
  forgotten (`src/handlers.c:513`), against "any timer expirations since the last
  call" (504). On both builds a dispatch without a handler returns -1 and has taken
  the expiration all the same (518): a handler registered later does not see it.
  `TickIsKept` names both.
- A send that hangs keeps the scheduler from ever looking at its flag, against "sets
  a flag and exits the main loop after the current sleep" (`test_simulator/PRODUCTION.md:63`) and
  "graceful exit" (`scheduler.py:5`). `StopsWhenAsked` allows for it.
- A reconnect that fails forgets the device (`src/connection.c:303`), although
  the code takes care to remember it (297); later reconnects have nowhere to go.

Volume of a page:

- Two pages on the same app fight over the volume for ever: each takes the
  other's transition for a change by somebody else and lowers the volume
  again, down to 44 and back to 47 on Netflix. `Settles` fails for two
  pages, one start volume 50 and one press, without any lag
  (`Pages = {p1, p2}`, `Pressed = {2}`, `Volumes = {50}`, `MaxPresses = 1`,
  `MaxLags = 0`, `MaxLosses = 0`). The flags that should prevent the loop
  (`globals.js:162`, `socket-state.js:316`) know only the page's own volume.
- 71 and 72 stay, in spite of "Never exceed max volume" (`animations.js:249`): the
  monitor tolerates a difference of 2. Hence the 2 in `LimitHolds`.
- Volume Up in an app with an adjustment is undone or turns into less volume.
- The server never emits `volume_stabilized`, for which the page listens (`:83`).

Picture and screens:

- The page compares the new input with the new state's, so the HDMI animation
  never starts (`socket-state.js:306`).
- The picture fades out twice at power-off: the easing of the phases after 20 %
  and 50 % starts again at .7, and glow light and bezel end lit (`main.js` 112-134).
- The boot sequence appears only while the brightness is just above the black
  limit (`screen.js:46`).
- The screens of most apps are unreachable: the server names Home, YouTube,
  Netflix, Amazon Prime and HBO Max only.
- A broadcast that only clears the notification repeats the last beam and light.
- The exceptions of `TvScreens` (`CutOff`, `OffScreen`) are texts and shapes
  partly or wholly off the canvas; the smoke of the volcano has been rising since
  1970.

Walk mode:

- `Esc` pauses a walk and does not exit it, against `FEATURES.md:77` and
  `TESTING.md:82`.
- After a view was changed in walk mode (1, 2, 3), stowing and drawing the remote
  puts it on the holder while `firstPerson` is false, and the holder no longer
  follows the camera (`main.js:475`).
- A remote that was set down does not stay there: R, 4, 4 puts it on the holder of
  the hand (`controls.js:475`), and one more 4 back on its stand, while it remains
  listed as lying about and is offered for picking up (`fp-interact.js` 348-380); in views other
  than first person `main.js` 496-499 lifts it to the height of the stand.
- The touch pause button opens the menu without giving up a pointer lock
  (`fp-hud.js` 363-376): the mouse's clicks then go to the canvas behind the menu.
  `NoGhostInput` excepts them.
- A request for the lock that is answered after the walk was left pulls the
  user back into a walk.
- On a device with touch and keys the keyboard's `C` changes crouching without
  the toggles, after which sprint and crouch can both be on (`fp-hud.js:580`).
- The canvas starts a drag without a button, from the place of the last click
  (`controls.js:105`).

## 5. Bounds

- **TvServer.** `tv_presses` has two threads, two presses and a volume update:
  every pair of read-store windows overlaps with each other, with the two
  timers' and with a third store. It takes one button of each kind of store
  (power, a clamped value, a channel, the overlays, a digit, scenes, one switched
  device, an unknown code); `TypeCorrect` covers all of them and any number of
  presses. `tv_digits` has three threads and five digits: an entry is completed
  while two more threads append. A pause does not fall between the check of an
  entry's age and the append. `StartsOn` starts a run behind the Power
  press that everything else needs. `NumberPadView` leaves out of the fingerprint
  what the number pad's steps do not read (notification, timers, last
  broadcast). Threads are interchangeable; symmetry is used only where no
  liveness property is checked.
- **PressEcho.** `echo_hardware` has two pages and one press: four echoes, each in a
  thread of its own, cross each other, one connection is lost in between, and
  the two `States` tell an old view from a new one. `echo_promise` has one page
  and two presses of two buttons, so that a press handled with the code of the
  other is seen, and one write by another thread. Threads of more presses, pages and
  writers are left to the proofs, which hold for any number of them. `echo_once` needs one page and one press.
- **Connection.** Two devices and two retries (a first, a middle and a last
  attempt); six transmissions leave room for a full send after a failed one.
- **Scheduler.** A minute has six ticks of ten seconds and the loop sleeps
  three, the largest interval the code admits; a send takes up to two ticks, so
  passes can stay within a minute, cross its border or skip a minute. One of
  two known targets is `Untimed`. The clock runs for three minutes and starts anywhere in the first.
- **PageVolume.** One page, an audible volume, one just over the limit and one
  further over it, two presses out of volume, mute and two apps with different adjustments,
  one frame drawn while messages are under way and one lost connection: an
  echo can be late for its own transition, for a second one and for a reconnect.
  Two timeouts of a kind suffice for two transitions. Why it is one page is the
  first observation on the volume.
- **TvPicture.** Two presses out of power, volume, channel and an app, two
  losses or offline presses, frames 0, 1 or 12 quarters of a second apart: the
  last is a hidden tab, which misses every animation as a whole. The longest animation
  has 12.
- **TvScreens.** All screens of `screen.js`, in every order; no constants.
- **WalkMode.** No bounds: its states are finitely many. Two requests for the
  lock can be under way, one from entering and one from resuming.
- **TimerDispatch.** Four expirations, more than the flag and the places of
  the program can hold at once.

`CHECK_DEADLOCK FALSE` stands only where a behaviour ends because a bound on
presses or on the clock is reached, or because the scheduler has stopped.

## 6. Fairness

- TvServer: a thread that is in a handler goes on and a started timer fires
  (operating-system threads that block on nothing but the short lock). Nobody
  has to press a button, and no pause has to happen.
- PressEcho: events that were sent are handled, a handler ends (its thread waits
  for nothing and loops over nothing), and a page that lost its connection
  connects again, which the Socket.IO client does on its own.
- Scheduler: its steps are taken, and none of them is a wait without end: a send
  either ends or is `Hang`, which the targets in `Untimed` may take and which
  is the end of the behaviour. For the others an adapter with a timeout (the
  simulator's is 5 seconds) or an answer brings the send to its end. No signal has
  to come, and nothing has to hang.
- PageVolume: as PressEcho, and the browser draws frames and runs timeouts.
- TvPicture: frames go on, a quarter of a second apart at some time.
- WalkMode: the browser completes a release of the pointer lock it has begun.
  Nobody has to do anything else.
- Connection, TimerDispatch and TvScreens have none: all their properties are
  safety.

## 7. Proofs

The proofs hold for every value of the constants under the assumptions the
modules name (`ServerAssumption`, `EchoAssumption`, `LinkAssumption`,
`SchedulerAssumption`, `TimerAssumption`, `PageVolumeAssumption`,
`PictureAssumption`): types of the bounds, finitely many pages, no number-pad code in PressEcho and
TvPicture, `NoDevice` not a device, and a check interval of at most
half a minute.

| Module | Theorems | Argument |
|---|---|---|
| `TvStateProofs` | lemmas | each button branch takes well-formed `seen` and `now` to a well-formed state: ranges survive although the two differ |
| `TvServerProofs` | TypeCorrect, EntryConsumed, TimerIsSingle, ShownCurrent, OverlaysExclude, TunesFromOneEntry, NotificationIsDue | type invariant first, each other invariant on top of it; `EntryIsConsumed` and `OneOverlay` are inductive over the types |
| `PressEchoProofs` | TypeCorrect, PromiseIsKept, EchoesAreBounded, NoEchoIsLost, OnlyEchoesRepeat, PagesStayInStep | refinement of `PressPromise`, step by step, from the codes of what is under way and the bound on echoes; the echoes from a balance of what is handled, announced and answered; the pages from the types alone |
| `ConnectionProofs` | TypeCorrect, StatusIsRight, StatsCorrect, PressGoesToItsDevice, PressGetsLink | one lemma per link operator on "well formed, and status fits device"; one inductive invariant for all |
| `SchedulerProofs` | TypeCorrect, PresetOncePerMinute, NoMinuteSkipped, StopApproaches | what is remembered is what was started in the present minute; a rank of five numbers that every step after the signal lowers |
| `PageVolumeProofs` | TypeCorrect, FlagsComeDown, PagesShowServer, LimitPursued | one lemma per function on a page's record, one inductive invariant for all of them |
| `SceneProofs`, on `TvPicture` | TypeCorrect, CanvasCurrent, DarkAfterFade, RestIsState, OneOfEach, FramesBringRest | types, `CanvasIsCurrent` and `OneBeamOneButton` together are inductive; the others follow from them, the last with a distance from rest (`Pending`) for each animation, the beam, the lit button and the LED |
| `SceneProofs`, on `WalkPromises` | WalkTypeCorrect, PanelsBelongToWalk, NobodyWalksAlone, RemoteHasAPlace, EntersInHand, ExitStaysAsked | one lemma per handler on the page's record (`WalkRight`), one inductive invariant for all |
| `SceneProofs`, on `ScreenPromises` | LooksTheSame | the context after any prefix of a frame, from the rules of `save` and `restore` alone |
| `TimerDispatchProofs` | TypeCorrect, MarkedTicksAreKept, PosixStops, NoRunWithoutTick | the latest expiration alone for the first, a count of what is pending, under way and run for the last |

Why strengthening is needed:

- `ShownIsCurrent` speaks of quiescence only. Inductive is `ShownOrDue`:
  whenever state and last broadcast differ, some thread or timer (`BroadcastIsDue`)
  still has to broadcast. A thread that schedules its timer has already
  broadcast, so it does not count.
- `SingleTimer` needs `TimerOwned`: the timer of a press is off until the press
  schedules it, and no two threads handle one press.
- `NoStaleDigits` needs `EntryOfOneTime`: the digits of the entry came at
  `entryTime`, and a thread about to append has an entry of its own time.
- `PromiseIsKept` needs `CodesKept`: every thread, interrupt and answer under way
  carries the code of its press, and exactly the presses not yet made have none,
  so that a new press cannot be mistaken for one under way. That an arriving
  press may still be handled follows from the bound on echoes after the step
  (`Within`, from `EchoInv`); a press no page was told of may be handled once. A
  store of a thread, and everything the other writers do, is a stutter of the promise.
- `EchoesEnd` and `EveryEchoIsApplied` need `EchoInv`. Of each press `Balance`
  adds up how often it was handled, the echoes still announced to pages and the
  answers still on their way back: at most one and one for each interrupt a page
  was told of, and exactly that many while no connection was lost. The sums are cardinalities of
  sets of pairs (page, kind of interrupt), so `UnderWayOnce` has to say that no
  pair is under way twice, neither in an `inbox`, nor in an `outbox`, nor in
  both, and that a press not yet made has left no trace. `Tellers`
  keeps a page from being told twice: a press is announced by at most one thread,
  of whose interrupts to come nobody was told before. `ToldFirst` says that what
  is under way of a press was told. `OneToOne` relates the pairs
  to the events; each action then moves pairs from one set to the next (a page
  answers), drops them (a connection is lost) or takes one out and applies it.
- `OnlyEchoesRepeat` uses the same balance with nobody told. Its hypothesis,
  `Hardware \subseteq {FALSE}`, is what `echo_once` has
  not: the finding is due to the interrupt events and to nothing else.
- `PagesInStep` with the types is inductive as it stands: a store adds a thread
  or a writer that has yet to broadcast, a broadcast appends the state to the
  `inbox` of every connected page, and what a page reads is either not the last
  update, or the state of the server. `PagesConverge` adds
  that the events are handled, which takes fairness.
- `StatusFitsDevice` needs `UpOnlyInitialized`: `connection_init` resets the
  status without the device, which is right only because nothing is connected
  before it.
- `PresetOncePerMinute` needs that a preset started in the minute of the pass,
  or in a later pass of it, is in `last_triggered`; `NoMinuteSkipped` needs that
  the next wake-up comes in the same or the next minute unless a pass was slow.
- `FlagsComeDown` needs `FlagsFit`: `_isProcessingStabilization` implies
  `isStabilizing`, which implies a scheduled frame. A transition that has nothing
  to do lowers both.
- `PagesShowServer` speaks of quiescence for all pages. Inductive is `InStep` of
  each page alone: the last broadcast under way to it has the server's state, and
  if nothing is under way to or from it, it shows that state. It holds although
  pages store volumes of their own, because each stored volume is sent, and it
  covers the several pages that the run leaves out.
- `CanvasIsCurrent` rests on three lemmas: `DrawForgets` (what a frame leaves in
  the context cannot be seen in the next), `StillFrame` (a frame that main.js does
  not draw changes no animation) and the types, which keep every clock within
  its duration. `DarkWhenOff` and `AtRest` are then facts about `Draw` alone: an
  offline press, the one state whose picture is late, has its power clock at 0.
- `NoGhostInput` and `PanelsAndLockBelongToWalk` need `WalkInv`: an exit that
  was asked for holds the lock and is releasing it, a key moves the player only
  while it is held with the focus on the page and in a walk, Shift only while it
  is held with the focus, and behind the menu no finger is captured. The part about
  the page alone, `WalkRight`, is kept by every handler on its own, so that one composed of
  others (`BeginWalk` is `InteractEnter(HudEnter(...))`) keeps it by their
  lemmas; what relates the page to browser and hands is shown per action.
- `LooksTheSame` needs `ContextRight`: the alignment in force, and the whole stack of
  saved ones, are what the prefix of the frame drawn so far calls for at each
  depth. No frame's content is looked at, so the theorem holds for any draw
  functions, in any order; `ctx.reset` at the head of a frame is what makes
  the prefix start from nothing.
- `RemoteHasAPlace` needs what `WalkRight` says of the remote: on the floor it is
  listed and not held, and held in first person it is on the holder.
- `MarkedTicksAreKept` needs that only the step between POSIX's read and store can
  have read nothing while a mark comes, which `latest` names `raced`.
- `NoRunWithoutTick` needs to weigh runs, `taken`, `pending` and callbacks
  against the expirations.

Liveness itself is beyond the prover, but most of what can go wrong with it is
safety, and that half is proved:

- `NotificationIsDue`, for `NotificationClears`: whenever a notification is
  stored, a press has yet to schedule its clearing, a timer holds exactly this
  text, or a timer is storing None. No cancelled timer, no text that comes back
  and no interleaving leaves one that nobody will take away.
- `StopApproaches`, for `StopsWhenAsked`: after the signal each step of the
  scheduler lowers `Remaining` (part of the loop, rules left, whether one of them is
  being looked at, buttons left, attempts left) in the lexicographic order, a hanging send
  included, and the flag stays set.
- `LimitPursued`, for `LimitHolds`: when nothing is under way and the server is
  above the limit, the next frame of any connected page either starts toward a
  volume within the limits or has sent one. It needs that a transition under way
  always has a target within the limits, which is part of `FlagsFit`.
- `FramesBringRest`, for `Settles` of `TvPicture`: a frame that takes time brings
  every animation, the beam, the lit button and the LED nearer to rest, none of
  them is more than 12 away from it, and exactly the page at rest is 0 away.
  Buttons may start things again, but their number is bounded in the run.
- `ExitStaysAsked`, for `ExitLeaves`: an exit that waits for the pointer lock
  keeps the release under way and is not forgotten before the walk is over.

What remains for TLC is that the fair steps these theorems wait for are taken.

Model-checked only: the liveness properties (`NotificationClears`,
`PagesConverge`, `StopsWhenAsked`, `LimitHolds`, `Settles`, `ExitLeaves`) as such;
and `Legible` and `Seen`, which say of the fixed draw sequences of `ScreenLayout`
where each text and shape lies: the run covers all of them, and a proof would
only calculate the same numbers again. `WalkMode` has no constants either and
its theorems say no more than its run; they are proved because the invariant
tells why the handlers work, which the number of states does not.

## 8. Not modelled

- The 3D scene (`scene.js`, `room-devices.js`, `shows.js`, `static-batch.js`) and the
  debug display `ir-visualization.js`: geometry and materials of Three.js, built
  once, without a protocol. Collision, positions and camera of the player:
  floating point. Sounds.
- Of the screens: colours, gradients and the inside of shapes, the vertical anchor
  of texts, and what moves only while something is animated. Widths of texts
  are estimated at half their height per character.
- Of the page: brand and video events, toasts, info panel, settings of the
  player, doors and gadgets (each a flag and an animation of its own).
- Assembly: cycle timing. GPU detection: runs vendor tools. Brand detection and
  IR classification: stateless numeric code.
- In modelled components: an exception in the middle of a handler; the wall
  clock set back (scheduler, number pad); the order in which the transport
  delivers two broadcasts that two threads make at the same time; what handlers
  of the C library do to the connection while it sends; latency and quality
  figures of the connection.
- The components marked as planned in section 2.
