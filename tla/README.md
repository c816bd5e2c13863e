# A TLA+ model of Screx

Screx turns an iPad or another computer into a second display. A daemon (`daemon/`, Rust)
creates a virtual display, captures, encodes and streams it; clients (`client/desktop`, Rust and
QML; `client/ipad`, Swift) show it and send input, microphone, camera and gamepad data back. This
directory holds TLA+ models of the daemon and of the desktop client, the TLC configurations that
check them on small instances, and theorems that TLAPS proves for all instances.

    tlc -workers 2 -config GateSafety.cfg MCSessionGate     # a run; all are listed below
    tlapm SessionGateProofs.tla                             # a proof

## Inventory

| Component | State it keeps | Operations | What is hard | Correct when | Modules |
|---|---|---|---|---|---|
| Session gate: `pairing.rs`, `stream_server.rs` (`SharedState`, client manager, drop), `usb.rs` | busy / pending flags, session id, key, expected host, client address, `has_active_client`, `usb_active` | reserve, publish, install, register, drop; USB activate, deactivate; timeouts | five kinds of threads, one atomic or mutex at a time, no common lock | one client at a time; the active flag follows a client, and a client that goes lets go of the gate | SessionGate |
| Capture thread and disconnect callback: `main.rs` | `capture_start`, `capture_stop_flag`, `pending_settings`, bitrate base, cipher, display | wait, configure, attach, stream, detach; callback | the callback runs on its own thread for 200 ms and more; failures of encoder, display, threads | every client is served; no display or settings are left over | CaptureLoop |
| Screen capture: `evdi.rs`, macOS and Windows `display.rs` | monitor, refresh flag and retries, duplication, topology failures | attach, loop, refresh, recover, detach | still screens; topology that changes under the loop | a refresh gets its frame; the monitor goes with the session | Displays, Streaming |
| Encoding: `encode.rs` | codec contexts, configuration, age of the last IDR | open, encode, retune, rebuild | a dozen C calls that may each fail; fallback; IDR limits | nothing leaks; pictures are repaired | Encoding, Ladder, Streaming |
| Adaptive bitrate: `stream_server.rs` | base and current rate, FEC level, recent PLIs | PLI, tuning, rebase, reset | u32 saturation, rounding, windows | bounded by the base; recovers | AdaptiveBitrate |
| Capability negotiation: `stream_server.rs`, `capabilities.rs`, `main.rs` | operator's bounds, proposal, session settings | CAPS, check, STNG, clamp, merge | two implementations that must agree; field widths; inverted bounds | session within bounds; a checked choice is honoured | Negotiation |
| Peripherals and audio thread: `stream_server.rs`, `main.rs`, `audio.rs` | virtual sink, camera, microphone, gamepads, switches | SPKR, CAMCFG, MICCFG, GPAD; callback; loopback | check-then-create without a lock; sleeps; handlers that outlive their session | nothing is left behind; what is switched on works | Peripherals |
| Input: `input.rs`, `uinput.rs`, two `platform/*/input.rs`, `client/desktop/src/input.rs` | contacts, gestures, timers, keys down, keyboard queue | touch, keepalive, long press, key, text, combination | a timer thread per gesture; cached slots; one key by three routes | host and client agree on fingers; gestures are balanced | Touch, Keys |
| Pairing, persisted keys: `pairing.rs`, `backend.rs` | PIN, paired devices (memory, file), clients' keys | HELLO, PAIR, REJECT, save, load, `screx unpair` | crashes in a save, a second process, time limits | sessions share a key; a confirmed pairing survives | Pairing |
| Media transport: `stream_server.rs`, `audio.rs`, `camera.rs`, `backend.rs` | frame ids, assemblies, PLI timers, camera chunks | shard, protect, assemble, skip, ask | loss, duplication, reordering | whole frames in order; a loss is noticed | Media |
| Desktop client's session worker: `backend.rs`, `app_state.rs` | one session, queue, threads, window | connect, PIN, CAPS, retry, disconnect, devices | late reports of earlier sessions; a queue that is reordered | reports meet their own session; devices agree | DesktopClient, SessionLife |
| Desktop client's decoding: `decoder.rs`, `video_surface.rs` | decoder, scaler and buffer caches, frame slot, GPU objects | open, decode, publish, paint | FFI, fallback, caches by size | nothing leaks; a frame is scaled by its own size | Decoding, Ladder |
| USB framing: `usb.rs`, `platform/*/usbmux.rs` | TCP stream | READY, framed messages | partial writes | frames stay aligned | - |
| iPad client: `client/ipad/Screx` | transports, reconnection, media | pair, stream, switch between USB and network | switches under load | as the desktop client | its pairing habits in Pairing, its touches in Touch |
| Status bar, logging, QML, sound and camera drivers | - | - | I/O | - | - |

The pairing thread hands a session to the client manager through a one-place mailbox and spawns a
control thread for it. The manager sets `capture_start`, which wakes the capture thread, when the
client's first authenticated datagram comes. Any of them may call `drop_network_client`, which
clears the slots and, if the client was registered, spawns the disconnect callback: that removes
the peripherals and then stops the capture session. The USB thread does the same for its one
client. In a session, the capture thread asks the display for frames, the encoder for access units
and the sender for shards; the client's UDP thread assembles them for its decoder thread, which
publishes pictures for the GUI, and a PLI goes back over TCP. `PROJECT.json` lists every component
and the hazards by line, each with the properties about it.

## The modules

### SessionGate

One step is one atomic access or one critical section. The pairing thread is `Pt*`, the manager
`Cm*` (one loop iteration is take, receive, pending timeout, keepalive), control thread *s* is
`Ctl*(s)`, the USB thread `Usb*`; `Drop*(t)` is `drop_network_client` as thread *t* runs it,
statement by statement. `UsbSendFails` and `UsbSendErrorStore` are the capture and audio threads'
write error, between whose two halves no lock is held. Session *s* stands for its id, its key and
its socket; hosts are values of `IPs`. A teardown checks
whether the other transport has a client and swaps `has_active_client` in another step, with no
lock between the two: `DropUsb` and `DropActive` for the network, `UsbCheck` and `UsbRelease` for
USB, whose guard of `client_addr` is a temporary of the check. `late` is a history variable: the
registered client was registered while some teardown stood between the two.
Two reads are merged: `is_current_network_session` loads the busy flag and then the id, and as ids
only grow the pair is true exactly if it was true at the first load. A handshake is one step that
succeeds or fails (Pairing has its messages). Heartbeats, `udp_source` and the daemon's shutdown
change nothing of this state and are left out.

### CaptureLoop, Displays, Encoding, Streaming

In CaptureLoop the capture thread's program counter `pc` follows the loop of `main.rs`; `cbPc` the
callback's last three statements; `settings`, `cfg` and `base` name the session a configuration came
from, with `None` for the daemon's defaults, and `cipher` the session whose key frames are sealed
with. Clients come one after the other, by network or USB, and register and leave step by step as in
SessionGate, since a registration may cross a drop of the same client: `NetTake` to `NetActive` are
the manager's steps (`mgr`), `DropAddr` to `DropActive` those of `drop_network_client` (`drop`),
`UsbStart` to `UsbRelease` those of the USB thread (`usb`). All clients use one host, and a failing
USB write is left out, both SessionGate's matter; clearing the key, the expected host and the busy
flag is one step (`DropKeys`), because nothing else reads two of them at once. `sent` is the client
that was last sent a frame it can read, `lost` says that the last capture session ended by a
failure, and `MaxFaults` bounds the failures. An STNG that is read before a timeout's drop and
handled after it is left out. The display is detached, in `CapLoopEnds` and `CapLoopFails`, in the
step that leaves the loop.

Displays has one action per call of the three backends and one (`LoopStep`) per iteration of each
backend's loop, with or without a frame handed on: EVDI's refresh retries, ScreenCaptureKit's
cached frame, the Windows driver's repeated frame and its recovery (recreate the duplication, put
the monitor back, restart the driver after `HardResetAfter` failures). Encoding opens the first
backend of a `chain` that can be built. A constructor is a row of steps (Ladder): what each takes,
what its error path frees; `Outcomes` are the ends it may come to, so `leaked` is what a refused
encoder leaves behind. `broken` is the client's view: it misses a reference of the picture.
Streaming is their composition, as `main.rs` composes them: a frame handed on is encoded in the
same step, a PLI asks the encoder for an IDR and the display for a frame to put it in.

### AdaptiveBitrate, Negotiation

`AdaptiveStreamState` with time in whole adjustment intervals: a PLI is its age, and the ages past
the long window are one value. The two FEC percentages always move together and are `level`.
Negotiation has the operators' flags, a user's (or a faulty client's) choices, the client's
`validate_settings` and `build_stng`, the daemon's `clamp_requested_settings` and the merge in
`main.rs`, as operators on records with -1 for an omitted tag; the widths of CAPS's and STNG's
fields are kept. The client may check and propose, refuse, propose without checking, or be silent.

### Peripherals, Touch, Keys

Peripherals: the handlers of SPKR, CAMCFG, MICCFG and GPAD, each cut where it releases its locks,
as run by a session's control thread; the callback's statements that remove what they made; and
the audio thread with its watchdog. What clients do is chosen in `Init`: `manners` is a set of
"alone" (no second client), "eager" (reconnects while the callback runs), "early" (uses its
control channel before it is registered) and "silent" (stops its datagrams, so that the manager
drops it, while it uses its control channel). A sink, camera and microphone may fail to be made,
which the code ignores.

Touch: the fingers of an iPad, packets in order over the control channel, and the three backends:
Linux's slot protocol with the kernel's slot and the daemon's cached one, Windows' injected
contacts with the keepalive that repeats them, and the `TouchState` machine of macOS, whose
`arm_long_press` threads are the set `armed` of generations that still sleep. Keys: the desktop
client's key filter with its three routes (raw press and release, text, combination), the bounded
queue of `KeyboardWorker`, whose overflow is dropped, and the host's tables. `told` is a history
variable.

### Pairing

Handshakes step by step between clients and the accept thread, which handles one at a time; keys
are numbers. The paired devices are in the daemon's memory (`mem`) and in the file; a save
truncates the file (`torn`) before it writes, as `fs::write` does, and the daemon may crash
between any two steps. `screx unpair` (`tool`) loads, changes and writes a copy of its own.
`Retrying` clients answer a REJECT with a PAIR on the same socket, as the iPad does, and store keys
under the daemon's id, so that a new one replaces the old whatever the address (`Names`); others
start again, as the desktop client does, and store keys by endpoint. The two ends of a session part
one after the other: the daemon drops it (`SessionEnds`) and may serve the next handshake, its
control loop returns and closes the socket (`LoopReturns`), or it dies, and the client is up until
it reads the end (`ReadsEnd`), after whatever was sent before; `cut` is how far the daemon's end
has come. A save (`SaveBegins` to `SaveEnds` or `SaveFails`) comes before the OK, which is sent
even if it failed. `told`, `stale` and `banned` are histories: the last OK sent to a client, a
save that failed or a file the tool wrote over, and the devices unpaired.

### Media, Decoding

The networks keep every packet ever sent, so that a packet may come late, twice, out of order or
never. A unit is cut into data shards of `Sizes`, parity is added by the code's formula, and the
client's assemblies, their pruning, the gaps it notices, its two PLI timers and the channel to the
decoder thread are as in `backend.rs`; so are audio frames and the daemon's `CamReassembler`.
Chunks of sound and pictures keep the id of the frame they are of.
Decoding is the decoder thread (which decoder opens for a codec; the scaler's and the buffers'
cached sizes) and the video surface of three platforms (its textures and views, some of which may
be made while others fail; the macOS one is compiled without reference counting, so what it
makes at set-up and drops is lost), joined by the slot, `HAS_NEW_FRAME` and `update()`.

### DesktopClient, SessionLife

DesktopClient is the worker of `backend.rs`: its queue (with `coalesce_mouse`, by which the command
received first is dispatched last), each handler as one step, except that connecting and pairing
are two, the request and the answer (`asked`), between which everything else goes on and which
may never come, as the read has no time limit; the threads of *every* session, past
ones included, the window's state and as much of the daemon as decides whether a connection is
accepted and what devices run. SessionLife is what it promises: ids are used once and in order,
at most one session is current, it ends only for a cause of its own, the window shows no other.
`ImplementsSessionLife` is the refinement, with `active`, `next - 1`, `ended` and the window's
session for the variables of SessionLife.

### Composition

SessionGate, CaptureLoop, Peripherals, Pairing and DesktopClient each describe the part of the
others that they need by what it may do, for example Peripherals lets any admitted client come and
go as the gate could make it; CaptureLoop repeats the gate's registration and its drops, with the
checks that decide them. Where components share state they are composed: Encoding and
Displays in Streaming. The MC modules also put modules that share *no* variable into one run
(MCCapture, MCPolicies, MCPeripherals, MCPipeline): `part`, chosen initially, says which of them
moves, so their state spaces add up and do not multiply.

## The runs

| Run | Instance | Distinct states | Properties |
|---|---|---|---|
| gate_safety | two network sessions on two hosts (symmetric), one USB activation | 2.6 million | `TypeOK` `ActiveIsBacked` `ClientKeepsFlag` |
| gate_orphan | two network sessions, or one and a USB activation, one host, fairness | 136 thousand | `OrphanFlagClears` `GateIsFreed` |
| capture_safety | two clients, one fault; streams of three platforms, each step of an encoder and a display failing | 225 thousand | `StartIsBacked` `BaseIsSessions` `SessionsLeaveNothing` `StopEndsSession` `WoundUpIsServed` `PictureRepaired` `RefreshIsAnswered` |
| policies | bases 1, 3, 20 and 60 Mbps, up to four PLIs remembered; 9 sets of flags, 192 choices, two codecs | 711 thousand | `BitrateBounded` `SessionBounded` `CheckedIsHonoured` `RecoversToBase` |
| periph_safety | two clients of three sorts of manners; two fingers on three platforms; six keys, a queue of two | 147 thousand | `EndpointsTypeOK` `RemovedOnDisconnect` `ContactsAgree` `GesturesBalance` `KeysAreTold` `LoopbackStops` `PoliteIsForwarded` |
| desktop_safety | two sessions, a queue of two, five choices of threads and clicks | 303 thousand | `DevicesAgree` `StoppedSessionsReturn` `ConnectSettles` `ImplementsSessionLife` `CapsResolvedOnce` |
| pair_safety | two clients on one address, two keys, two faults | 311 thousand | `PairTypeOK` `SessionKeysAgree` `OkIsDurable` `UnpairedStaysOut` `HandshakeEnds` |
| pipeline | three units of one or two shards, one fault; three audio and three camera frames; decoders of three platforms | 449 thousand | `PipelineTypeOK` `FramesInOrder` `WholeAndPrompt` `BrokenIsNoticed` `OnlySetUpIsLost` `ScalesOwnFrame` `FrameIsShown` |

What they show:

* **The gate.** The network teardown skips its swap of `has_active_client` when USB is active and
  the USB teardown skips its own when a client address is set; `ActiveIsBacked` says that they
  never both skip it, in any order of their steps, and `OrphanFlagClears` that the flag is in fact
  cleared. Conversely a registered client keeps the flag (`ClientKeepsFlag`), unless it registered
  between some teardown's check and its swap; that this does happen is a finding below.
  `GateIsFreed`: a session whose client pairs and never registers lets the gate go, although the
  registration of the session before it may clear its pending mark and with it one of its timeouts
  (the keepalive remains); only datagrams that never cease hold the timeouts off.
* **The capture thread.** While no client is registered, a start request is on its way to be
  cleared, by a teardown that has still to swap the flag or a callback; a session is encoded at the
  rate it negotiated; `WoundUpIsServed` says exactly when a client can rely on being served: if it
  registers once the callbacks and the capture session of those before it are over, whatever came
  before. Encoders that refuse to open leave nothing behind (but for lack of memory) and the monitor
  goes with its session. A client that lost a frame sees an intact picture while frames come, by the
  periodic IDR if none of its PLIs counts; a refresh gets its frame, also on a still screen and with
  a wedged Windows driver.
* **Policies.** A cut is at most 20% as long as the product fits in u32, and the rate climbs back
  to the base by steps of 10% without stalling on integer division. Inverted bounds, truncated
  fields and unchecked proposals never take a session outside the operator's flags, or the floor.
* **Endpoints.** However callbacks and eager clients interleave, no device is left behind. The
  host's contacts are the backend's, through lost slots, repeated packets and a keepalive; every
  button that a gesture presses is released, and no timer of an earlier gesture clicks in a later
  one; the host's keys are as the latest raw packet that was queued said.
* **Desktop client.** Late reports of one session never end another; clicks are settled, if the
  daemon answers what it is asked; the control, UDP and decoder threads of a session that the
  worker ended return; the daemon runs the devices that the client captures.
* **Pairing.** Two sides of a session that is open at both ends use one key, whatever either has
  replaced or forgotten; a pairing whose OK was sent survives crashes, unless its save failed; an
  unpaired device stays out; the accept thread always gets free again.
* **Pipeline.** The client's decoder gets frames with all their parts, in order and none twice, as
  soon as they allow it; sound and camera pictures are never put together from two frames. If the
  picture is broken by the network, the client has noticed a gap. Decoders that refuse leave
  nothing behind and the video surface only what the code is known to lose at set-up; a picture is
  scaled by its own size, and the last picture is shown in the end.

### Bounds

Two sessions are enough for every hazard listed at the gate: each needs one stale thread of an old
session and the new session it may hit; a third adds only a second stale thread of the same kind,
and the safety properties are proved for any number. `MaxSessions` also bounds the handshakes
accepted, `MaxPlugs` the USB activations. gate_orphan and capture_safety cut the environment
further, to finish with fairness (`Smaller` in MCSessionGate and MCCapture, an action constraint):
the first takes all sessions without USB or one session with it; in the second the first client
leaves by hanging up or by the end of its USB stream and the second, a network client, by a timeout,
and no fault meets a client that came by USB. For streams, a `Gop` of 2 and IDR intervals of 1 and 2
ticks give frames on each side of every limit; two topology faults reach the driver's restart
(`HardResetAfter` is 2 there, 12 in the code), and refresh retries are 2 for 100. Two PLIs make a
severe cut within the short window and four within the long one, so four (`MaxPli`) reach every
branch. Rates are in units of 100 kbps, u32's maximum scaled alike, as TLC's integers are 32 bits
wide; they lie below the floor of the rate, and below, at and above the point where `current * 80`
saturates. Flags and choices lie below, at and above each floor, ceiling and field width. Two
fingers suffice for each gesture of macOS; the slots 0 and 9 are the ends of the table. The keys are
of each class of the client's filter and of the hosts' tables. Two pairing keys and two faults give
a crash between the save of the first and of the second; both clients use one endpoint, because keys
of two never meet. Three frames are the fewest with a gap that an older frame fills later. Sessions
of DesktopClient run with subsets of their threads (`Scopes`): two sessions for the reports that may
come late, and all threads of one session together.

Deadlock is not checked where clients, packets or clicks are bounded and the system therefore
stops: in all runs but those of SessionGate.

### Fairness

The daemon's and the client's own threads get weak fairness: each is an endless loop, and the
operating system runs it. That is the manager, the control, drop and USB steps (gate); the callback,
the capture thread and the watchdog, and in a stream one iteration of the display's loop with the
encoding of its frame; the handlers, the callback and the audio thread (peripherals); the worker and
the threads of a session (desktop); the accept thread's answers and its 30 s limits and saves
(pairing); the decoder thread and the poll and repaint of the window (decoding). The manager's two
timers get strong fairness: a timer whose condition is true again and again has been running since
it was last reset, and the manager looks at it in every iteration. For the bitrate, time passes and
`current_tuning` is called for every captured frame, which is what the strong fairness of `Adjust`
says. The desktop client's reads of a handshake's answer are not fair, and `ConnectSettles` assumes
in so many words that every request is answered. Clients, users, networks, devices and failures get
none, so what depends on them is in the property: `PictureRepaired` is about streams whose frames go
on being encoded, `RefreshIsAnswered` excepts refreshes that never cease (each of them restarts
EVDI's wait) and a monitor that Windows has dropped for good.

### Where the code and its documentation differ

Four runs expect a violation; `PROJECT.json` "findings" quotes the lines.

| Run | What TLC finds |
|---|---|
| gate_silent | A client that hangs up on TCP while the manager registers it leaves its address and the active flag set, with the busy flag clear: every later drop returns early, the keepalive check drops nobody, and new clients get `SCREX_BUSY`. |
| capture_stng | Settings of a client that leaves before it registers reach the next session. |
| keys_stuck | A key that goes down as part of a combination and comes up as a text (Ctrl released first) is pressed on the host and never released. |
| still_screen | A PLI soon after an IDR on a still screen is used up by a P-frame; nothing asks again, and the picture stays broken. |

Findings without a run of their own, each visible when the named property or action is changed:

* A client that registers while the last one's callback or capture session ends has its start
  request erased and is never served (`main.rs:356`, `main.rs:749`): drop the condition of
  `WoundUpIsServed`.
* A stop request between the capture thread's wake-up and its reset of the stop flag is erased;
  the display stays attached for nobody (`main.rs:459`): `StopEndsSession` allows for it.
* `deactivate_usb_transport` checks `client_addr` and then swaps `has_active_client` without the
  lock; a client that registers in between loses the flag and its start request (`usb.rs:317`), as
  it does between the check of `usb_active` and the swap of an older session's drop
  (`stream_server.rs:1089`): drop `late` from `ClientKeepsFlag`.
* With a base under 2 Mbps (STNG allows 0.5), losses raise the rate above it
  (`stream_server.rs:191`); `NeverAboveLargeBase` proves that this is the only such case.
* The last client's callback removes the sink that the new client found "already loaded"; its
  speaker stays silent (`stream_server.rs:943`): `PoliteIsForwarded` is about clients that wait.
* While a finger drags on macOS, a second finger in a lower slot takes the pointer
  (`platform/macos/input.rs:192`, action `MacDrags`).

### What else the models show

Behaviour that no document promises otherwise, kept in the models as it is:

* *Gate and peripherals.* `SCREX_BUSY` is decided when a connection is accepted; a USB client may
  become active during the handshake, which then completes (`pairing.rs:232`). A control message
  handled after, or before, the time its client is registered creates a device that no callback
  removes (`pairing.rs:668`, `stream_server.rs:1090`). On Linux `remove_virtual_sink` asks a new
  backend, which has loaded no module, to unload it (`audio.rs:116`), so the null sink stays.
* *Negotiation.* CAPS carries no floor for resolution and frame rate, so a choice that passes the
  client's check may be raised by the daemon (`stream_server.rs:652`).
* *Media.* A send that fails leaves the frame id to be used again for the next unit
  (`stream_server.rs:1643`). Shards of both units then share an id. Neither
  such a unit, nor one that is dropped because no decoder opens, is a gap, so the picture is broken
  unnoticed. A PLI that the limit of one a second holds back (`backend.rs:1884`) is not sent later.
  The loss of the whole first frame goes unnoticed. An audio frame of
  one chunk that is duplicated plays twice. A late duplicate of a camera frame delivers it again,
  after newer ones.
* *Encoding.* A rebuild that fails leaves the new size in the configuration (`encode.rs:431`). An
  encoder with a fixed quantizer ignores a new bitrate. An error of the encoder loses units without
  a gap in the frame ids, so no client notices. Late allocation failures leak what was made before.
* *Decoding.* A hardware decoder that fails while running is not replaced by software. The cached
  buffer width is that of the last frame that was converted (`decoder.rs:752`, `decoder.rs:1000`).
  The Windows surface keeps the textures of an earlier device (`video_surface.rs:884`). Of two
  shaders one of which does not compile the other is never deleted (`video_surface.rs:603`), at
  each frame anew. The Objective-C++ parts are built without `-fobjc-arc` (`build.rs:48`): the
  Metal library and function, and the output texture at each change of size, are never released.
* *Displays.* A Windows attach or watchdog that fails leaves the driver enabled. The restart of the
  driver comes only when the duplication can be created again and again. Each refresh restarts
  EVDI's retries.
* *Input.* The iPad's ten touch slots go round without a look at who holds one
  (`DisplayView.swift:419`): a finger that rests while ten others touch shares its slot. The model's
  fingers have slots of their own. Touches and keys held at a disconnect stay held. `BTN_TOUCH` is
  never 0 on Linux. After a two-finger scroll the remaining finger's move starts a new gesture. A
  full keyboard queue drops releases as well as presses. Shifted text releases a modifier that is
  held, on Linux and Windows.
* *Pairing.* `screx unpair` while the daemon runs is undone by the daemon's next save. A crash
  inside `fs::write` loses every device. `SCREX_OK` is sent even if the device could not be saved
  (`pairing.rs:105`). Pairing from a second endpoint makes the key stored for
  the first one stale.
* *Desktop client.* A daemon that accepts and stays silent keeps the worker connecting for ever
  (`backend.rs:1237`). A pairing key is stored before the daemon's proof is checked
  (`backend.rs:1163`). The TCP keepalive thread (`backend.rs:1413`) is left out. A report of the
  session's end does not set its stop flag, so a keepalive of a lost session may hold the daemon
  busy. The blank-stream retry connects before it ends the old session, and is refused as busy. A
  malformed PIN leaves the window connecting, under its dialog. The microphone's and camera's
  switches are not reset with the session.

## The proofs

For every value of the constants, under the modules' named assumptions (`GateAssumption`,
`CaptureAssumption`, ...), which only say what kind of values the constants are:

* `SessionGateProofs`: `TypeCorrect`, `ActiveBacked`, `FlagIsClients`. `ActiveIsBacked` is not
  inductive: that a thread in `drop_network_client` is going to clear the flag depends on where it
  is, that no thread enters it twice, that the manager activates a client only with an address set,
  and that `usb_active` implies the USB thread is between its activation and its release. Nor is
  `ClientKeepsFlag`: what it needs is that no teardown stands past its check while a client is
  registered that did not come late (`FlagKept`), which holds because the USB teardown's check ends
  it where it finds a client, and a network drop has cleared the address by its check. `GateInv`
  conjoins these (`Positions`, `DropNotNested`) with the types; `GateInvariant` proves it, one step
  per action.
* `CaptureProofs`: `TypeCorrect`, `StartBacked`, `BaseOfSession`, about CaptureLoop with every
  interleaving of registrations, drops and USB. The strengthening (`Flags`) says that while there is
  a start request, `has_active_client` is set or about to be, or a callback is due; and that while
  the flag is set a client is registered or a teardown has still to take it.
  And `SessionsClean`, about Streaming, for any chain of encoders, any number of faults and any
  limits: each constructor's row of steps is shown to free at each step that may be refused what it
  holds by then, so an outcome that leaves something is one for lack of memory, and the encoder of
  a session in its loop is one that was built; the display's stages say when a monitor may be
  plugged in.
* `PolicyProofs`, about both policies of a stream. `RateBounded`, and `NeverAboveLargeBase`: if
  every base is at least the floor, the rate never exceeds the base. `RatesInvariant` also bounds
  the rate by u32, which the rounding up in `div_ceil` needs. `SessionsBounded` and
  `CheckedHonoured`: the invariant carries the bounds from the clamp over the
  stages to the session.
* `EndpointProofs`, about Peripherals: `NothingIsLeft`, for any number of clients of any
  manners. That nothing is left once all is quiet is not inductive: the strengthening (`Removing`)
  says that a device which is on while nobody is registered is due to be removed, by a callback
  that waits or by the one that runs, if it has not passed that device's statement. About Touch:
  `GesturesBalanced`, for any number of fingers, slots and gestures; the invariant relates the
  state of the machine to the buttons it has posted and says that no sleeping timer belongs to a
  generation that has not begun, so that a generation once left is never met again.
  `ContactsTracked`: fingers have slots of their own (`FingersApart`), the slot that Linux named
  last is the one it remembers, and Windows knows what the daemon holds, so that every frame fits
  (`FrameFits`); what a packet leaves is shown contact by contact, by induction (`RunShows`).
  About Keys: `KeysTold`, for any keys and any length of the queue; the host's keys alone are not
  inductive, what counts is the last packet about a key that is *still queued*, and for keys
  without one the host itself. `PeripheralsTyped` and, about their composition, `EndpointsTyped`,
  for which gestures are counted: a generation passes at most twice in each (`GesturesCounts`).
* `PipelineProofs`: `FramesOrdered`, `BrokenNoticed`, `WholeDelivered`, for frames of any size and
  number under every loss, repetition and order of packets. The pivot of the first two is the frame
  handed over last (`last_completed_frame_id`): nothing was handed over or shown after it, every
  packet that is not stale is of a frame after it, and from each queued frame to it all are noticed
  or queued (`Covered`). For `BrokenNoticed`, as long as no send failed units and frame ids go
  together, and behind an intact picture everything is noticed or queued (`SureInv`). The third
  needs that an assembly counts exactly the shards it holds, that these lie within its shape and
  that they are of its frame (`WholeInv`). `OnlyLostRemains` and `FramesScaled`, for
  any decoders, sizes and faults: `DecInv` says that a decoder holds what it was built with, that
  its cached buffer size is that of the buffer unless memory ran out, that a picture on the GPU is
  of the decoder tried first, and what each platform's surface holds. `PipelineTyped` adds that ids
  in flight, in assemblies and noticed are among those sent (`Known`).
* `LadderProofs`: induction, and what rows of steps hold, for rows of any length; the lemmas that
  the proofs about streams, endpoints and the pipeline share.
* `DesktopProofs`: `WorkerImplementsLife`, the refinement; `DevicesInStep`, `CapsSettledOnce`,
  `DesktopTyped`. The invariant of the refinement (`LifeInv`) says that ids are used in order, that
  no thread of an id not yet used exists, that a control thread whose link is gone belongs to a
  session that had a cause to end, and that every report of an end in the queue, or held back by
  `coalesce_mouse`, is about such a session (`Grounded`): that is why a late report is harmless.
  Each step of the worker is then a step of SessionLife or a stutter. `DevInv` adds the types and
  `DevicesAgree`, which needs them but no other strengthening.
* `PairingProofs`: `KeysOfSessionAgree`, `ConfirmedIsDurable`, `UnpairedIsRefused`, `PairingTyped`.
  The invariant `PairInv`: the daemon is in a handshake or a session, never both (`OneAtATime`); an
  OK that waits to be read, and a client that is up, are those of the open session, unless the
  daemon has dropped it (`Backed`); whom the daemon is about to confirm has a key and waits, unless
  it has left (`AnswerWaits`); whom it sent an OK is in memory and, unless a write is under way or
  the file is `stale`, in the file, and so is whom it is about to send one (`Kept`); no copy of the
  devices, the tool's included, holds one that is banned (`Out`).

Recursion needs a word. What a constructor holds at a step (`Held`) is a recursive function, and
what a packet leaves on the glass is a fold. TLAPS cannot instantiate the library's induction
theorems, whose predicate is a parameter; `LadderProofs` therefore proves induction on sets of
numbers (`SetInduction`) from the theorem that `<` is well-founded, and with it that these
functions exist (`HeldExists`, `FoldExists`) and what each step of them does.

What is assumed of constants is what the code makes true: the fallback chains of
`encode.rs` and `decoder.rs` are not empty and name encoders; a decoder whose frames stay on the
GPU is the first that is tried (`DecodingAssumption`); a slot without a finger has no position
(`TouchAssumption`).

Every safety invariant and action property that the runs check is proved, and besides, in
`DesktopTyped`, DesktopClient's `TypeOK`, which no run needs to check. Only model-checked is
liveness, which needs fairness and so is out of the prover's reach: `OrphanFlagClears`,
`GateIsFreed`, `StopEndsSession`, `WoundUpIsServed`, `PictureRepaired`, `RefreshIsAnswered`,
`RecoversToBase`, `LoopbackStops`, `PoliteIsForwarded`, `StoppedSessionsReturn`, `ConnectSettles`,
`HandshakeEnds`, `FrameIsShown`. So are the four violations, which are single traces.

## Not modelled

* USB framing (`usb.rs`, usbmux): one writer under a mutex and one reader. A partial write ends the
  transport; what follows from that is in SessionGate (`UsbSendFails`) and CaptureLoop.
* The iPad's session and media: its reconnection and its switch between USB and network are in
  Swift's asynchronous tasks and callbacks of the system; its reassembly mirrors the desktop
  client's. Its habits towards the daemon are in Pairing (a PAIR after a REJECT, keys stored by
  the daemon's id) and in Touch (slots and packets).
* Mouse and gamepad events, which keep no state but buttons; scroll distances; PERIPH packets.
* Bitstream conversion, cursor composition, EDID, registry and driver installation, JPEG, audio
  resampling, playback and microphone capture: data or I/O without control of their own.
* Cryptography (ideal: a key opens what it has sealed), the wrap-around of frame ids (32 bits, two
  years of 60 frames a second), the mouse positions that `coalesce_mouse` joins.
* The user interfaces, the macOS status bar and the logging.
* `keyboard_grab.rs`, which nothing calls.

## Plan

What would add most, in this order: the USB transport's framing with writes cut in the middle,
composed with SessionGate; the iPad's session with its two transports, as a second implementation
of SessionLife; an abstract lossy channel that Media implements, and its refinement proof; the
messages of Pairing in place of the handshake's one step in SessionGate.
