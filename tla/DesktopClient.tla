---------------------------- MODULE DesktopClient ----------------------------
(***************************************************************************)
(* The desktop client's session worker: one thread that takes the user's   *)
(* commands and the reports of the threads of every session, past ones     *)
(* included, from one queue.  Around it: what the window shows, the        *)
(* threads of each session, and the part of the daemon that decides        *)
(* whether a connection is accepted.  Events that the worker posts to the  *)
(* window take effect at once.                                             *)
(***************************************************************************)
EXTENDS Naturals, Sequences

CONSTANTS MaxSessions, \* bound: session ids handed out
          MaxQueue,    \* bound: commands waiting in the channel
          Modes,       \* camera modes the user can pick
          Scopes       \* bounds that go together: how many sessions and clicks
                       \* of the user, and the kinds of threads that can run

Ids      == 1..MaxSessions
None     == 0
Reserved == MaxSessions + 1  \* the daemon waits for a PIN
Default  == 0                \* 1280 x 720 at 30, when no mode was picked
Off      == 999

\* The threads of a session; the decoder's while it looks for black pictures.
Runtime == {"control", "udp", "decoder", "caps"}

ASSUME DesktopAssumption ==
    /\ MaxSessions \in Nat \ {0} /\ MaxQueue \in Nat \ {0}
    /\ Modes \subseteq Nat \ {Default, Off}
    /\ Scopes \subseteq [sessions : 1..MaxSessions, clicks : Nat,
                        toggles : BOOLEAN, threads : SUBSET Runtime]

VARIABLES
    scope,             \* which of the scopes this behaviour has
    queue, held,       \* the mpsc channel; `latest` in coalesce_mouse
    active, pending,   \* the active session (None), pending_pairing
    next, retried,     \* next_session_id, blank_stream_retry_attempted
    resolved,          \* per session: how its capabilities were settled
    asked,             \* the request whose answer the worker waits to read
    sel, cam, mic,     \* selected_camera_mode; the running captures
    ui,                \* what the window shows
    stop, threads,     \* per session: its stop flag and the threads that run
    keyed,             \* the client stores a pairing key for the daemon
    serving, links,    \* the daemon's session; sessions whose TCP is up
    dmn,               \* the peripherals the daemon was told to run
    ended,             \* sessions that had a cause to end
    capsDue,           \* sessions whose CAPS was not read yet
    clicks             \* of the user, so far

channel == <<queue, held>>
worker  == <<active, pending, next, retried, resolved>>
media   == <<sel, cam, mic>>
runtime == <<stop, threads>>
daemon  == <<serving, links, dmn>>
vars == <<scope, channel, worker, asked, media, ui, runtime, keyed, daemon, ended, capsDue, clicks>>

Silent == [mic |-> FALSE, cam |-> Off]


Init ==
    /\ scope \in Scopes
    /\ queue = <<>> /\ held = <<>>
    /\ active = None /\ pending = FALSE /\ next = 1 /\ retried = FALSE
    /\ resolved = [s \in Ids |-> "open"] /\ asked = "no"
    /\ sel = Default /\ cam = Off /\ mic = FALSE
    /\ ui = [connecting |-> FALSE, connected |-> FALSE, control |-> None,
             prompt |-> "none", mic |-> FALSE, cam |-> FALSE, picked |-> FALSE]
    /\ stop = [s \in Ids |-> FALSE] /\ threads = [s \in Ids |-> {}]
    /\ keyed \in BOOLEAN
    /\ serving = None /\ links = {} /\ dmn = Silent
    /\ ended = {} /\ capsDue = {} /\ clicks = 0

-----------------------------------------------------------------------------
(* The queue.  Commands are <<operation, argument, ...>>. *)

Send(c) ==
    /\ Len(queue) < MaxQueue
    /\ queue' = Append(queue, c) /\ UNCHANGED held

-----------------------------------------------------------------------------
(* The window. *)

Clicks ==
    /\ clicks < scope.clicks /\ clicks' = clicks + 1
    /\ UNCHANGED <<scope, worker, asked, media, runtime, keyed, daemon, ended, capsDue>>

\* connect_to_host: from the page that is shown while not connected.
UserConnects ==
    /\ ~ui.connected /\ ui.prompt = "none"
    /\ ui' = [ui EXCEPT !.connecting = TRUE]
    /\ Send(<<"connect">>) /\ Clicks

UserEntersPin ==
    /\ ui.prompt # "none"
    /\ ui' = [ui EXCEPT !.connecting = TRUE]
    /\ \E pin \in {"right", "wrong", "malformed"} : Send(<<"pin", pin>>)
    /\ Clicks

\* The button of a session, and of the PIN prompt.
UserDisconnects ==
    /\ ui.connected \/ ui.prompt # "none"
    /\ Send(<<"disconnect">>) /\ UNCHANGED ui /\ Clicks

UserTogglesMic ==
    /\ ui.connected /\ scope.toggles
    /\ ui' = [ui EXCEPT !.mic = ~@]
    /\ Send(<<"mic", ui'.mic>>) /\ Clicks

\* The camera's menu sends the mode and then the toggle, one after the other.
UserPicksMode ==
    /\ ui.connected /\ scope.toggles /\ ~ui.cam /\ ~ui.picked
    /\ ui' = [ui EXCEPT !.picked = TRUE]
    /\ \E m \in Modes : Send(<<"mode", m>>)
    /\ Clicks

UserTogglesCamera ==
    /\ ui.picked \/ (ui.connected /\ ui.cam)
    /\ ui' = [ui EXCEPT !.cam = ~@, !.picked = FALSE]
    /\ Send(<<"camera", ui'.cam>>)
    /\ UNCHANGED <<scope, worker, asked, media, runtime, keyed, daemon, ended, capsDue, clicks>>

\* delete_connection, which also forgets the pairing key.
UserForgets ==
    /\ ~ui.connected /\ keyed
    /\ clicks < scope.clicks /\ clicks' = clicks + 1 /\ keyed' = FALSE
    /\ UNCHANGED <<scope, channel, worker, asked, media, ui, runtime, daemon, ended, capsDue>>

-----------------------------------------------------------------------------
(* The worker's handlers, each a whole call.                               *)

\* Mutated WindowOff: the window goes on connecting.
WindowOffStill ==
    [ui EXCEPT !.connected = FALSE, !.control = None, !.prompt = "none"]

WindowOff ==
    [ui EXCEPT !.connecting = FALSE, !.connected = FALSE, !.control = None,
               !.prompt = "none"]

Hush == cam' = Off /\ mic' = FALSE

\* activate_session.  A clone of the socket, the cipher or the UDP socket may
\* fail; the client then drops the connection.  An active session is replaced
\* without a word to its threads.
Activate(window) ==
    /\ next <= scope.sessions /\ next' = next + 1
    /\ \/ /\ active' = next
          /\ threads' = [threads EXCEPT ![next] = scope.threads]
          /\ Hush
          /\ ui' = [window EXCEPT !.connecting = FALSE, !.connected = TRUE,
                                  !.control = next, !.prompt = "none"]
          /\ serving' = next /\ links' = links \cup {next}
          /\ dmn' = Silent
          /\ capsDue' = capsDue \cup {next}
          /\ ended' = ended \cup ({active} \ {None})
       \/ /\ ui' = [window EXCEPT !.connecting = FALSE]
          /\ serving' = None
          /\ UNCHANGED <<active, threads, cam, mic, links, dmn, capsDue, ended>>
    /\ UNCHANGED <<sel, stop, resolved>>

\* handle_connect, up to the request of establish_session; or the daemon cannot
\* be reached.
Connect ==
    /\ \/ /\ asked' = IF keyed THEN "hello" ELSE "pair"
          /\ ui' = [WindowOff EXCEPT !.connecting = TRUE]
       \/ /\ ui' = WindowOff
          /\ UNCHANGED asked
    /\ UNCHANGED <<active, pending, next, resolved, media, runtime, keyed, daemon,
                   ended, capsDue>>

\* handle_submit_pin, up to the request; it sets "connecting", as the click did.
SubmitPin(pin) ==
    /\ \/ /\ ~pending \/ pin = "malformed"
          /\ UNCHANGED <<pending, asked, ui>>
       \/ /\ pending /\ pin # "malformed"
          /\ pending' = FALSE /\ asked' = pin
          /\ ui' = [ui EXCEPT !.connecting = TRUE]
    /\ UNCHANGED <<active, next, retried, resolved, media, runtime, keyed, daemon,
                   ended, capsDue>>

Answered ==
    /\ asked' = "no"
    /\ UNCHANGED <<scope, channel, retried, clicks>>

\* read_handshake_response returns to handle_connect, which it need never do: a
\* session, a PIN request or an error, which it is whenever the daemon is busy.
ConnectAnswered ==
    /\ Answered
    /\ \/ /\ asked = "hello" /\ serving = None
          /\ Activate(ui) /\ UNCHANGED <<pending, keyed>>
       \/ /\ asked = "pair" /\ serving = None
          /\ pending' = TRUE /\ serving' = Reserved
          /\ ui' = [ui EXCEPT !.connecting = FALSE, !.prompt = "ask"]
          /\ UNCHANGED <<active, next, resolved, media, runtime, keyed, links, dmn,
                         ended, capsDue>>
       \/ /\ asked \in {"hello", "pair"}
          /\ ui' = [ui EXCEPT !.connecting = FALSE]
          /\ UNCHANGED <<active, pending, next, resolved, media, runtime, keyed,
                         daemon, ended, capsDue>>

\* It returns to complete_pairing.  After an OK the key is stored, then the
\* daemon's proof is checked: an error may come before or after.
PinAnswered ==
    /\ Answered
    /\ \/ /\ asked = "right" /\ serving = Reserved
          /\ keyed' = TRUE
          /\ Activate(ui) /\ UNCHANGED pending
       \/ /\ asked \in {"right", "wrong"}
          /\ keyed' \in {keyed, TRUE}
          /\ serving' = IF serving = Reserved THEN None ELSE serving
          /\ ui' = [ui EXCEPT !.connecting = FALSE, !.prompt = "again"]
          /\ UNCHANGED <<active, pending, next, resolved, media, runtime, links, dmn,
                         ended, capsDue>>

\* The daemon reads DISCONNECT, or the end of the stream, of session s.
DaemonLeaves(s) ==
    /\ serving' = IF serving \in {s, Reserved} THEN None ELSE serving
    /\ links' = links \ {s}
    /\ dmn' = IF serving = s THEN Silent ELSE dmn

\* handle_disconnect, and fail_connection, which ends in the same state.
Disconnect ==
    /\ pending' = FALSE
    /\ ui' = WindowOff
    /\ active' = None /\ Hush
    /\ DaemonLeaves(active)
    /\ ended' = ended \cup ({active} \ {None})
    /\ stop' = [s \in Ids |-> stop[s] \/ s = active]
    /\ UNCHANGED <<next, retried, sel, threads, keyed, capsDue>>

\* handle_caps_received
CapsReceived(s, fits) ==
    \/ /\ active # s \/ resolved[s] # "open"
       /\ UNCHANGED <<worker, media, ui, runtime, keyed, daemon, ended, capsDue>>
    \/ /\ active = s /\ resolved[s] = "open" /\ fits
       /\ resolved' = [resolved EXCEPT ![s] = "sent"]
       /\ UNCHANGED <<active, pending, next, retried, media, ui, runtime, keyed,
                      daemon, ended, capsDue>>
    \/ /\ active = s /\ resolved[s] = "open" /\ ~fits
       /\ resolved' = [resolved EXCEPT ![s] = "refused"]
       /\ Disconnect

\* Mutated CapsTimeout: without the test of caps_resolved.
CapsTimeoutAlways(s) ==
    /\ resolved' = IF active = s THEN [resolved EXCEPT ![s] = "legacy"] ELSE resolved
    /\ UNCHANGED <<active, pending, next, retried, media, ui, runtime, keyed,
                   daemon, ended, capsDue>>

\* handle_caps_timeout
CapsTimeout(s) ==
    /\ resolved' = IF active = s /\ resolved[s] = "open"
                   THEN [resolved EXCEPT ![s] = "legacy"] ELSE resolved
    /\ UNCHANGED <<active, pending, next, retried, media, ui, runtime, keyed,
                   daemon, ended, capsDue>>

\* handle_retry_blank_stream.  The session is not ended before the new one.
RetryBlankStream(s) ==
    \/ /\ active # s \/ retried
       /\ UNCHANGED <<worker, asked, media, ui, runtime, keyed, daemon, ended, capsDue>>
    \/ /\ active = s /\ ~retried
       /\ retried' = TRUE
       /\ Connect

\* Mutated SessionClosed: without the test of the session's id.
SessionClosedAny(s) ==
    /\ active' = None /\ pending' = FALSE /\ Hush
    /\ ui' = WindowOff
    /\ serving' = IF pending /\ serving = Reserved THEN None ELSE serving
    /\ UNCHANGED <<next, retried, resolved, sel, links, dmn, runtime, keyed, ended,
                   capsDue>>

\* SessionClosed: the stop flag of the session stays as it is.
SessionClosed(s) ==
    /\ \/ /\ active = s
          /\ active' = None /\ pending' = FALSE /\ Hush
          /\ ui' = WindowOff
          /\ serving' = IF pending /\ serving = Reserved THEN None ELSE serving
          /\ UNCHANGED <<next, retried, resolved, sel, links, dmn>>
       \/ /\ active # s
          /\ UNCHANGED <<worker, media, ui, daemon>>
    /\ UNCHANGED <<runtime, keyed, ended, capsDue>>

\* A control message changes what the daemon runs, if it reaches it.
Tell(field, value) ==
    IF serving = active /\ active \in links
    THEN dmn' = [dmn EXCEPT ![field] = value] ELSE UNCHANGED dmn

\* Mutated SetMic: a capture that cannot start is not taken back.
SetMicOnce(on) ==
    /\ IF active # None /\ ~(on /\ mic)
       THEN mic' \in {on, FALSE} /\ Tell("mic", on)
       ELSE UNCHANGED <<mic, dmn>>
    /\ UNCHANGED <<worker, sel, cam, ui, runtime, keyed, serving, links,
                   ended, capsDue>>

\* handle_set_mic: a capture that cannot start is taken back.
SetMic(on) ==
    /\ IF active # None /\ ~(on /\ mic)
       THEN mic' \in {on, FALSE} /\ Tell("mic", mic')
       ELSE UNCHANGED <<mic, dmn>>
    /\ UNCHANGED <<worker, sel, cam, ui, runtime, keyed, serving, links,
                   ended, capsDue>>

\* handle_set_camera
SetCamera(on) ==
    /\ IF active # None /\ (on => cam = Off)
       THEN /\ cam' \in IF on THEN {Off, sel} ELSE {Off}
            /\ Tell("cam", cam')
            /\ ui' = IF on /\ cam' = Off THEN [ui EXCEPT !.cam = FALSE] ELSE ui
       ELSE UNCHANGED <<cam, ui, dmn>>
    /\ UNCHANGED <<worker, sel, mic, runtime, keyed, serving, links,
                   ended, capsDue>>

\* handle_set_camera_mode: the daemon is told at once while the camera runs.
SetCameraMode(m) ==
    /\ sel' = m
    /\ IF active # None /\ cam # Off THEN Tell("cam", m) ELSE UNCHANGED dmn
    /\ UNCHANGED <<worker, cam, mic, ui, runtime, keyed, serving, links,
                   ended, capsDue>>

Dispatch(c) ==
    /\ UNCHANGED <<scope, clicks>>
    /\ \/ c[1] = "connect" /\ retried' = FALSE /\ Connect
       \/ c[1] = "retry" /\ RetryBlankStream(c[2])
       \/ c[1] = "pin" /\ SubmitPin(c[2])
       \/ /\ UNCHANGED asked
          /\ \/ c[1] = "disconnect" /\ UNCHANGED resolved /\ Disconnect
             \/ c[1] = "mic" /\ SetMic(c[2])
             \/ c[1] = "camera" /\ SetCamera(c[2])
             \/ c[1] = "mode" /\ SetCameraMode(c[2])
             \/ c[1] = "caps" /\ CapsReceived(c[2], c[3])
             \/ c[1] = "capsTimeout" /\ CapsTimeout(c[2])
             \/ c[1] = "closed" /\ SessionClosed(c[2])

-----------------------------------------------------------------------------
(* run and coalesce_mouse: the command that was received first is held     *)
(* until the queue is empty, the ones behind it are dispatched before it.  *)
(* Nothing is received while the answer to a request is awaited.           *)

Receive ==
    /\ asked = "no" /\ held = <<>> /\ queue # <<>>
    /\ held' = Head(queue) /\ queue' = Tail(queue)
    /\ UNCHANGED <<scope, worker, asked, media, ui, runtime, keyed, daemon, ended, capsDue, clicks>>

Drain ==
    /\ asked = "no" /\ held # <<>> /\ queue # <<>>
    /\ queue' = Tail(queue) /\ UNCHANGED held
    /\ Dispatch(Head(queue))

DispatchHeld ==
    /\ asked = "no" /\ held # <<>> /\ queue = <<>>
    /\ held' = <<>> /\ UNCHANGED queue
    /\ Dispatch(held)

-----------------------------------------------------------------------------
(* The threads of session s. *)

Ends(s, t) ==
    /\ t \in threads[s]
    /\ threads' = [threads EXCEPT ![s] = @ \ {t}]

Beside == UNCHANGED <<scope, worker, asked, media, ui, stop, keyed, daemon, clicks>>

\* spawn_control_receiver: the flag is seen between two reads.
ControlStops(s) ==
    /\ stop[s] /\ Ends(s, "control")
    /\ Beside /\ UNCHANGED <<channel, ended, capsDue>>

ControlLost(s) ==
    /\ s \notin links /\ Ends(s, "control")
    /\ Send(<<"closed", s>>)
    /\ Beside /\ UNCHANGED <<ended, capsDue>>

ControlReadsCaps(s) ==
    /\ "control" \in threads[s] /\ s \in capsDue /\ s \in links
    /\ \E fits \in BOOLEAN : Send(<<"caps", s, fits>>)
    /\ capsDue' = capsDue \ {s}
    /\ Beside /\ UNCHANGED <<threads, ended>>

\* Mutated UdpStops: the flag is seen only after the next datagram.
UdpStopsLate(s) ==
    /\ stop[s] /\ s \in links /\ Ends(s, "udp")
    /\ Beside /\ UNCHANGED <<channel, ended, capsDue>>

\* The receiver of the media: stopped, or without datagrams for 5 s.
UdpStops(s) ==
    /\ stop[s] /\ Ends(s, "udp")
    /\ Beside /\ UNCHANGED <<channel, ended, capsDue>>

UdpTimesOut(s) ==
    /\ Ends(s, "udp")
    /\ ended' = ended \cup {s}
    /\ Send(<<"closed", s>>)
    /\ Beside /\ UNCHANGED capsDue

\* The decoder ends with the flag or with its sender, the UDP thread.
DecoderStops(s) ==
    /\ stop[s] \/ "udp" \notin threads[s]
    /\ Ends(s, "decoder")
    /\ Beside /\ UNCHANGED <<channel, ended, capsDue>>

\* 30 black pictures at the start: asked for once by each decoder.
DecoderSeesBlack(s) ==
    /\ Ends(s, "decoder")
    /\ Send(<<"retry", s>>)
    /\ Beside /\ UNCHANGED <<ended, capsDue>>

CapsTimer(s) ==
    /\ Ends(s, "caps")
    /\ IF stop[s] THEN UNCHANGED channel ELSE Send(<<"capsTimeout", s>>)
    /\ Beside /\ UNCHANGED <<ended, capsDue>>

-----------------------------------------------------------------------------
(* The daemon. *)

DaemonDrops ==
    /\ serving \in Ids
    /\ DaemonLeaves(serving) /\ ended' = ended \cup {serving}
    /\ UNCHANGED <<scope, channel, worker, asked, media, ui, runtime, keyed, capsDue, clicks>>

\* The 30 s read timeout of the handshake.
PinTimesOut ==
    /\ serving = Reserved /\ serving' = None
    /\ UNCHANGED <<scope, channel, worker, asked, media, ui, runtime, keyed, links,
                   dmn, ended, capsDue, clicks>>

Threads(s) ==
    \/ ControlStops(s) \/ ControlLost(s)
    \/ UdpStops(s) \/ DecoderStops(s) \/ CapsTimer(s)

Next ==
    \/ UserConnects \/ UserEntersPin \/ UserDisconnects
    \/ UserTogglesMic \/ UserPicksMode \/ UserTogglesCamera \/ UserForgets
    \/ Receive \/ Drain \/ DispatchHeld \/ ConnectAnswered \/ PinAnswered
    \/ \E s \in Ids : Threads(s) \/ ControlReadsCaps(s) \/ UdpTimesOut(s)
                      \/ DecoderSeesBlack(s)
    \/ DaemonDrops \/ PinTimesOut

\* The worker and the threads run; the user, the network and the daemon may do
\* nothing: a handshake need not be answered, and its read has no timeout.
Spec ==
    /\ Init /\ [][Next]_vars
    /\ WF_vars(Receive) /\ WF_vars(Drain) /\ WF_vars(DispatchHeld)
    /\ \A s \in Ids :
         /\ WF_vars(ControlStops(s)) /\ WF_vars(ControlLost(s))
         /\ WF_vars(UdpStops(s)) /\ WF_vars(DecoderStops(s)) /\ WF_vars(CapsTimer(s))

-----------------------------------------------------------------------------
(* Properties. *)

\* The types of the worker's fields, the window, the threads and the daemon.
TypeOK ==
    /\ scope \in Scopes
    /\ Len(queue) <= MaxQueue /\ Len(held) \in 0..3
    /\ active \in Ids \cup {None} /\ pending \in BOOLEAN
    /\ next \in 1..MaxSessions + 1 /\ retried \in BOOLEAN
    /\ resolved \in [Ids -> {"open", "sent", "refused", "legacy"}]
    /\ sel \in Modes \cup {Default} /\ cam \in Modes \cup {Default, Off}
    /\ mic \in BOOLEAN /\ asked \in {"no", "hello", "pair", "right", "wrong"}
    /\ ui \in [connecting : BOOLEAN, connected : BOOLEAN,
               control : Ids \cup {None}, prompt : {"none", "ask", "again"},
               mic : BOOLEAN, cam : BOOLEAN, picked : BOOLEAN]
    /\ stop \in [Ids -> BOOLEAN]
    /\ threads \in [Ids -> SUBSET Runtime]
    /\ keyed \in BOOLEAN
    /\ serving \in Ids \cup {None, Reserved}
    /\ links \subseteq Ids /\ ended \subseteq Ids /\ capsDue \subseteq Ids
    /\ dmn \in [mic : BOOLEAN, cam : Modes \cup {Default, Off}]
    /\ clicks \in 0..scope.clicks

\* The sessions of the worker as those of SessionLife.
Life == INSTANCE SessionLife WITH
    current <- active, used <- next - 1, doomed <- ended,
    shown <- IF ui.connected THEN ui.control ELSE None

\* A report that a thread of an earlier session left in the queue never ends a
\* later one (the session_id tests of dispatch), and the window shows the active
\* session or none.
ImplementsSessionLife == Life!LifeSpec

\* The capabilities of a session are settled once, by the CAPS message or by
\* its timeout, however the two race (caps_resolved).
CapsResolvedOnce ==
    [][\A s \in Ids : resolved[s] # "open" => resolved'[s] = resolved[s]]_vars

\* Between two commands, the daemon runs the camera and the microphone of the
\* session exactly while the client captures them, failed starts, replaced
\* sessions and commands of the wrong order included.
DevicesAgree ==
    active # None /\ serving = active /\ active \in links =>
        dmn.mic = mic /\ (dmn.cam = Off <=> cam = Off)

\* The threads of a session that the worker ended itself all return.
StoppedSessionsReturn ==
    \A s \in Ids : stop[s] ~> threads[s] = {}

\* What a click started is settled, unless the daemon leaves a handshake open
\* for ever (read_handshake_response has no timeout): the window does not stay at
\* "connecting", unless it is the PIN dialog that shows it.
ConnectSettles ==
    []<>(asked = "no") => (ui.connecting ~> (~ui.connecting \/ ui.prompt # "none"))
=============================================================================
