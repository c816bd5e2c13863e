----------------------------- MODULE Peripherals -----------------------------
(***************************************************************************)
(* The virtual speaker sink, camera, microphone and gamepad that a client  *)
(* switches on and off over its control channel, the disconnect callback   *)
(* that removes them, and the audio thread that captures the sink.  Each   *)
(* network session has a control thread, which runs its handlers one after *)
(* the other, but which may outlive its session, as the callback, on a     *)
(* thread of its own, may run on when the next client is there.            *)
(***************************************************************************)
EXTENDS Naturals

CONSTANTS MaxSessions, \* bound: clients that connect
          Configs,     \* camera configurations
          Manners      \* what clients may do: sets of "alone", "eager", "early",
                       \* "silent", see below

ASSUME PeripheralsAssumption ==
    /\ MaxSessions \in Nat /\ Configs \subseteq Nat \ {0}
    /\ Manners \subseteq SUBSET {"alone", "eager", "early", "silent"}

Ids  == 1..MaxSessions
None == 0

VARIABLES
    manners,        \* what the clients of this run may do
    sid, phase,     \* the latest client and how far it got
    ctl,            \* where each session's control thread is
    want, changed,  \* locals of enable_camera: config, config_changed
    cbs, cb, cbPc,  \* disconnect callbacks to run; the one that runs
    cam, camConfig, \* cam_writer's configuration, camera_config (None: the default)
    mic, pad,       \* mic_writer; a virtual gamepad
    enabled, id,    \* audio_output_enabled, audio_module_id (0 or 1)
    audio, halt,    \* the audio thread; loopback_stop
    speaker,        \* the client whose latest SPKR was on and succeeded
    stray           \* ghost: a handler ran, since the last callback began, for a
                    \* client that was not registered

clients  == <<manners, sid, phase>>
threads  == <<ctl, want, changed>>
callback == <<cbs, cb, cbPc>>
camera   == <<cam, camConfig>>
sink     == <<enabled, id, speaker>>
capture  == <<audio, halt>>
vars == <<clients, threads, callback, camera, mic, pad, sink, capture, stray>>

Init ==
    /\ manners \in Manners
    /\ sid = 0 /\ phase = "none"
    /\ ctl = [s \in Ids |-> "gone"]
    /\ want = [s \in Ids |-> None] /\ changed = [s \in Ids |-> FALSE]
    /\ cbs = {} /\ cb = None /\ cbPc = "camera"
    /\ cam = None /\ camConfig = None /\ mic = FALSE /\ pad = FALSE
    /\ enabled = FALSE /\ id = 0 /\ speaker = None
    /\ audio = "wait" /\ halt = FALSE /\ stray = FALSE

-----------------------------------------------------------------------------
(* Clients.  Alone: no other comes after the first.  Eager: they reconnect *)
(* while the callback of the last one runs.  Early: they use their control *)
(* channel before they have registered.  Silent: they stop sending         *)
(* datagrams while they use their control channel.                         *)

Devices == <<camera, mic, pad, sink, capture, stray>>
Current(s) == sid = s /\ phase # "none"

Pair ==
    /\ phase = "none" /\ sid < MaxSessions
    /\ "eager" \in manners \/ cbs = {}
    /\ "alone" \in manners => sid = 0
    /\ sid' = sid + 1 /\ phase' = "paired"
    /\ ctl' = [ctl EXCEPT ![sid + 1] = "check"]
    /\ UNCHANGED <<manners, want, changed, callback, Devices>>

Register ==
    /\ phase = "paired"
    /\ phase' = "active"
    /\ UNCHANGED <<manners, sid, threads, callback, Devices>>

\* drop_network_client: the callback is for registered clients.
Drop ==
    /\ phase' = "none"
    /\ cbs' = IF phase = "active" THEN cbs \cup {sid} ELSE cbs
    /\ UNCHANGED <<manners, sid, cb, cbPc, Devices>>

\* DISCONNECT or end of stream, read by the control thread.
HangUp(s) ==
    /\ ctl[s] = "read"
    /\ ctl' = [ctl EXCEPT ![s] = "gone"] /\ UNCHANGED <<want, changed>>
    /\ IF Current(s) THEN Drop ELSE UNCHANGED <<clients, callback, Devices>>

\* The manager's timeouts.
Timeout ==
    /\ \/ phase = "paired"
       \/ phase = "active" /\ "silent" \in manners
    /\ Drop
    /\ UNCHANGED threads

\* The check at the top of run_control_loop.
Check(s) ==
    /\ ctl[s] = "check"
    /\ ctl' = [ctl EXCEPT ![s] = IF Current(s) THEN "read" ELSE "gone"]
    /\ UNCHANGED <<clients, want, changed, callback, Devices>>

Sends(s) ==
    \/ Current(s) /\ (phase = "active" \/ "early" \in manners)
    \/ ~Current(s) /\ "silent" \in manners

-----------------------------------------------------------------------------
(* handle_control_message_data *)

Step(s, from, to) ==
    /\ ctl[s] = from /\ ctl' = [ctl EXCEPT ![s] = to]
    /\ stray' = (stray \/ ~(Current(s) /\ phase = "active"))
Read(s, to) == Sends(s) /\ Step(s, "read", to)
Rest == UNCHANGED <<clients, callback, capture>>
Locals == UNCHANGED <<want, changed>>
\* The locals die with their handler.
Forgets(s) == want' = [want EXCEPT ![s] = None] /\ changed' = [changed EXCEPT ![s] = FALSE]
\* After a handler the control thread checks again.
Done == "check"

\* SPKR on: ensure_virtual_sink, and then the flag, whether it worked or not.
SpeakerOn(s) ==
    /\ Read(s, IF id > 0 THEN "on_flag" ELSE "on_create")
    /\ Rest /\ Locals /\ UNCHANGED <<camera, mic, pad, sink>>

\* Mutated OnCreate: the module id is not kept.
OnCreateNoId(s) ==
    /\ Step(s, "on_create", "on_flag")
    /\ Rest /\ Locals /\ UNCHANGED <<camera, mic, pad, enabled, speaker, id>>

OnCreate(s) ==
    /\ \/ Step(s, "on_create", "on_flag") /\ id' = 1
       \/ Step(s, "on_create", "on_failed") /\ UNCHANGED id
    /\ Rest /\ Locals /\ UNCHANGED <<camera, mic, pad, enabled, speaker>>

OnFlag(s) ==
    /\ \/ Step(s, "on_flag", Done) /\ speaker' = s
       \/ Step(s, "on_failed", Done) /\ speaker' = None
    /\ enabled' = TRUE
    /\ Rest /\ Locals /\ UNCHANGED <<camera, mic, pad, id>>

\* disable_virtual_sink after its 200 ms sleep.
RemoveSink == id' = 0

\* SPKR off: the flag (stored twice), and after 200 ms the sink.
SpeakerOff(s) ==
    /\ Read(s, "off_sink")
    /\ enabled' = FALSE /\ speaker' = None
    /\ Rest /\ Locals /\ UNCHANGED <<camera, mic, pad, id>>

OffSink(s) ==
    /\ Step(s, "off_sink", Done)
    /\ RemoveSink
    /\ Rest /\ Locals /\ UNCHANGED <<camera, mic, pad, enabled, speaker>>

\* CAMCFG with a configuration: enable_camera.
CameraOn(s, c) ==
    /\ Read(s, "cam_check")
    /\ want' = [want EXCEPT ![s] = c]
    /\ changed' = [changed EXCEPT ![s] = (camConfig # c)]
    /\ camConfig' = c
    /\ Rest /\ UNCHANGED <<cam, mic, pad, sink>>

CamCheck(s) ==
    /\ cam' = IF changed[s] THEN None ELSE cam
    /\ \/ cam' = None /\ Step(s, "cam_check", "cam_create") /\ Locals
       \/ cam' # None /\ Step(s, "cam_check", Done) /\ Forgets(s)
    /\ Rest /\ UNCHANGED <<camConfig, mic, pad, sink>>

\* The writer is made outside the mutex, which may fail, and then installed.
CamCreate(s) ==
    /\ Step(s, "cam_create", Done)
    /\ cam' \in {want[s], cam}
    /\ Rest /\ Forgets(s) /\ UNCHANGED <<camConfig, mic, pad, sink>>

\* CAMCFG of zeroes: disable_camera.
CameraOff(s) ==
    /\ Read(s, Done)
    /\ cam' = None
    /\ Rest /\ Locals /\ UNCHANGED <<camConfig, mic, pad, sink>>

\* MICCFG: enable_virtual_mic, disable_virtual_mic.
MicOn(s) ==
    /\ Read(s, IF mic THEN Done ELSE "mic_create")
    /\ Rest /\ Locals /\ UNCHANGED <<camera, mic, pad, sink>>

MicCreate(s) ==
    /\ Step(s, "mic_create", Done)
    /\ mic' \in {TRUE, mic}
    /\ Rest /\ Locals /\ UNCHANGED <<camera, pad, sink>>

MicOff(s) ==
    /\ Read(s, Done)
    /\ mic' = FALSE
    /\ Rest /\ Locals /\ UNCHANGED <<camera, pad, sink>>

\* GPAD: attach, which may fail, and detach, under the backend's mutex.
Gamepad(s) ==
    /\ Read(s, Done)
    /\ pad' \in BOOLEAN
    /\ Rest /\ Locals /\ UNCHANGED <<camera, mic, sink>>

\* The rest of a handler that has begun.
Continue(s) == \/ OnCreate(s) \/ OnFlag(s) \/ OffSink(s) \/ CamCheck(s)
               \/ CamCreate(s) \/ MicCreate(s)

Command(s) == \/ SpeakerOn(s) \/ SpeakerOff(s) \/ (\E c \in Configs : CameraOn(s, c))
              \/ CameraOff(s) \/ MicOn(s) \/ MicOff(s) \/ Gamepad(s)

-----------------------------------------------------------------------------
(* The disconnect callback, up to what CaptureLoop goes on with *)

CbRest == UNCHANGED <<clients, threads, capture>>
CbGo(from, to) == cb # None /\ cbPc = from /\ cbPc' = to /\ CbRest /\ UNCHANGED stray

CbEnter(s) ==
    /\ cb = None /\ s \in cbs
    /\ cb' = s /\ stray' = FALSE
    /\ CbRest /\ UNCHANGED <<cbs, cbPc, camera, mic, pad, sink>>

CbCamera ==
    /\ CbGo("camera", "mic")
    /\ cam' = None
    /\ UNCHANGED <<cbs, cb, camConfig, mic, pad, sink>>

\* Mutated CbMic: remove_virtual_mic, which does nothing, without the reset.
CbMicKept ==
    /\ CbGo("mic", "pads")
    /\ UNCHANGED <<cbs, cb, camera, mic, pad, sink>>

CbMic ==
    /\ CbGo("mic", "pads")
    /\ mic' = FALSE
    /\ UNCHANGED <<cbs, cb, camera, pad, sink>>

CbPads ==
    /\ CbGo("pads", "flag")
    /\ pad' = FALSE
    /\ UNCHANGED <<cbs, cb, camera, mic, sink>>

CbFlag ==
    /\ CbGo("flag", "sink")
    /\ enabled' = FALSE
    /\ UNCHANGED <<cbs, cb, camera, mic, pad, id, speaker>>

\* Mutated CbSink: the callback is forgotten, but does not end.
CbSinkNoEnd ==
    /\ CbGo("sink", "camera")
    /\ RemoveSink
    /\ cbs' = cbs \ {cb} /\ UNCHANGED cb
    /\ UNCHANGED <<camera, mic, pad, enabled, speaker>>

CbSink ==
    /\ CbGo("sink", "camera")
    /\ RemoveSink
    /\ cbs' = cbs \ {cb} /\ cb' = None
    /\ UNCHANGED <<camera, mic, pad, enabled, speaker>>

Callback == (\E s \in cbs : CbEnter(s)) \/ CbCamera \/ CbMic \/ CbPads \/ CbFlag \/ CbSink

-----------------------------------------------------------------------------
(* The audio thread, run_audio_capture, and the watchdog of its loopback *)

AudioRest == UNCHANGED <<clients, threads, callback, camera, mic, pad, sink, stray>>

AudioStart ==
    /\ audio = "wait" /\ phase = "active" /\ enabled /\ id > 0
    /\ audio' = "loop" /\ halt' = FALSE
    /\ AudioRest

\* Mutated AudioWatchdog: the switch is not watched.
AudioWatchdogClient ==
    /\ audio = "loop" /\ ~halt
    /\ phase # "active"
    /\ halt' = TRUE
    /\ AudioRest /\ UNCHANGED audio

AudioWatchdog ==
    /\ audio = "loop" /\ ~halt
    /\ phase # "active" \/ ~enabled
    /\ halt' = TRUE
    /\ AudioRest /\ UNCHANGED audio

AudioEnd ==
    /\ audio = "loop" /\ halt
    /\ audio' = "wait"
    /\ AudioRest /\ UNCHANGED halt

\* The platform's loopback ends by itself.
AudioFails ==
    /\ audio = "loop" /\ ~halt
    /\ audio' = "wait"
    /\ AudioRest /\ UNCHANGED halt

Audio == AudioStart \/ AudioWatchdog \/ AudioEnd

-----------------------------------------------------------------------------
Next ==
    \/ Pair \/ Register \/ Timeout
    \/ \E s \in Ids : HangUp(s) \/ Check(s) \/ Command(s) \/ Continue(s)
    \/ Callback \/ Audio \/ AudioFails

\* The daemon's threads run; clients and platforms owe nothing.
Fairness ==
    /\ \A s \in Ids : WF_vars(Check(s) \/ Continue(s))
    /\ WF_vars(Callback) /\ WF_vars(Audio)

Spec     == Init /\ [][Next]_vars
FairSpec == Spec /\ Fairness

-----------------------------------------------------------------------------
Handlers == {"on_create", "on_flag", "on_failed", "off_sink", "cam_check", "cam_create", "mic_create"}

\* The types of the peripherals, the handlers' places and the audio thread.
TypeOK ==
    /\ manners \in Manners
    /\ sid \in 0..MaxSessions /\ phase \in {"none", "paired", "active"}
    /\ ctl \in [Ids -> {"gone", "check", "read"} \cup Handlers]
    /\ want \in [Ids -> Configs \cup {None}] /\ changed \in [Ids -> BOOLEAN]
    /\ cbs \subseteq Ids /\ cb \in cbs \cup {None}
    /\ cbPc \in {"camera", "mic", "pads", "flag", "sink"}
    /\ {cam, camConfig} \subseteq Configs \cup {None}
    /\ {mic, pad, enabled, halt, stray} \subseteq BOOLEAN
    /\ id \in 0..1 /\ audio \in {"wait", "loop"} /\ speaker \in Ids \cup {None}

\* Nobody is connected, and nothing is going on for those who were.
Quiet == phase = "none" /\ cbs = {} /\ \A s \in Ids : ctl[s] = "gone"

\* main.rs, lifecycle callbacks: peripherals are removed on disconnect.  When
\* all is quiet no virtual device and no switch is left, whatever the order
\* callbacks and clients came in and however early or late control messages
\* were obeyed: unless one was obeyed for a client that was not registered and
\* no callback has begun since.
RemovedOnDisconnect ==
    Quiet /\ ~stray => cam = None /\ ~mic /\ ~pad /\ ~enabled /\ id = 0

\* A loopback whose switch is off, or that has no client, ends, unless it is
\* wanted again.
LoopbackStops == (audio = "loop" /\ ~(enabled /\ phase = "active"))
                     ~> (audio = "wait" \/ (enabled /\ phase = "active"))

\* ARCHITECTURE.md, Speakers: SPKR starts the speaker-forwarding path.  A
\* client that has switched its speaker on, and stays, is forwarded audio.
Forwarded(s) == (speaker = s /\ Current(s) /\ phase = "active")
                    ~> (audio = "loop" \/ speaker # s \/ ~Current(s))
SpeakerIsForwarded == \A s \in Ids : Forwarded(s)

\* ... which holds of clients that come after the last one's callback.
PoliteIsForwarded == manners = {} => SpeakerIsForwarded
=============================================================================
