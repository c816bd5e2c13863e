----------------------------- MODULE CaptureLoop -----------------------------
(***************************************************************************)
(* The capture thread, started and stopped by clients that come and go:    *)
(* capture_start, capture_stop_flag, pending_settings, the watchdog of a   *)
(* capture session, and the disconnect callback, which runs on a thread of *)
(* its own and may still be running when the next client arrives.  Clients *)
(* are registered and dropped step by step, as in SessionGate, which has   *)
(* more of what admits them; here they all use one host.                   *)
(***************************************************************************)
EXTENDS Naturals

CONSTANTS MaxSessions, \* bound: clients that connect
          MaxFaults    \* bound: steps of the capture thread that fail

ASSUME CaptureAssumption == MaxSessions \in Nat /\ MaxFaults \in Nat

Ids     == 1..MaxSessions
None    == 0   \* no session, client, key or settings; the daemon's defaults
Manager == 0   \* as a thread; s \in Ids is the control thread of session s
Thread  == 0..MaxSessions

VARIABLES
    sid,                      \* the latest client
    net, key, expected, addr, \* the session that holds the gate; session_key,
                              \* expected_client_ip, client_addr
    mgr, man,                 \* the client manager: where it is, its session
    drop,                     \* where each thread is in drop_network_client
    usb, usbId,               \* the USB thread, and its client while usb_active
    active,                   \* has_active_client
    start, stop, settings,    \* capture_start, capture_stop_flag, pending_settings
    cbs, cb, cbPc,            \* callback threads to run; who runs the callback
    pc, cfg, base, cipher,    \* the capture thread: settings, bitrate base, cipher
    attached, halt,           \* the virtual display; combined_stop
    sent, lost, faults        \* who was sent a frame it can read; whether the
                              \* last capture session ended by a failure; failures

slots    == <<net, key, expected, addr>>
clients  == <<sid, slots, mgr, man, drop, usb, usbId, active>>
callback == <<cbs, cb, cbPc>>
session  == <<cfg, base, cipher, attached, halt>>
vars == <<clients, start, stop, settings, callback, pc, session, sent, lost, faults>>

Init ==
    /\ sid = 0 /\ net = None /\ key = None /\ expected = FALSE /\ addr = None
    /\ mgr = "idle" /\ man = None
    /\ drop = [t \in Thread |-> "no"]
    /\ usb = "poll" /\ usbId = None /\ active = FALSE
    /\ start = FALSE /\ stop = FALSE /\ settings = None
    /\ cbs = 0 /\ cb = "no" /\ cbPc = "settings"
    /\ pc = "wait" /\ cfg = None /\ base = None /\ cipher = None
    /\ attached = FALSE /\ halt = FALSE
    /\ sent = None /\ lost = FALSE /\ faults = 0

-----------------------------------------------------------------------------
(* Network clients: the pairing thread's reservation and the manager *)

ClientRest == UNCHANGED <<stop, cb, cbPc, pc, session, sent, lost, faults>>
NetRest    == ClientRest /\ UNCHANGED <<drop, usb, usbId, cbs>>

\* A handshake is accepted while nobody is active, and reserves the gate.
NetPair ==
    /\ net = None /\ ~active /\ sid < MaxSessions
    /\ sid' = sid + 1 /\ net' = sid + 1
    /\ NetRest /\ UNCHANGED <<key, expected, addr, mgr, man, active, start, settings>>

ManagerFree == mgr = "idle" /\ drop[Manager] = "no"

\* The manager finds the published session current; it installs it later.
NetTake ==
    /\ ManagerFree /\ net # None /\ man # net
    /\ mgr' = "install" /\ man' = net
    /\ NetRest /\ UNCHANGED <<sid, slots, active, start, settings>>

NetInstall ==
    /\ mgr = "install"
    /\ key' = man /\ expected' = TRUE
    /\ mgr' = "idle"
    /\ NetRest /\ UNCHANGED <<sid, net, addr, man, active, start, settings>>

\* STNG on a control channel, while its thread reads it; only the latest one is
\* kept.  (One that is read before and handled after a timeout's drop is left out.)
Stng(s) ==
    /\ (net = s /\ drop[s] = "no") \/ (usbId = s /\ usb = "read")
    /\ settings' = s
    /\ NetRest /\ UNCHANGED <<sid, slots, mgr, man, active, start>>

\* An authenticated datagram from an expected host, not yet registered.
NetPacket ==
    /\ ManagerFree /\ man # None /\ addr # man
    /\ addr # None \/ expected
    /\ mgr' = "register"
    /\ NetRest /\ UNCHANGED <<sid, slots, man, active, start, settings>>

\* The registration, under the client_addr mutex up to the swap.
NetRegister ==
    /\ mgr = "register"
    /\ addr' = man /\ expected' = FALSE
    /\ mgr' = "start"
    /\ NetRest /\ UNCHANGED <<sid, net, key, man, active, start, settings>>

NetStart ==
    /\ mgr = "start"
    /\ start' = TRUE
    /\ mgr' = "swap"
    /\ NetRest /\ UNCHANGED <<sid, slots, man, active, settings>>

\* Whoever swaps the flag in asks for the connect callback, which only logs.
NetActive ==
    /\ mgr = "swap"
    /\ active' = TRUE
    /\ mgr' = "idle"
    /\ NetRest /\ UNCHANGED <<sid, slots, man, start, settings>>

AddrLockFree == mgr \notin {"start", "swap"}

NetStep == NetInstall \/ NetRegister \/ NetStart \/ NetActive

-----------------------------------------------------------------------------
(* drop_network_client *)

DropGo(t, next) == drop' = [drop EXCEPT ![t] = next]
DropRest == ClientRest /\ UNCHANGED <<sid, usb, usbId, start, settings>>

\* The control thread of session s ends, with its channel.
HangUp(s) ==
    /\ net = s /\ drop[s] = "no"
    /\ DropGo(s, "addr")
    /\ DropRest /\ UNCHANGED <<slots, mgr, man, active, cbs>>

\* One of the manager's timeouts; it forgets its session, current or not.
Timeout ==
    /\ ManagerFree /\ man # None
    /\ IF net = man THEN DropGo(Manager, "addr") ELSE UNCHANGED drop
    /\ man' = None
    /\ DropRest /\ UNCHANGED <<slots, mgr, active, cbs>>

DropAddr(t) ==
    /\ drop[t] = "addr" /\ AddrLockFree
    /\ addr' = None
    /\ DropGo(t, "keys")
    /\ DropRest /\ UNCHANGED <<net, key, expected, mgr, man, active, cbs>>

\* session_key, expected_client_ip and the busy flag, one after the other: what
\* another thread does between two of them it may as well do before the first or
\* after the last.
DropKeys(t) ==
    /\ drop[t] = "keys"
    /\ key' = None /\ expected' = FALSE /\ net' = None
    /\ DropGo(t, "usb")
    /\ DropRest /\ UNCHANGED <<addr, mgr, man, active, cbs>>

DropUsb(t) ==
    /\ drop[t] = "usb"
    /\ DropGo(t, IF usbId # None THEN "no" ELSE "active")
    /\ DropRest /\ UNCHANGED <<slots, mgr, man, active, cbs>>

\* The swap; if it takes the flag, the callback is spawned.
DropActive(t) ==
    /\ drop[t] = "active"
    /\ active' = FALSE
    /\ cbs' = IF active THEN cbs + 1 ELSE cbs
    /\ DropGo(t, "no")
    /\ DropRest /\ UNCHANGED <<slots, mgr, man>>

DropStep == \E t \in Thread : DropAddr(t) \/ DropKeys(t) \/ DropUsb(t) \/ DropActive(t)

-----------------------------------------------------------------------------
(* The USB thread *)

UsbRest == ClientRest /\ UNCHANGED <<slots, mgr, man, drop, settings, cbs>>

\* A device is looked for while no client is active; READY may take its time.
UsbFound ==
    /\ usb = "poll" /\ ~active
    /\ usb' = "ready"
    /\ UsbRest /\ UNCHANGED <<sid, usbId, active, start>>

\* activate_usb_transport: usb_active, capture_start, the swap.
UsbConnect ==
    /\ usb = "ready" /\ sid < MaxSessions
    /\ sid' = sid + 1 /\ usbId' = sid + 1
    /\ usb' = "start"
    /\ UsbRest /\ UNCHANGED <<active, start>>

UsbStart ==
    /\ usb = "start"
    /\ start' = TRUE
    /\ usb' = "claim"
    /\ UsbRest /\ UNCHANGED <<sid, usbId, active>>

UsbClaim ==
    /\ usb = "claim"
    /\ active' = TRUE
    /\ usb' = "read"
    /\ UsbRest /\ UNCHANGED <<sid, usbId, start>>

\* deactivate_usb_transport: usb_active, the check of client_addr, the swap.
UsbEof ==
    /\ usb = "read"
    /\ usbId' = None
    /\ usb' = "check"
    /\ UsbRest /\ UNCHANGED <<sid, active, start>>

UsbCheck ==
    /\ usb = "check" /\ AddrLockFree
    /\ usb' = IF addr = None THEN "swap" ELSE "poll"
    /\ UsbRest /\ UNCHANGED <<sid, usbId, active, start>>

\* If the swap takes the flag, the thread itself runs the callback.
UsbRelease ==
    /\ usb = "swap"
    /\ active' = FALSE
    /\ usb' = IF active THEN "callback" ELSE "poll"
    /\ UsbRest /\ UNCHANGED <<sid, usbId, start>>

UsbStep == UsbStart \/ UsbClaim \/ UsbCheck \/ UsbRelease

Client == \/ NetPair \/ NetTake \/ NetPacket \/ Timeout
          \/ \E s \in Ids : Stng(s) \/ HangUp(s)
          \/ UsbFound \/ UsbConnect \/ UsbEof

-----------------------------------------------------------------------------
(* The disconnect callback, under the mutex that holds it *)

CbRest == UNCHANGED <<sid, slots, mgr, man, drop, usbId, active, pc, session,
                      sent, lost, faults>>
CbOn(step) == cb # "no" /\ cbPc = step

\* Peripherals are removed first (module Peripherals), with a 200 ms sleep.
CbEnter ==
    /\ cb = "no"
    /\ \/ cbs > 0 /\ cbs' = cbs - 1 /\ cb' = "thread"
       \/ usb = "callback" /\ cb' = "usb" /\ UNCHANGED cbs
    /\ CbRest /\ UNCHANGED <<usb, cbPc, start, stop, settings>>

CbSettings ==
    /\ CbOn("settings")
    /\ settings' = None
    /\ cbPc' = "stop"
    /\ CbRest /\ UNCHANGED <<usb, cbs, cb, start, stop>>

CbStop ==
    /\ CbOn("stop")
    /\ stop' = TRUE
    /\ cbPc' = "start"
    /\ CbRest /\ UNCHANGED <<usb, cbs, cb, start, settings>>

CbLeave ==
    /\ CbOn("start")
    /\ cb' = "no" /\ cbPc' = "settings"
    /\ usb' = IF cb = "usb" THEN "poll" ELSE usb
    /\ CbRest /\ UNCHANGED <<cbs, stop, settings>>

\* Mutated CbStart: capture_start is not cleared.
CbStartKept == CbLeave /\ UNCHANGED start

CbStart == CbLeave /\ start' = FALSE

Callback == CbEnter \/ CbSettings \/ CbStop \/ CbStart

-----------------------------------------------------------------------------
(* The capture thread and its watchdog *)

CapRest == UNCHANGED <<clients, callback>>
CapGo(from, to) == pc = from /\ pc' = to /\ CapRest
Fails == faults < MaxFaults /\ faults' = faults + 1

CapWake ==
    /\ start
    /\ CapGo("wait", "reset")
    /\ lost' = FALSE
    /\ UNCHANGED <<start, stop, settings, session, sent, faults>>

\* Mutated CapReset: the stop request of the last session is kept.
CapResetNot ==
    /\ CapGo("reset", "settings")
    /\ UNCHANGED <<start, stop, settings, session, sent, lost, faults>>

CapReset ==
    /\ CapGo("reset", "settings")
    /\ stop' = FALSE
    /\ UNCHANGED <<start, settings, session, sent, lost, faults>>

\* Mutated CapSettings: the bitrate loop is not rebased.
CapSettingsNoBase ==
    /\ CapGo("settings", "encoder")
    /\ cfg' = settings
    /\ settings' = None
    /\ UNCHANGED <<start, stop, base, cipher, attached, halt, sent, lost, faults>>

\* Waits up to 2 s for an STNG, then takes what is there, if anything.
CapSettings ==
    /\ CapGo("settings", "encoder")
    /\ cfg' = settings /\ base' = settings
    /\ settings' = None
    /\ UNCHANGED <<start, stop, cipher, attached, halt, sent, lost, faults>>

\* Encoder::new fails: sleep and `continue`, with capture_start still set.
CapEncoderFails ==
    /\ CapGo("encoder", "wait")
    /\ Fails
    /\ cfg' = None
    /\ UNCHANGED <<start, stop, settings, base, cipher, attached, halt, sent, lost>>

\* The encoder is made, and the cipher, if there is a key.
CapCipher ==
    /\ CapGo("encoder", "attach")
    /\ cipher' = IF key # None THEN key ELSE cipher
    /\ UNCHANGED <<start, stop, settings, cfg, base, attached, halt, sent, lost, faults>>

CapAttach ==
    /\ CapGo("attach", "loop")
    /\ attached' = TRUE
    /\ UNCHANGED <<start, stop, settings, cfg, base, cipher, halt, sent, lost, faults>>

CapAttachFails ==
    /\ CapGo("attach", "wait")
    /\ Fails /\ lost' = TRUE
    /\ cfg' = None /\ base' = None /\ start' = FALSE
    /\ UNCHANGED <<stop, settings, cipher, attached, halt, sent>>

\* The watchdog cannot be spawned: `continue` without a detach.
CapWatchdogFails ==
    /\ CapGo("attach", "wait")
    /\ Fails /\ lost' = TRUE
    /\ attached' = TRUE /\ stop' = TRUE /\ cfg' = None /\ start' = FALSE
    /\ UNCHANGED <<settings, base, cipher, halt, sent>>

Watchdog ==
    /\ pc \in {"loop", "join"} /\ stop /\ ~halt
    /\ halt' = TRUE
    /\ CapRest
    /\ UNCHANGED <<start, stop, settings, pc, cfg, base, cipher, attached, sent, lost, faults>>

\* A frame goes over USB, unsealed, or else to the registered address, sealed
\* under the cipher of this capture session.
CapFrame ==
    /\ ~halt
    /\ CapGo("loop", "loop")
    /\ IF usbId # None
       THEN sent' = usbId
       ELSE /\ AddrLockFree /\ addr # None /\ addr = cipher
            /\ sent' = addr
    /\ UNCHANGED <<start, stop, settings, session, lost, faults>>

\* Mutated CapLoopEnds: the display is not detached.
CapLoopEndsAttached ==
    /\ halt
    /\ CapGo("loop", "join")
    /\ UNCHANGED <<start, stop, settings, session, sent, lost, faults>>

\* run_capture_loop returns, because of combined_stop or of an error, and the
\* display is detached.
CapLoopEnds ==
    /\ halt
    /\ CapGo("loop", "join")
    /\ attached' = FALSE
    /\ UNCHANGED <<start, stop, settings, cfg, base, cipher, halt, sent, lost, faults>>

CapLoopFails ==
    /\ CapGo("loop", "join")
    /\ Fails /\ lost' = TRUE
    /\ attached' = FALSE
    /\ UNCHANGED <<start, stop, settings, cfg, base, cipher, halt, sent>>

\* The watchdog is joined, which after an error waits for a stop request; the
\* base goes back to the default and the start request is cleared.
CapJoin ==
    /\ halt
    /\ CapGo("join", "wait")
    /\ base' = None /\ start' = FALSE
    /\ cfg' = None /\ halt' = FALSE /\ sent' = None
    /\ UNCHANGED <<stop, settings, cipher, attached, lost, faults>>

Capture == \/ CapWake \/ CapReset \/ CapSettings \/ CapCipher \/ CapAttach
           \/ CapFrame \/ CapLoopEnds \/ CapJoin
Failure == CapEncoderFails \/ CapAttachFails \/ CapWatchdogFails \/ CapLoopFails

-----------------------------------------------------------------------------
Next == \/ Client \/ NetStep \/ DropStep \/ UsbStep
        \/ Callback \/ Capture \/ Failure \/ Watchdog

\* The daemon's threads run; clients, timers and faults owe nothing.
Fairness == /\ WF_vars(NetStep) /\ WF_vars(DropStep) /\ WF_vars(UsbStep)
            /\ WF_vars(Callback) /\ WF_vars(Capture) /\ WF_vars(Watchdog)

Spec     == Init /\ [][Next]_vars
FairSpec == Spec /\ Fairness

-----------------------------------------------------------------------------
FlagsOK == {expected, active, start, stop, attached, halt, lost} \subseteq BOOLEAN

ValuesOK ==
    /\ sid \in 0..MaxSessions
    /\ {net, key, addr, man, usbId} \subseteq 0..sid
    /\ {settings, cfg, base, cipher, sent} \subseteq 0..sid
    /\ mgr \in {"idle", "install", "register", "start", "swap"}
    /\ drop \in [Thread -> {"no", "addr", "keys", "usb", "active"}]
    /\ usb \in {"poll", "ready", "start", "claim", "read", "check", "swap", "callback"}
    /\ cbs \in Nat
    /\ cb \in {"no", "thread", "usb"} /\ cbPc \in {"settings", "stop", "start"}
    /\ pc \in {"wait", "reset", "settings", "encoder", "attach", "loop", "join"}
    /\ faults \in 0..MaxFaults

\* The types of the flags of SharedState and of its threads' locals.
TypeOK == FlagsOK /\ ValuesOK

\* A teardown that has still to swap has_active_client, or to skip the swap.
TearingDown ==
    \/ usb \in {"check", "swap"}
    \/ \E t \in Thread : drop[t] \in {"keys", "usb", "active"}

CallbackDue == cbs > 0 \/ cb # "no" \/ usb = "callback"

\* A client that the daemon holds registered, on either transport.
Registered == addr # None \/ usbId # None

\* capture_start, once no client is registered, is on its way down: a teardown
\* has still to take has_active_client, or a callback that will clear it to run,
\* however registrations, drops and both transports interleave.  So no capture
\* session is started for nobody once teardowns and callbacks have run.
StartIsBacked == start => Registered \/ TearingDown \/ CallbackDue

\* A capture session streams at the settings it was started with: the adaptive
\* bitrate's base is the session's for as long as it captures, whatever
\* failed attempt or other session came before.
BaseIsSessions == pc \in {"encoder", "attach", "loop", "join"} => base = cfg

\* A stop request seen by the watchdog takes the capture thread all the way
\* back to waiting, with the display detached.
StopEndsSession == (pc = "loop" /\ stop) ~> (pc = "wait" /\ ~attached)

\* The client that frames go to; whether nothing is left of others to wind up.
Streamed(s) == usbId = s \/ (usbId = None /\ addr = s /\ net = s)
WoundUp     == /\ ~CallbackDue /\ \A t \in Thread : drop[t] = "no"
               /\ usb \in {"poll", "ready", "read"}

\* ARCHITECTURE.md, Network session: the daemon authenticates the first UDP
\* packets and starts media.  A client that registers is sent a frame or
\* leaves, if its start request is there once the sessions and callbacks before
\* it are wound up, however those ended, and though the encoder fails; unless
\* its own capture session then ends by a failure.
WoundUpIsServed ==
    \A s \in Ids : (Streamed(s) /\ start /\ pc \in {"wait", "reset"} /\ WoundUp)
                      ~> (sent = s \/ ~Streamed(s) \/ lost)

\* The disconnect callback's comment: settings a client leaves behind do not
\* leak into the next session: once all is wound up but one client, a capture
\* session takes no other's.
SettingsAreClients ==
    [][(pc = "settings" /\ settings # None /\ pc' = "encoder" /\ WoundUp)
           => \A s \in Ids : ({net, usbId} \ {None} = {s}) => settings = s]_vars
=============================================================================
