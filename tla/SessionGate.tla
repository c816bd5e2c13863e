----------------------------- MODULE SessionGate -----------------------------
(***************************************************************************)
(* The gate that admits one client at a time to the daemon: the atomics    *)
(* and mutexes of SharedState that the pairing thread, the client-manager  *)
(* thread, one control thread per network session and the USB thread all   *)
(* read and write without a common lock.  A step is one atomic access or   *)
(* one critical section.  Session s is also the name of its key and of the *)
(* UDP socket its client sends from; ip[s] is the host of that socket.     *)
(* What the daemon streams to the admitted client is CaptureLoop.          *)
(***************************************************************************)
EXTENDS Naturals

CONSTANTS IPs,         \* the hosts clients connect from
          NoIp,        \* Option::None for an expected host
          MaxSessions, \* bound: handshakes the daemon accepts
          MaxPlugs     \* bound: times the USB transport is activated

ASSUME GateAssumption ==
    NoIp \notin IPs /\ MaxSessions \in Nat /\ MaxPlugs \in Nat

Ids     == 1..MaxSessions
None    == 0                    \* Option::None for a session, key or address
Pairing == 0                    \* the pairing thread
Manager == MaxSessions + 1      \* the client-manager thread
Thread  == 0..(MaxSessions + 1) \* s \in Ids is the control thread of session s

VARIABLES
    busy, pending, sid,      \* network_session_busy, _pending, _id
    key, expected, addr,     \* session_key, expected_client_ip, client_addr
    mailbox,                 \* session_rx: pairing thread to manager
    hasActive, usbActive,    \* has_active_client, usb_active
    late,                    \* history: the client registered during a teardown
    ip, ok,                  \* each session's host; sessions whose client got SCREX_OK
    pt,                      \* where the pairing thread is
    cm, cmSid, cmCipher, cmPend, \* the manager and its locals
    ctl,                     \* the control threads
    drop,                    \* where each thread is in drop_network_client
    usb, sendErr, plugs      \* the USB thread; a failed USB write in flight

flags    == <<busy, pending, sid>>
slots    == <<key, expected, addr>>
locals   == <<cmSid, cmCipher, cmPend>>
usbVars  == <<usb, usbActive, sendErr, plugs>>
world    == <<ip, ok>>
vars == <<flags, slots, mailbox, hasActive, late, world, pt, cm, locals, ctl, drop,
          usbVars>>

Init ==
    /\ busy = FALSE /\ pending = FALSE /\ sid = 0
    /\ key = None /\ expected = NoIp /\ addr = None /\ mailbox = None
    /\ hasActive = FALSE /\ usbActive = FALSE /\ late = FALSE
    /\ ip \in [Ids -> IPs] /\ ok = {}
    /\ pt = "accept"
    /\ cm = "take" /\ cmSid = None /\ cmCipher = None /\ cmPend = FALSE
    /\ ctl = [s \in Ids |-> "none"]
    /\ drop = [t \in Thread |-> "no"]
    /\ usb = "poll" /\ sendErr = FALSE /\ plugs = 0

-----------------------------------------------------------------------------
(* SharedState *)

\* Two loads in the code (busy, then the id); ids only grow, so the pair is
\* true exactly when it was true at the first load, and one step is enough.
IsCurrent(s) == busy /\ sid = s

\* The manager keeps the client_addr mutex from the registration of a new
\* client until it has swapped has_active_client.
AddrLockFree == cm \notin {"mark", "activate"}
\* The manager holds the session_rx mutex while it installs a session.
MailboxLockFree == cm \notin {"install_key", "install_ip"}

-----------------------------------------------------------------------------
(* drop_network_client, called by every network thread *)

\* A teardown that has let go of the client's address, or has found none, and
\* may still clear has_active_client.
TearingDown ==
    \/ usb = "swap"
    \/ \E t \in Thread : drop[t] \in {"key", "expected", "pending", "busy", "usb",
                                     "active"}

\* The call and its early return.
DropCall(t, s) == drop' = [drop EXCEPT ![t] = IF IsCurrent(s) THEN "addr" ELSE "no"]
DropGo(t, next) == drop' = [drop EXCEPT ![t] = next]

DropRest == UNCHANGED <<mailbox, late, world, pt, cm, locals, ctl, usbVars, sid>>

DropAddr(t) ==
    /\ drop[t] = "addr" /\ AddrLockFree
    /\ addr' = None
    /\ DropGo(t, "key")
    /\ DropRest /\ UNCHANGED <<busy, pending, key, expected, hasActive>>

DropKey(t) ==
    /\ drop[t] = "key"
    /\ key' = None
    /\ DropGo(t, "expected")
    /\ DropRest /\ UNCHANGED <<busy, pending, addr, expected, hasActive>>

DropExpected(t) ==
    /\ drop[t] = "expected"
    /\ expected' = NoIp
    /\ DropGo(t, "pending")
    /\ DropRest /\ UNCHANGED <<busy, pending, addr, key, hasActive>>

DropPending(t) ==
    /\ drop[t] = "pending"
    /\ pending' = FALSE
    /\ DropGo(t, "busy")
    /\ DropRest /\ UNCHANGED <<busy, slots, hasActive>>

\* Mutated DropBusy: the teardown ends here.
DropBusyLast(t) ==
    /\ drop[t] = "busy"
    /\ busy' = FALSE
    /\ DropGo(t, "no")
    /\ DropRest /\ UNCHANGED <<pending, slots, hasActive>>

DropBusy(t) ==
    /\ drop[t] = "busy"
    /\ busy' = FALSE
    /\ DropGo(t, "usb")
    /\ DropRest /\ UNCHANGED <<pending, slots, hasActive>>

\* The two halves of `!usb_active.load() && has_active_client.swap(false)`.
DropUsb(t) ==
    /\ drop[t] = "usb"
    /\ DropGo(t, IF usbActive THEN "no" ELSE "active")
    /\ DropRest /\ UNCHANGED <<busy, pending, slots, hasActive>>

DropActive(t) ==
    /\ drop[t] = "active"
    /\ hasActive' = FALSE
    /\ DropGo(t, "no")
    /\ DropRest /\ UNCHANGED <<busy, pending, slots>>

DropStep(t) == \/ DropAddr(t) \/ DropKey(t) \/ DropExpected(t) \/ DropPending(t)
               \/ DropBusy(t) \/ DropUsb(t) \/ DropActive(t)

-----------------------------------------------------------------------------
(* The pairing thread: run_pairing_server and reserve_network_session *)

PtRest == UNCHANGED <<slots, hasActive, late, ip, cm, locals, usbVars>>

\* A connection found while has_active_client is set gets SCREX_BUSY, which
\* changes nothing: the action is the accepting branch.
PtAccept ==
    /\ pt = "accept" /\ drop[Pairing] = "no"
    /\ ~hasActive
    /\ sid < MaxSessions
    /\ pt' = "reserve"
    /\ PtRest /\ UNCHANGED <<flags, mailbox, ok, ctl, drop>>

\* compare_exchange(false, true): a pending session means SCREX_BUSY.
PtReserve ==
    /\ pt = "reserve"
    /\ busy' = TRUE
    /\ pt' = IF busy THEN "accept" ELSE "pending"
    /\ PtRest /\ UNCHANGED <<pending, sid, mailbox, ok, ctl, drop>>

PtPending ==
    /\ pt = "pending"
    /\ pending' = TRUE
    /\ pt' = "id"
    /\ PtRest /\ UNCHANGED <<busy, sid, mailbox, ok, ctl, drop>>

\* Mutated PtId: the id is not advanced.
PtIdKept ==
    /\ pt = "id"
    /\ pt' = "handshake"
    /\ PtRest /\ UNCHANGED <<flags, mailbox, ok, ctl, drop>>

PtId ==
    /\ pt = "id"
    /\ sid' = sid + 1
    /\ pt' = "handshake"
    /\ PtRest /\ UNCHANGED <<busy, pending, mailbox, ok, ctl, drop>>

\* handle_handshake, whose messages are not told apart here.
PtHandshakeOk ==
    /\ pt = "handshake"
    /\ ok' = ok \cup {sid}
    /\ pt' = "publish"
    /\ PtRest /\ UNCHANGED <<flags, mailbox, ctl, drop>>

PtHandshakeFail ==
    /\ pt = "handshake"
    /\ DropCall(Pairing, sid)
    /\ pt' = "accept"
    /\ PtRest /\ UNCHANGED <<flags, mailbox, ok, ctl>>

PtPublish ==
    /\ pt = "publish" /\ MailboxLockFree
    /\ mailbox' = sid
    /\ pt' = "spawn"
    /\ PtRest /\ UNCHANGED <<flags, ok, ctl, drop>>

\* Spawning the control thread may fail.
PtSpawn ==
    /\ pt = "spawn"
    /\ \/ ctl' = [ctl EXCEPT ![sid] = "loop"] /\ UNCHANGED drop
       \/ DropCall(Pairing, sid) /\ UNCHANGED ctl
    /\ pt' = "accept"
    /\ PtRest /\ UNCHANGED <<flags, mailbox, ok>>

PairingStep == \/ PtAccept \/ PtReserve \/ PtPending \/ PtId \/ PtHandshakeOk
               \/ PtHandshakeFail \/ PtPublish \/ PtSpawn

-----------------------------------------------------------------------------
(* The control thread of session s: run_control_loop *)

CtlRest == UNCHANGED <<flags, slots, mailbox, hasActive, late, world, pt, cm, locals, usbVars>>

\* The check at the top of every iteration.
CtlStale(s) ==
    /\ ctl[s] = "loop" /\ ~IsCurrent(s)
    /\ ctl' = [ctl EXCEPT ![s] = "exit"]
    /\ CtlRest /\ UNCHANGED drop

\* DISCONNECT, end of stream or a malformed frame.
CtlHangUp(s) ==
    /\ ctl[s] = "loop"
    /\ ctl' = [ctl EXCEPT ![s] = "exit"]
    /\ CtlRest /\ UNCHANGED drop

CtlExit(s) ==
    /\ ctl[s] = "exit"
    /\ ctl' = [ctl EXCEPT ![s] = "done"]
    /\ DropCall(s, s)
    /\ CtlRest

ControlStep(s) == CtlStale(s) \/ CtlExit(s)

-----------------------------------------------------------------------------
(* The client manager: one iteration of run_client_manager is              *)
(* take -> recv -> timeouts -> keepalive, and `continue` goes back to take *)

CmRest == UNCHANGED <<sid, world, pt, ctl, usbVars>>
CmReady == drop[Manager] = "no"

\* session_rx.take(): a session that is no longer current is thrown away.
CmTake ==
    /\ cm = "take" /\ CmReady
    /\ \/ mailbox = None /\ cm' = "recv" /\ UNCHANGED mailbox
       \/ /\ mailbox # None
          /\ IF IsCurrent(mailbox) THEN cm' = "install_key" /\ UNCHANGED mailbox
                                   ELSE cm' = "take" /\ mailbox' = None
    /\ CmRest /\ UNCHANGED <<busy, pending, slots, hasActive, late, locals, drop>>

CmInstallKey ==
    /\ cm = "install_key"
    /\ key' = mailbox
    /\ cm' = "install_ip"
    /\ CmRest /\ UNCHANGED <<busy, pending, expected, addr, mailbox, hasActive, late, locals, drop>>

CmInstallIp ==
    /\ cm = "install_ip"
    /\ expected' = ip[mailbox]
    /\ cmCipher' = mailbox /\ cmSid' = mailbox /\ cmPend' = TRUE
    /\ mailbox' = None
    /\ cm' = "recv"
    /\ CmRest /\ UNCHANGED <<busy, pending, key, addr, hasActive, late, drop>>

\* The 100 ms receive timeout.
CmQuiet ==
    /\ cm = "recv"
    /\ cm' = "timeouts"
    /\ CmRest /\ UNCHANGED <<busy, pending, slots, mailbox, hasActive, late, locals, drop>>

\* A datagram, however late, from the socket of session s.  The port of a
\* registered host is updated before the packet is decrypted; a packet that is
\* not under the manager's key, or whose number is stale, goes no further.
CmPacket(s) ==
    /\ cm = "recv" /\ s \in ok
    /\ LET known == (addr # None /\ ip[addr] = ip[s]) \/ expected = ip[s]
       IN  /\ addr' = IF known /\ addr # None THEN s ELSE addr
           /\ cm' \in IF known /\ cmCipher = s THEN {"register", "take"} ELSE {"take"}
    /\ CmRest /\ UNCHANGED <<busy, pending, key, expected, mailbox, hasActive, late, locals, drop>>

\* The first authenticated packet registers the client.
CmRegister ==
    /\ cm = "register"
    /\ IF addr = cmCipher
       THEN cm' = "timeouts" /\ UNCHANGED <<addr, expected, cmPend, late>>
       ELSE /\ addr' = cmCipher
            /\ late' = TearingDown
            /\ expected' = NoIp
            /\ cmPend' = FALSE
            /\ cm' = IF IsCurrent(cmSid) THEN "mark" ELSE "activate"
    /\ CmRest /\ UNCHANGED <<busy, pending, key, mailbox, hasActive, cmSid, cmCipher, drop>>

\* The store of mark_network_session_active, after its check.
CmMark ==
    /\ cm = "mark"
    /\ pending' = FALSE
    /\ cm' = "activate"
    /\ CmRest /\ UNCHANGED <<busy, slots, mailbox, hasActive, late, locals, drop>>

CmActivate ==
    /\ cm = "activate"
    /\ hasActive' = TRUE
    /\ cm' = "timeouts"
    /\ CmRest /\ UNCHANGED <<busy, pending, slots, mailbox, late, locals, drop>>

CmForget(next) ==
    /\ DropCall(Manager, cmSid)
    /\ cmSid' = None /\ cmCipher' = None /\ cmPend' = FALSE
    /\ cm' = next
    /\ CmRest /\ UNCHANGED <<busy, pending, slots, mailbox, hasActive, late>>

CmPass(next) ==
    /\ cm' = next
    /\ CmRest /\ UNCHANGED <<busy, pending, slots, mailbox, hasActive, late, locals, drop>>

\* PENDING_SESSION_TIMEOUT: the client never registered.
CmPendingTimeout ==
    /\ cm = "timeouts" /\ cmSid # None /\ pending /\ cmPend
    /\ CmForget("keepalive")

\* Mutated CmKeepaliveTimeout: an address of another session does not count.
CmKeepaliveTimeoutOwn ==
    /\ cm = "keepalive" /\ CmReady /\ addr # None /\ addr = cmSid
    /\ CmForget("take")

\* KEEPALIVE_TIMEOUT: the registered client fell silent.
CmKeepaliveTimeout ==
    /\ cm = "keepalive" /\ CmReady /\ addr # None
    /\ CmForget("take")

\* Neither timer has expired.
CmNoTimeout ==
    \/ cm = "timeouts" /\ CmPass("keepalive")
    \/ cm = "keepalive" /\ CmReady /\ CmPass("take")

ManagerStep == \/ CmTake \/ CmInstallKey \/ CmInstallIp \/ CmQuiet \/ CmRegister
               \/ CmMark \/ CmActivate \/ CmNoTimeout
Timeouts == CmPendingTimeout \/ CmKeepaliveTimeout

-----------------------------------------------------------------------------
(* The USB thread: run_usb_transport *)

UsbRest == UNCHANGED <<flags, slots, mailbox, late, world, pt, cm, locals, ctl, drop>>

\* Dormant while a network client is active; otherwise a device is found and
\* the app has up to READY_TIMEOUT to send READY.
UsbFound ==
    /\ usb = "poll" /\ plugs < MaxPlugs
    /\ ~hasActive \/ usbActive
    /\ usb' = "ready"
    /\ plugs' = plugs + 1
    /\ UsbRest /\ UNCHANGED <<usbActive, sendErr, hasActive>>

UsbNotReady ==
    /\ usb = "ready"
    /\ usb' = "poll"
    /\ UsbRest /\ UNCHANGED <<usbActive, sendErr, plugs, hasActive>>

\* activate_usb_transport up to the store of usb_active, then its swap.
UsbActivate ==
    /\ usb = "ready"
    /\ usbActive' = TRUE
    /\ usb' = "claim"
    /\ UsbRest /\ UNCHANGED <<sendErr, plugs, hasActive>>

UsbClaim ==
    /\ usb = "claim"
    /\ hasActive' = TRUE
    /\ usb' = "read"
    /\ UsbRest /\ UNCHANGED <<usbActive, sendErr, plugs>>

\* Mutated UsbEof: usb_active is left set.
UsbEofKeepsActive ==
    /\ usb = "read"
    /\ usb' = "release"
    /\ UsbRest /\ UNCHANGED <<usbActive, sendErr, plugs, hasActive>>

\* read_control_loop ends; deactivate_usb_transport.
UsbEof ==
    /\ usb = "read"
    /\ usbActive' = FALSE
    /\ usb' = "release"
    /\ UsbRest /\ UNCHANGED <<sendErr, plugs, hasActive>>

\* Mutated UsbCheck: the client's address is not looked at.
UsbCheckNot ==
    /\ usb = "release" /\ AddrLockFree
    /\ usb' = "swap"
    /\ UsbRest /\ UNCHANGED <<usbActive, sendErr, plugs, hasActive>>

\* The two halves of `client_addr.lock().is_none() && swap(false)`: the guard
\* is a temporary of the first operand and is dropped with it, so a client may
\* register before the swap.
UsbCheck ==
    /\ usb = "release" /\ AddrLockFree
    /\ usb' = IF addr = None THEN "swap" ELSE "poll"
    /\ UsbRest /\ UNCHANGED <<usbActive, sendErr, plugs, hasActive>>

UsbRelease ==
    /\ usb = "swap"
    /\ hasActive' = FALSE
    /\ usb' = "poll"
    /\ UsbRest /\ UNCHANGED <<usbActive, sendErr, plugs>>

\* The capture or audio thread fails to write a frame to the USB sender, drops
\* the sender's mutex, and only then clears usb_active.
UsbSendFails ==
    /\ usbActive /\ usb \in {"claim", "read"} /\ ~sendErr
    /\ sendErr' = TRUE
    /\ UsbRest /\ UNCHANGED <<usb, usbActive, plugs, hasActive>>

UsbSendErrorStore ==
    /\ sendErr
    /\ sendErr' = FALSE /\ usbActive' = FALSE
    /\ UsbRest /\ UNCHANGED <<usb, plugs, hasActive>>

UsbStep == UsbClaim \/ UsbCheck \/ UsbRelease \/ UsbSendErrorStore

-----------------------------------------------------------------------------
Next ==
    \/ PairingStep
    \/ ManagerStep \/ Timeouts \/ \E s \in Ids : CmPacket(s)
    \/ \E s \in Ids : ControlStep(s) \/ CtlHangUp(s)
    \/ \E t \in Thread : DropStep(t)
    \/ UsbStep \/ UsbFound \/ UsbNotReady \/ UsbActivate \/ UsbEof \/ UsbSendFails

\* Threads that can run do run, and a timer that keeps finding its condition
\* true expires.  Clients, users and devices owe nothing.
Fairness ==
    /\ WF_vars(ManagerStep)
    /\ SF_vars(CmPendingTimeout) /\ SF_vars(CmKeepaliveTimeout)
    /\ \A s \in Ids : WF_vars(ControlStep(s))
    /\ \A t \in Thread : WF_vars(DropStep(t))
    /\ WF_vars(UsbStep)

Spec     == Init /\ [][Next]_vars
FairSpec == Spec /\ Fairness

-----------------------------------------------------------------------------
FlagsOK == {busy, pending, hasActive, late, usbActive, cmPend, sendErr} \subseteq BOOLEAN

ValuesOK ==
    /\ sid \in 0..MaxSessions
    /\ key \in Ids \cup {None} /\ addr \in Ids \cup {None}
    /\ expected \in IPs \cup {NoIp} /\ mailbox \in Ids \cup {None}
    /\ ip \in [Ids -> IPs] /\ ok \in SUBSET Ids
    /\ pt \in {"accept", "reserve", "pending", "id", "handshake", "publish", "spawn"}
    /\ cm \in {"take", "install_key", "install_ip", "recv", "register", "mark",
               "activate", "timeouts", "keepalive"}
    /\ cmSid \in Ids \cup {None} /\ cmCipher \in Ids \cup {None}
    /\ ctl \in [Ids -> {"none", "loop", "exit", "done"}]
    /\ drop \in [Thread -> {"no", "addr", "key", "expected", "pending", "busy",
                            "usb", "active"}]
    /\ usb \in {"poll", "ready", "claim", "read", "release", "swap"}
    /\ plugs \in 0..MaxPlugs

\* The types of every atomic and slot of SharedState and of its threads' locals.
TypeOK == FlagsOK /\ ValuesOK

\* What holds of the threads' positions: the strengthening that makes
\* the two properties of the flag inductive.
Positions ==
    /\ pt \in {"reserve", "pending", "id"} => sid < MaxSessions
    /\ pt \in {"handshake", "publish", "spawn"} => sid # 0
    /\ \A s \in Ids : ctl[s] # "none" =>
           /\ s <= sid
           /\ pt \in {"handshake", "publish", "spawn"} => s < sid
    /\ cm \in {"install_key", "install_ip"} => mailbox # None
    /\ cm = "register" => cmCipher # None
    /\ cm \in {"mark", "activate"} => addr # None
    /\ usbActive => usb \in {"claim", "read"}

\* No thread enters drop_network_client before it has left it.
DropNotNested ==
    /\ pt # "accept" => drop[Pairing] = "no"
    /\ cm \notin {"take", "keepalive"} => drop[Manager] = "no"
    /\ \A s \in Ids : ctl[s] # "done" => drop[s] = "no"

\* has_active_client, which makes the daemon answer SCREX_BUSY and keeps the
\* USB thread dormant, is never left set with no client on either transport
\* and no thread on its way to clear it: the network teardown and the USB
\* teardown, each of which skips the swap when it sees the other transport
\* alive, cannot both skip it.
ActiveIsBacked ==
    hasActive => addr # None \/ usb \in {"claim", "read", "release"} \/ TearingDown

\* Conversely a registered client keeps has_active_client for as long as its
\* address is set: no teardown of another session or transport, past or to
\* come, takes it, unless the client registered while one was under way whose
\* check had been made and whose swap was not.
ClientKeepsFlag ==
    (addr # None /\ ~late) => (hasActive \/ cm \in {"mark", "activate"})

\* ClientKeepsFlag with its reason: no teardown is past its check.
FlagKept == (addr # None /\ ~late) => ~TearingDown /\ ClientKeepsFlag

\* The inductive invariant.
GateInv == TypeOK /\ Positions /\ DropNotNested /\ ActiveIsBacked /\ FlagKept

\* ... and a flag that has lost its client on both transports is cleared, or a
\* new client takes it over.
OrphanFlagClears ==
    (hasActive /\ addr = None /\ usb = "poll")
        ~> (~hasActive \/ addr # None \/ usb # "poll")

\* A session that holds the gate, published and not registered.
Unsettled(s) ==
    busy /\ sid = s /\ pt \in {"accept", "reserve"} /\ addr # s

\* The gate is not held for ever by a session whose client, once paired, never
\* registers, though the registration of the session before it may clear its
\* pending flag and with it its timeout; unless datagrams never cease, each of
\* which sends the manager past its timeouts.
GateIsFreed ==
    \/ []<><<\E s \in Ids : CmPacket(s)>>_vars
    \/ \A s \in Ids : Unsettled(s) ~> ~Unsettled(s)

\* run_client_manager's keepalive check drops a client that has fallen silent:
\* either datagrams keep arriving for ever, or client_addr is cleared again and
\* again, never set for good.
SilentClientIsDropped ==
    []<><<\E s \in Ids : CmPacket(s)>>_vars \/ []<>(addr = None)
=============================================================================
