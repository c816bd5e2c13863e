------------------------- MODULE SessionGateProofs -------------------------
(***************************************************************************)
(* Proofs about SessionGate, for any number of sessions, hosts and USB     *)
(* activations.  GateInv is inductive: its Boolean typing is one lemma,    *)
(* what holds of values and positions (Core) has one lemma per thread with *)
(* one step per action, and what ties the flag to the client has           *)
(* one step per thread.                                                    *)
(***************************************************************************)
EXTENDS SessionGate, TLAPS

USE GateAssumption DEF Ids, Thread, Pairing, Manager, None

Core == ValuesOK /\ Positions /\ DropNotNested

LEMMA InitInv == Init => GateInv
<1> SUFFICES ASSUME Init PROVE GateInv OBVIOUS
<1>1. FlagsOK BY Zenon DEF Init, FlagsOK
<1>2. ValuesOK BY DEF Init, ValuesOK
<1>3. Positions BY DEF Init, Positions
<1>4. DropNotNested BY DEF Init, DropNotNested
<1>5. FlagKept BY DEF Init, FlagKept
<1>6. ActiveIsBacked BY DEF Init, ActiveIsBacked
<1> QED BY <1>1, <1>2, <1>3, <1>4, <1>5, <1>6 DEF GateInv, TypeOK

-----------------------------------------------------------------------------
(* Every Boolean is assigned a Boolean. *)

LEMMA FlagsKept == ASSUME FlagsOK, [Next]_vars PROVE FlagsOK'
<1> USE DEF FlagsOK, world, locals, usbVars, slots, flags
<1>1. ASSUME NEW t \in Thread, DropStep(t) PROVE FlagsOK'
  BY <1>1, Zenon DEF DropStep, DropAddr, DropKey, DropExpected, DropPending,
     DropBusy, DropUsb, DropActive, DropRest
<1>2. CASE PairingStep
  BY <1>2, Zenon DEF PairingStep, PtAccept, PtReserve, PtPending, PtId,
     PtHandshakeOk, PtHandshakeFail, PtPublish, PtSpawn, PtRest
<1>3. ASSUME NEW s \in Ids, ControlStep(s) \/ CtlHangUp(s) PROVE FlagsOK'
  BY <1>3, Zenon DEF ControlStep, CtlStale, CtlExit, CtlHangUp, CtlRest
<1>4. CASE ManagerStep \/ Timeouts
  <2>1. CASE CmRegister
    <3>1. TearingDown \in BOOLEAN BY Zenon DEF TearingDown
    <3> QED BY <2>1, <3>1, Zenon DEF CmRegister, CmRest
  <2>2. CASE ~CmRegister
    BY <1>4, <2>2, Zenon DEF ManagerStep, Timeouts, CmTake, CmInstallKey,
       CmInstallIp, CmQuiet, CmMark, CmActivate, CmNoTimeout, CmPendingTimeout,
       CmKeepaliveTimeout, CmForget, CmPass, CmRest
  <2> QED BY <2>1, <2>2
<1>5. ASSUME NEW s \in Ids, CmPacket(s) PROVE FlagsOK'
  BY <1>5, Zenon DEF CmPacket, CmRest
<1>6. CASE UsbStep \/ UsbFound \/ UsbNotReady \/ UsbActivate \/ UsbEof \/ UsbSendFails
  BY <1>6, Zenon DEF UsbStep, UsbFound, UsbNotReady, UsbActivate, UsbClaim, UsbEof,
     UsbCheck, UsbRelease, UsbSendFails, UsbSendErrorStore, UsbRest
<1>7. CASE UNCHANGED vars
  BY <1>7, Zenon DEF vars
<1> QED BY <1>1, <1>2, <1>3, <1>4, <1>5, <1>6, <1>7, Zenon DEF Next

-----------------------------------------------------------------------------
(* Values, positions and the balance of callbacks, thread by thread. *)

LEMMA CoreDrop == ASSUME Core, NEW t \in Thread, DropStep(t) PROVE Core'
<1> USE DEF Core, ValuesOK, Positions, DropNotNested,
            DropGo, DropRest, world, locals, usbVars, slots, flags
<1>1. CASE DropAddr(t) BY <1>1 DEF DropAddr, AddrLockFree
<1>2. CASE DropKey(t) BY <1>2 DEF DropKey
<1>3. CASE DropExpected(t) BY <1>3 DEF DropExpected
<1>4. CASE DropPending(t) BY <1>4 DEF DropPending
<1>5. CASE DropBusy(t) BY <1>5 DEF DropBusy
<1>6. CASE DropUsb(t) BY <1>6 DEF DropUsb
<1>7. CASE DropActive(t) BY <1>7 DEF DropActive
<1> QED BY <1>1, <1>2, <1>3, <1>4, <1>5, <1>6, <1>7 DEF DropStep

LEMMA CorePairing == ASSUME Core, PairingStep PROVE Core'
<1> USE DEF Core, ValuesOK, Positions, DropNotNested, DropCall,
            PtRest, world, locals, usbVars, slots, flags
<1>1. CASE PtAccept BY <1>1 DEF PtAccept
<1>2. CASE PtReserve BY <1>2 DEF PtReserve
<1>3. CASE PtPending BY <1>3 DEF PtPending
<1>4. CASE PtId BY <1>4 DEF PtId
<1>5. CASE PtHandshakeOk BY <1>5 DEF PtHandshakeOk
<1>6. CASE PtHandshakeFail BY <1>6 DEF PtHandshakeFail
<1>7. CASE PtPublish BY <1>7 DEF PtPublish
<1>8. ASSUME PtSpawn, UNCHANGED drop PROVE Core' BY <1>8 DEF PtSpawn
<1>9. ASSUME PtSpawn, DropCall(Pairing, sid), UNCHANGED ctl PROVE Core'
  BY <1>9 DEF PtSpawn
<1> QED BY <1>1, <1>2, <1>3, <1>4, <1>5, <1>6, <1>7, <1>8, <1>9
        DEF PairingStep, PtSpawn

LEMMA CoreControl ==
    ASSUME Core, NEW s \in Ids, ControlStep(s) \/ CtlHangUp(s) PROVE Core'
<1> USE DEF Core, ValuesOK, Positions, DropNotNested, DropCall,
            CtlRest, world, locals, usbVars, slots, flags
<1>1. CASE CtlStale(s) BY <1>1 DEF CtlStale
<1>2. CASE CtlHangUp(s) BY <1>2 DEF CtlHangUp
<1>3. CASE CtlExit(s) BY <1>3 DEF CtlExit
<1> QED BY <1>1, <1>2, <1>3 DEF ControlStep

LEMMA CoreManager == ASSUME Core, ManagerStep \/ Timeouts PROVE Core'
<1> USE DEF Core, ValuesOK, Positions, DropNotNested, DropCall,
            CmRest, CmForget, CmPass, CmReady, world, locals, usbVars,
            slots, flags
<1>1. CASE CmTake BY <1>1 DEF CmTake
<1>2. CASE CmInstallKey BY <1>2 DEF CmInstallKey
<1>3. CASE CmInstallIp BY <1>3 DEF CmInstallIp
<1>4. CASE CmQuiet BY <1>4 DEF CmQuiet
<1>5. CASE CmRegister BY <1>5 DEF CmRegister
<1>6. CASE CmMark BY <1>6 DEF CmMark
<1>7. CASE CmActivate BY <1>7 DEF CmActivate
<1>8. CASE CmNoTimeout
  <2>1. ASSUME cm = "timeouts", CmPass("keepalive") PROVE Core' BY <2>1
  <2>2. ASSUME cm = "keepalive", CmReady, CmPass("take") PROVE Core' BY <2>2
  <2> QED BY <1>8, <2>1, <2>2 DEF CmNoTimeout
<1>9. CASE CmPendingTimeout BY <1>9 DEF CmPendingTimeout
<1>10. CASE CmKeepaliveTimeout BY <1>10 DEF CmKeepaliveTimeout
<1> QED BY <1>1, <1>2, <1>3, <1>4, <1>5, <1>6, <1>7, <1>8, <1>9, <1>10
        DEF ManagerStep, Timeouts

LEMMA CorePacket == ASSUME Core, NEW s \in Ids, CmPacket(s) PROVE Core'
  BY DEF Core, ValuesOK, Positions, DropNotNested, CmPacket,
     CmRest, world, locals, usbVars, slots, flags

Usb == UsbStep \/ UsbFound \/ UsbNotReady \/ UsbActivate \/ UsbEof \/ UsbSendFails

LEMMA CoreUsb == ASSUME Core, Usb PROVE Core'
<1> USE DEF Core, ValuesOK, Positions, DropNotNested,
            UsbRest, world, locals, usbVars, slots, flags
<1>1. CASE UsbFound BY <1>1 DEF UsbFound
<1>2. CASE UsbNotReady BY <1>2 DEF UsbNotReady
<1>3. CASE UsbActivate BY <1>3 DEF UsbActivate
<1>4. CASE UsbClaim BY <1>4 DEF UsbClaim
<1>5. CASE UsbEof BY <1>5 DEF UsbEof
<1>6. CASE UsbCheck BY <1>6 DEF UsbCheck
<1>9. CASE UsbRelease BY <1>9 DEF UsbRelease
<1>7. CASE UsbSendFails BY <1>7 DEF UsbSendFails
<1>8. CASE UsbSendErrorStore BY <1>8 DEF UsbSendErrorStore
<1> QED BY <1>1, <1>2, <1>3, <1>4, <1>5, <1>6, <1>7, <1>8, <1>9 DEF Usb, UsbStep

LEMMA CoreKept == ASSUME Core, [Next]_vars PROVE Core'
<1>1. CASE UNCHANGED vars
  BY <1>1 DEF vars, Core, ValuesOK, Positions, DropNotNested,
     world, locals, usbVars, slots, flags
<1> QED
  BY <1>1, CoreDrop, CorePairing, CoreControl, CoreManager, CorePacket, CoreUsb
  DEF Next, Usb

-----------------------------------------------------------------------------
(* has_active_client always has someone to answer for it. *)

LEMMA BackedDrop ==
    ASSUME Core, ActiveIsBacked, NEW t \in Thread, DropStep(t)
    PROVE ActiveIsBacked'
<1> USE DEF Core, ValuesOK, Positions, ActiveIsBacked, TearingDown,
            DropGo, DropRest, usbVars, slots
<1>1. CASE DropAddr(t) BY <1>1 DEF DropAddr
<1>2. CASE DropKey(t) BY <1>2 DEF DropKey
<1>3. CASE DropExpected(t) BY <1>3 DEF DropExpected
<1>4. CASE DropPending(t) BY <1>4 DEF DropPending
<1>5. CASE DropBusy(t) BY <1>5 DEF DropBusy
<1>6. CASE DropUsb(t) BY <1>6 DEF DropUsb
<1>7. CASE DropActive(t) BY <1>7 DEF DropActive
<1> QED BY <1>1, <1>2, <1>3, <1>4, <1>5, <1>6, <1>7 DEF DropStep

\* A call of drop_network_client by a thread that is not in it takes no other
\* thread out of it, nor does it take one past its check.
LEMMA CallKeepsTearingDown ==
    ASSUME ValuesOK, NEW t \in Thread, NEW s, drop[t] = "no", DropCall(t, s),
           UNCHANGED usb
    PROVE TearingDown' <=> TearingDown
  BY DEF ValuesOK, TearingDown, DropCall

LEMMA BackedKept ==
    ASSUME Core, ActiveIsBacked, [Next]_vars PROVE ActiveIsBacked'
<1> USE DEF Core, Positions, DropNotNested, ActiveIsBacked,
            world, locals, usbVars, slots
<1> DEFINE SameClient == UNCHANGED <<hasActive, addr, usb>>
<1>1. ASSUME SameClient, UNCHANGED drop PROVE ActiveIsBacked'
  BY <1>1 DEF TearingDown
<1>2. ASSUME SameClient, NEW t \in Thread, NEW s, drop[t] = "no", DropCall(t, s)
      PROVE ActiveIsBacked'
  BY <1>2, CallKeepsTearingDown
<1>3. CASE PairingStep
  <2>1. SameClient BY <1>3 DEF PairingStep, PtAccept, PtReserve, PtPending, PtId,
        PtHandshakeOk, PtHandshakeFail, PtPublish, PtSpawn, PtRest
  <2>2. UNCHANGED drop \/ (pt # "accept" /\ DropCall(Pairing, sid))
    BY <1>3 DEF PairingStep, PtAccept, PtReserve, PtPending, PtId,
       PtHandshakeOk, PtHandshakeFail, PtPublish, PtSpawn
  <2> QED BY <2>1, <2>2, <1>1, <1>2
<1>4. ASSUME NEW s \in Ids, ControlStep(s) \/ CtlHangUp(s) PROVE ActiveIsBacked'
  <2>1. SameClient BY <1>4 DEF ControlStep, CtlStale, CtlExit, CtlHangUp, CtlRest
  <2>2. UNCHANGED drop \/ (ctl[s] = "exit" /\ DropCall(s, s))
    BY <1>4 DEF ControlStep, CtlStale, CtlExit, CtlHangUp
  <2> QED BY <2>1, <2>2, <1>1, <1>2
<1>5. CASE ManagerStep
  <2>1. CASE CmRegister BY <2>1 DEF CmRegister, CmRest, ValuesOK, TearingDown
  <2>2. CASE CmActivate BY <2>2 DEF CmActivate, CmRest, TearingDown
  <2>3. CASE ~CmRegister /\ ~CmActivate
    <3>1. SameClient /\ UNCHANGED drop
      BY <1>5, <2>3 DEF ManagerStep, CmTake, CmInstallKey, CmInstallIp, CmQuiet,
         CmMark, CmNoTimeout, CmPass, CmRest
    <3> QED BY <3>1, <1>1
  <2> QED BY <2>1, <2>2, <2>3
<1>6. CASE Timeouts
  <2>1. SameClient /\ DropCall(Manager, cmSid) /\ drop[Manager] = "no"
    BY <1>6 DEF Timeouts, CmPendingTimeout, CmKeepaliveTimeout, CmForget, CmRest, CmReady
  <2> QED BY <2>1, <1>2
<1>7. ASSUME NEW s \in Ids, CmPacket(s) PROVE ActiveIsBacked'
  BY <1>7 DEF CmPacket, CmRest, TearingDown
<1>8. CASE Usb
  BY <1>8 DEF Usb, UsbStep, UsbFound, UsbNotReady, UsbActivate, UsbClaim, UsbEof,
     UsbCheck, UsbRelease, UsbSendFails, UsbSendErrorStore, UsbRest, TearingDown
<1>9. CASE UNCHANGED vars
  BY <1>9, <1>1 DEF vars
<1> QED BY <1>3, <1>4, <1>5, <1>6, <1>7, <1>8, <1>9, BackedDrop DEF Next, Usb

-----------------------------------------------------------------------------
(* A registered client has has_active_client. *)

LEMMA KeptDrop ==
    ASSUME Core, FlagKept, NEW t \in Thread, DropStep(t) PROVE FlagKept'
<1> USE DEF Core, ValuesOK, FlagKept, ClientKeepsFlag, TearingDown, DropGo, DropRest,
            locals, usbVars, slots
<1>1. CASE DropAddr(t) BY <1>1 DEF DropAddr
<1>2. CASE DropKey(t) BY <1>2 DEF DropKey
<1>3. CASE DropExpected(t) BY <1>3 DEF DropExpected
<1>4. CASE DropPending(t) BY <1>4 DEF DropPending
<1>5. CASE DropBusy(t) BY <1>5 DEF DropBusy
<1>6. CASE DropUsb(t) BY <1>6 DEF DropUsb
<1>7. CASE DropActive(t) BY <1>7 DEF DropActive
<1> QED BY <1>1, <1>2, <1>3, <1>4, <1>5, <1>6, <1>7 DEF DropStep

LEMMA KeptManager ==
    ASSUME Core, FlagKept, ManagerStep PROVE FlagKept'
<1> USE DEF Core, ValuesOK, Positions, DropNotNested, FlagKept, ClientKeepsFlag,
            TearingDown, CmRest, locals, usbVars, slots
<1>1. CASE CmTake BY <1>1 DEF CmTake
<1>2. CASE CmInstallKey BY <1>2 DEF CmInstallKey
<1>3. CASE CmInstallIp BY <1>3 DEF CmInstallIp
<1>4. CASE CmQuiet BY <1>4 DEF CmQuiet
<1>5. CASE CmRegister BY <1>5 DEF CmRegister
<1>6. CASE CmMark BY <1>6 DEF CmMark
<1>7. CASE CmActivate BY <1>7 DEF CmActivate
<1>8. CASE CmNoTimeout BY <1>8 DEF CmNoTimeout, CmPass
<1> QED BY <1>1, <1>2, <1>3, <1>4, <1>5, <1>6, <1>7, <1>8 DEF ManagerStep

LEMMA KeptKept ==
    ASSUME Core, FlagKept, [Next]_vars PROVE FlagKept'
<1> USE DEF Core, Positions, DropNotNested, FlagKept, ClientKeepsFlag,
            world, locals, usbVars, slots
<1> DEFINE SameFlag == UNCHANGED <<hasActive, addr, usb, late>> /\ cm' = cm
<1>1. ASSUME SameFlag, UNCHANGED drop PROVE FlagKept'
  BY <1>1 DEF TearingDown
<1>2. ASSUME SameFlag, NEW t \in Thread, NEW s, drop[t] = "no", DropCall(t, s)
      PROVE FlagKept'
  BY <1>2, CallKeepsTearingDown
<1>3. CASE PairingStep
  <2>1. SameFlag BY <1>3 DEF PairingStep, PtAccept, PtReserve, PtPending, PtId,
        PtHandshakeOk, PtHandshakeFail, PtPublish, PtSpawn, PtRest
  <2>2. UNCHANGED drop \/ (pt # "accept" /\ DropCall(Pairing, sid))
    BY <1>3 DEF PairingStep, PtAccept, PtReserve, PtPending, PtId,
       PtHandshakeOk, PtHandshakeFail, PtPublish, PtSpawn
  <2> QED BY <2>1, <2>2, <1>1, <1>2
<1>4. ASSUME NEW s \in Ids, ControlStep(s) \/ CtlHangUp(s) PROVE FlagKept'
  <2>1. SameFlag BY <1>4 DEF ControlStep, CtlStale, CtlExit, CtlHangUp, CtlRest
  <2>2. UNCHANGED drop \/ (ctl[s] = "exit" /\ DropCall(s, s))
    BY <1>4 DEF ControlStep, CtlStale, CtlExit, CtlHangUp
  <2> QED BY <2>1, <2>2, <1>1, <1>2
<1>5. CASE Timeouts
  <2>1. UNCHANGED <<hasActive, addr, usb, late>> /\ DropCall(Manager, cmSid)
        /\ drop[Manager] = "no" /\ cm \notin {"mark", "activate"}
    BY <1>5 DEF Timeouts, CmPendingTimeout, CmKeepaliveTimeout, CmForget, CmRest, CmReady
  <2>2. TearingDown' <=> TearingDown BY <2>1, CallKeepsTearingDown
  <2> QED BY <2>1, <2>2
<1>6. ASSUME NEW s \in Ids, CmPacket(s) PROVE FlagKept'
  BY <1>6 DEF CmPacket, CmRest, TearingDown
<1>7. CASE Usb
  BY <1>7 DEF Usb, UsbStep, UsbFound, UsbNotReady, UsbActivate, UsbClaim, UsbEof,
     UsbCheck, UsbRelease, UsbSendFails, UsbSendErrorStore, UsbRest, TearingDown
<1>8. CASE UNCHANGED vars
  BY <1>8, <1>1 DEF vars
<1> QED BY <1>3, <1>4, <1>5, <1>6, <1>7, <1>8, KeptDrop, KeptManager DEF Next, Usb

-----------------------------------------------------------------------------
(* The theorems *)

\* GateInv holds of every execution of the gate's threads.
THEOREM GateInvariant == Spec => []GateInv
<1>1. ASSUME GateInv, [Next]_vars PROVE GateInv'
  BY <1>1, FlagsKept, CoreKept, BackedKept, KeptKept DEF GateInv, TypeOK, Core
<1> QED BY <1>1, InitInv, PTL DEF Spec

\* Every atomic and local of the gate keeps its type.
THEOREM TypeCorrect == Spec => []TypeOK
  BY GateInvariant, PTL DEF GateInv

\* has_active_client is never set with no client on either transport and no
\* teardown under way, however the threads interleave.
THEOREM ActiveBacked == Spec => []ActiveIsBacked
  BY GateInvariant, PTL DEF GateInv

\* A client that registers while no teardown is between its check and its swap
\* keeps has_active_client until its address is cleared, whatever the threads of
\* other sessions and of USB do.
THEOREM FlagIsClients == Spec => []ClientKeepsFlag
<1>1. GateInv => ClientKeepsFlag BY Zenon DEF GateInv, FlagKept, ClientKeepsFlag
<1> QED BY <1>1, GateInvariant, PTL
=============================================================================
