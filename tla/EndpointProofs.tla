----------------------------- MODULE EndpointProofs -----------------------------
(***************************************************************************)
(* Proofs about a client's endpoints, Peripherals, Touch and Keys, which    *)
(* share nothing: for any number of clients of any manners, for any number  *)
(* of fingers, slots and gestures, and for any keyboard, any length of the  *)
(* daemon's queue and any number of presses.                                *)
(***************************************************************************)
EXTENDS MCPeripherals, LadderProofs, TLAPS
LOCAL INSTANCE SequencesExt
LOCAL INSTANCE Folds

-----------------------------------------------------------------------------
(* Peripherals: a device that is on while nobody is registered is one that  *)
(* the callback which runs, or one that waits, has yet to remove.           *)

\* The numbers of clients, and who waits for a callback.
ClientsCounted ==
    /\ sid \in 0..MaxSessions /\ phase \in {"none", "paired", "active"}
    /\ cbs \subseteq 1..sid /\ cb \in cbs \cup {None}
    /\ cbPc \in {"camera", "mic", "pads", "flag", "sink"}
    /\ cb = None => cbPc = "camera"
    /\ phase # "none" => sid \notin cbs /\ sid # 0

\* A callback that waits, or one that runs and is not past these places.
Due(places) == (\E s \in cbs : s # cb) \/ (cb # None /\ cbPc \in places)

Removing ==
    ~stray /\ phase # "active" =>
        /\ cam # None => Due({"camera"})
        /\ mic => Due({"camera", "mic"})
        /\ pad => Due({"camera", "mic", "pads"})
        /\ enabled => Due({"camera", "mic", "pads", "flag"})
        /\ id # 0 => Due({"camera", "mic", "pads", "flag", "sink"})

PeriphInv == ClientsCounted /\ Removing

Switches == <<cam, mic, pad, enabled, id, stray>>

LEMMA PeriphStarts == Init => PeriphInv
BY PeripheralsAssumption DEF Init, PeriphInv, ClientsCounted, Removing, None

\* A handler of a session touches devices only, and leaves its mark.
LEMMA HandlerStep ==
    ASSUME PeriphInv, NEW s \in Ids, Command(s) \/ Continue(s) PROVE PeriphInv'
<1>1. UNCHANGED <<clients, callback>> /\ stray' = (stray \/ ~(Current(s) /\ phase = "active"))
  BY DEF Command, Continue, SpeakerOn, SpeakerOff, CameraOn, CameraOff, MicOn, MicOff, Gamepad,
         OnCreate, OnFlag, OffSink, CamCheck, CamCreate, MicCreate, Read, Step, Rest
<1>2. ClientsCounted' BY <1>1 DEF PeriphInv, ClientsCounted, clients, callback
<1>3. ~stray' => phase' = "active" BY <1>1 DEF clients
<1> QED BY <1>2, <1>3 DEF PeriphInv, Removing

\* Clients come, register and go.
LEMMA ClientStep ==
    ASSUME PeriphInv,
           \/ Pair \/ Register \/ Timeout \/ \E s \in Ids : HangUp(s) \/ Check(s)
    PROVE  PeriphInv'
<1> USE PeripheralsAssumption DEF PeriphInv
<1>0. UNCHANGED <<Switches, cb, cbPc>>
  BY DEF Pair, Register, Timeout, HangUp, Check, Drop, Devices, camera, sink, callback, Switches
<1>1. CASE Pair
  <2>1. ClientsCounted' BY <1>1 DEF Pair, ClientsCounted, callback, None
  <2>2. UNCHANGED cbs /\ phase' # "active" /\ phase # "active" BY <1>1 DEF Pair, callback
  <2> QED BY <1>0, <2>1, <2>2 DEF Removing, Due, Switches
<1>2. CASE Register
  <2>1. ClientsCounted' /\ phase' = "active" BY <1>2 DEF Register, ClientsCounted, callback, None
  <2> QED BY <2>1 DEF Removing
<1>3. CASE Drop /\ phase # "none"
  <2>1. ClientsCounted' BY <1>0, <1>3 DEF Drop, ClientsCounted, None
  <2>2. CASE phase = "active"
    <3>1. sid \in cbs' /\ sid # cb' BY <1>0, <1>3, <2>2 DEF Drop, ClientsCounted, None
    <3>2. \A places : Due(places)' BY <3>1 DEF Due
    <3> QED BY <2>1, <3>1 DEF Removing, Due
  <2>3. CASE phase # "active"
    <3>1. cbs' = cbs BY <1>3, <2>3 DEF Drop
    <3> QED BY <1>0, <2>1, <2>3, <3>1 DEF Removing, Due, Switches
  <2> QED BY <2>1, <2>2, <2>3
<1>4. CASE UNCHANGED <<clients, cbs>>
  <2>1. ClientsCounted' BY <1>0, <1>4 DEF ClientsCounted, clients
  <2> QED BY <1>0, <1>4, <2>1 DEF Removing, Due, Switches, clients
<1>5. CASE Timeout BY <1>3, <1>5 DEF Timeout
<1>6. ASSUME NEW s \in Ids, HangUp(s) \/ Check(s) PROVE PeriphInv'
  BY <1>3, <1>4, <1>6 DEF HangUp, Check, Current, callback
<1> QED BY <1>1, <1>2, <1>5, <1>6

\* The callback: what it has passed is off, unless another one waits.
LEMMA CallbackStep == ASSUME PeriphInv, Callback PROVE PeriphInv'
<1> USE DEF PeriphInv
<1>1. ASSUME NEW s \in cbs, CbEnter(s) PROVE PeriphInv'
  <2>1. ClientsCounted' BY <1>1 DEF CbEnter, CbRest, ClientsCounted, clients, None
  <2>2. cb' = s /\ cb' # None /\ cbPc' = "camera"
    BY <1>1 DEF CbEnter, ClientsCounted, None
  <2> QED BY <2>1, <2>2 DEF Removing, Due
<1>2. CASE CbCamera
  <2>1. ClientsCounted' BY <1>2 DEF CbCamera, CbGo, CbRest, ClientsCounted, clients
  <2> QED BY <1>2, <2>1 DEF CbCamera, CbGo, CbRest, clients, sink, Removing, Due
<1>3. CASE CbMic
  <2>1. ClientsCounted' BY <1>3 DEF CbMic, CbGo, CbRest, ClientsCounted, clients
  <2> QED BY <1>3, <2>1 DEF CbMic, CbGo, CbRest, clients, camera, sink, Removing, Due
<1>4. CASE CbPads
  <2>1. ClientsCounted' BY <1>4 DEF CbPads, CbGo, CbRest, ClientsCounted, clients
  <2> QED BY <1>4, <2>1 DEF CbPads, CbGo, CbRest, clients, camera, sink, Removing, Due
<1>5. CASE CbFlag
  <2>1. ClientsCounted' BY <1>5 DEF CbFlag, CbGo, CbRest, ClientsCounted, clients
  <2> QED BY <1>5, <2>1 DEF CbFlag, CbGo, CbRest, clients, camera, Removing, Due
<1>6. CASE CbSink
  <2>1. ClientsCounted' BY <1>6 DEF CbSink, CbGo, CbRest, ClientsCounted, clients, None
  <2>2. None \notin cbs BY DEF ClientsCounted, None
  <2> QED BY <1>6, <2>1, <2>2 DEF CbSink, CbGo, CbRest, clients, camera, RemoveSink, Removing, Due
<1> QED BY <1>1, <1>2, <1>3, <1>4, <1>5, <1>6 DEF Callback

LEMMA PeriphSteps == PeriphInv /\ [Next]_vars => PeriphInv'
<1> SUFFICES ASSUME PeriphInv, [Next]_vars PROVE PeriphInv' OBVIOUS
<1>1. CASE UNCHANGED <<clients, callback, camera, mic, pad, sink, stray>>
  BY <1>1 DEF PeriphInv, ClientsCounted, Removing, Due, clients, callback, camera, sink
<1>2. CASE Audio \/ AudioFails
  BY <1>1, <1>2 DEF Audio, AudioFails, AudioStart, AudioWatchdog, AudioEnd, AudioRest
<1>3. CASE UNCHANGED vars BY <1>1, <1>3 DEF vars
<1> QED BY <1>2, <1>3, HandlerStep, ClientStep, CallbackStep DEF Next

\* Nothing that a registered client switched on is left when all is quiet: each of
\* its devices is removed by a callback that is still to come or to end
\* (main.rs, lifecycle callbacks), however clients and callbacks interleave.
THEOREM NothingIsLeft == Spec => []RemovedOnDisconnect
<1>1. PeriphInv => RemovedOnDisconnect
  BY DEF PeriphInv, ClientsCounted, Removing, Due, RemovedOnDisconnect, Quiet
<1> QED BY <1>1, PeriphStarts, PeriphSteps, PTL DEF Spec

LEMMA TypesStart == Init => TypeOK
<1> SUFFICES ASSUME Init PROVE TypeOK OBVIOUS
<1>1. /\ ctl \in [Ids -> {"gone", "check", "read"} \cup Handlers]
      /\ want \in [Ids -> Configs \cup {None}] /\ changed \in [Ids -> BOOLEAN]
  BY DEF Init
<1>2. sid \in 0..MaxSessions /\ id \in 0..1 BY PeripheralsAssumption DEF Init
<1>3. {mic, pad, enabled, halt, stray} \subseteq BOOLEAN BY DEF Init
<1>4. /\ phase = "none" /\ cbs = {} /\ cb = None /\ cbPc = "camera" /\ manners \in Manners
      /\ cam = None /\ camConfig = None /\ audio = "wait" /\ speaker = None
  BY DEF Init
<1> QED BY <1>1, <1>2, <1>3, <1>4 DEF TypeOK

\* A handler stores what its message carries or what could be made.
LEMMA TypesHandled ==
    ASSUME TypeOK, NEW s \in Ids, Command(s) \/ Continue(s) PROVE TypeOK'
<1> USE PeripheralsAssumption DEF TypeOK, Handlers, None, Step, Read, Rest, Locals, Forgets, Done,
        RemoveSink, clients, callback, camera, sink, capture
<1>1. CASE SpeakerOn(s) BY <1>1 DEF SpeakerOn
<1>2. CASE SpeakerOff(s) BY <1>2 DEF SpeakerOff
<1>3. ASSUME NEW c \in Configs, CameraOn(s, c) PROVE TypeOK' BY <1>3 DEF CameraOn
<1>4. CASE CameraOff(s) BY <1>4 DEF CameraOff
<1>5. CASE MicOn(s) BY <1>5 DEF MicOn
<1>6. CASE MicOff(s) BY <1>6 DEF MicOff
<1>7. CASE Gamepad(s) BY <1>7 DEF Gamepad
<1>8. CASE OnCreate(s)
  <2>1. Step(s, "on_create", "on_flag") \/ Step(s, "on_create", "on_failed") BY <1>8 DEF OnCreate
  <2>2. ctl' \in [Ids -> {"gone", "check", "read"} \cup Handlers] BY <2>1
  <2>3. id' = 1 \/ id' = id BY <1>8 DEF OnCreate
  <2>4. id \in 0..1 /\ 1 \in 0..1 OBVIOUS
  <2>5. stray' \in BOOLEAN BY <2>1
  <2> QED BY <1>8, <2>2, <2>3, <2>4, <2>5 DEF OnCreate
<1>9. CASE OnFlag(s) BY <1>9 DEF OnFlag
<1>10. CASE OffSink(s) BY <1>10 DEF OffSink
<1>11. CASE CamCheck(s) BY <1>11 DEF CamCheck
<1>12. CASE CamCreate(s) BY <1>12 DEF CamCreate
<1>13. CASE MicCreate(s) BY <1>13 DEF MicCreate
<1> QED
  BY <1>1, <1>2, <1>3, <1>4, <1>5, <1>6, <1>7, <1>8, <1>9, <1>10, <1>11, <1>12, <1>13
  DEF Command, Continue

\* Who is dropped has a number, so the callback's sessions are sessions.
LEMMA TypesStep == TypeOK /\ PeriphInv /\ [Next]_vars => TypeOK'
<1> SUFFICES ASSUME TypeOK, PeriphInv, [Next]_vars PROVE TypeOK' OBVIOUS
<1>1. phase # "none" => sid \in Ids
  BY PeripheralsAssumption DEF TypeOK, PeriphInv, ClientsCounted, Ids
<1>2. CASE Pair
  <2>1. sid + 1 \in Ids BY <1>2, PeripheralsAssumption DEF Pair, TypeOK, Ids
  <2> QED
    BY <1>2, <2>1, PeripheralsAssumption
    DEF Pair, TypeOK, callback, Devices, camera, sink, capture, Ids
<1>3. CASE Register
  BY <1>3 DEF Register, TypeOK, threads, callback, Devices, camera, sink, capture
<1>4. ASSUME Drop, phase # "none", UNCHANGED <<want, changed>>,
             ctl' = ctl \/ \E s \in Ids : ctl' = [ctl EXCEPT ![s] = "gone"]
      PROVE  TypeOK'
  BY <1>1, <1>4 DEF Drop, TypeOK, Devices, camera, sink, capture
<1>5. CASE Timeout BY <1>4, <1>5 DEF Timeout, threads
<1>6. ASSUME NEW s \in Ids, HangUp(s) PROVE TypeOK'
  <2>1. CASE Current(s) BY <1>4, <1>6, <2>1 DEF HangUp, Current
  <2>2. CASE ~Current(s)
    BY <1>6, <2>2 DEF HangUp, TypeOK, clients, callback, Devices, camera, sink, capture
  <2> QED BY <2>1, <2>2
<1>7. ASSUME NEW s \in Ids, Check(s) PROVE TypeOK'
  BY <1>7 DEF Check, TypeOK, clients, callback, Devices, camera, sink, capture
<1>8. CASE Callback
  <2> USE <1>8 DEF TypeOK, CbRest, CbGo, RemoveSink, None, clients, threads, camera, sink, capture
  <2>1. ASSUME NEW s \in cbs, CbEnter(s) PROVE TypeOK' BY <2>1 DEF CbEnter
  <2>2. CASE CbCamera BY <2>2 DEF CbCamera
  <2>3. CASE CbMic BY <2>3 DEF CbMic
  <2>4. CASE CbPads BY <2>4 DEF CbPads
  <2>5. CASE CbFlag BY <2>5 DEF CbFlag
  <2>6. CASE CbSink BY <2>6 DEF CbSink
  <2> QED BY <2>1, <2>2, <2>3, <2>4, <2>5, <2>6 DEF Callback
<1>9. CASE Audio \/ AudioFails
  BY <1>9 DEF Audio, AudioFails, AudioStart, AudioWatchdog, AudioEnd, AudioRest, TypeOK,
     clients, threads, callback, camera, sink
<1>10. CASE UNCHANGED vars
  BY <1>10 DEF vars, TypeOK, clients, threads, callback, camera, sink, capture
<1> QED
  BY <1>2, <1>3, <1>5, <1>6, <1>7, <1>8, <1>9, <1>10, TypesHandled DEF Next

\* Every device, switch and thread keeps its type, whatever fails to be made
\* (handle_control_message_data, the callback and run_audio_capture).
THEOREM PeripheralsTyped == Spec => []TypeOK
<1>1. PeriphInv /\ TypeOK /\ [Next]_vars => (PeriphInv /\ TypeOK)'
  BY PeriphSteps, TypesStep
<1> QED BY <1>1, PeriphStarts, TypesStart, PTL DEF Spec

-----------------------------------------------------------------------------
(* The thread of a long press knows its gesture only by the generation that *)
(* was current when it was armed; that this is enough is what is shown.     *)

Timer == [of : Nat, generation : Nat]

\* Numbers and timers have their types.
GesturesCounted == generation \in Nat /\ gestures \in Nat /\ armed \subseteq Timer

\* No timer is of a generation to come, and while a finger is waiting, a timer
\* of the present one is of the present gesture.
TimersKnow ==
    /\ \A t \in armed : t.generation <= generation
    /\ mode = "pending" => \A t \in armed : t.generation = generation => t.of = gestures

\* The generation passes whenever a finger stops waiting but by its timer.
Waiting == mode \in {"idle", "pending", "dragging", "scrolling", "secondary"}

GestureInv == GesturesCounted /\ TimersKnow /\ Waiting /\ GesturesBalance

LEMMA GesturesStart == TouchInit => GestureInv
<1> SUFFICES ASSUME TouchInit PROVE GestureInv OBVIOUS
<1>1. generation = 0 /\ gestures = 0 /\ armed = {} /\ mode = "idle" /\ left = FALSE /\ scroll = FALSE
  BY Zenon DEF TouchInit
<1> QED BY <1>1 DEF GestureInv, GesturesCounted, TimersKnow, Waiting, GesturesBalance

\* A packet on macOS, whatever fingers it leaves on the glass.
LEMMA PacketKeeps ==
    ASSUME NEW packet, MacTouch(packet), GestureInv PROVE GestureInv'
<1> DEFINE glass == Applied(contacts, packet)
           lift == LiftOf(packet)
<1> USE DEF GestureInv, GesturesCounted, TimersKnow, Waiting, GesturesBalance, Marks, Still
<1>1. CASE MacPress(glass)
  <2>1. /\ mode = "idle" /\ mode' = "pending"
        /\ generation' = generation + 1 /\ gestures' = gestures + 1
        /\ armed' = armed \cup {[of |-> gestures', generation |-> generation']}
        /\ UNCHANGED <<left, scroll, pressedBy>>
    BY <1>1 DEF MacPress
  <2>2. GesturesCounted' /\ TimersKnow'
    BY <2>1 DEF Timer
  <2> QED BY <2>1, <2>2
<1>2. CASE MacScrollBegins(glass)
  <2>1. /\ mode \in {"idle", "pending"} /\ mode' = "scrolling" /\ scroll' = TRUE
        /\ generation' \in {generation, generation + 1}
        /\ UNCHANGED <<armed, gestures, pressedBy, left>>
    BY <1>2 DEF MacScrollBegins
  <2>2. GesturesCounted' /\ TimersKnow' BY <2>1 DEF Timer
  <2>3. Waiting' /\ GesturesBalance' BY <2>1
  <2> QED BY <2>2, <2>3
<1>3. CASE MacTap(glass) BY <1>3 DEF MacTap, Timer
<1>4. CASE MacDragBegins(glass)
  <2>1. /\ mode = "pending" /\ mode' = "dragging" /\ left' = TRUE
        /\ generation' = generation + 1
        /\ UNCHANGED <<armed, gestures, pressedBy, scroll>>
    BY <1>4 DEF MacDragBegins
  <2>2. GesturesCounted' /\ TimersKnow' BY <2>1 DEF Timer
  <2>3. Waiting' /\ GesturesBalance' BY <2>1
  <2> QED BY <2>2, <2>3
<1>5. CASE MacWaits(glass) BY <1>5 DEF MacWaits
<1>6. CASE MacDrops(glass, lift) BY <1>6 DEF MacDrops
<1>7. CASE MacDrags(glass) BY <1>7 DEF MacDrags
<1>8. CASE MacScrolls(glass)
  <2>1. /\ mode = "scrolling" /\ scroll' = (Count(glass) >= 2)
        /\ mode' = IF Count(glass) >= 2 THEN "scrolling" ELSE "idle"
    BY <1>8, Zenon DEF MacScrolls
  <2>2. UNCHANGED <<anchor, armed, gestures, pressedBy, generation, left>>
    BY <1>8 DEF MacScrolls
  <2>3. GesturesCounted' /\ TimersKnow' /\ Waiting' BY <2>1, <2>2
  <2>4. GesturesBalance'
    <3>1. CASE Count(glass) >= 2
      <4>1. mode' = "scrolling" /\ scroll' = TRUE BY <3>1, <2>1, Zenon
      <4> QED BY <4>1, <2>1, <2>2
    <3>2. CASE ~(Count(glass) >= 2)
      <4>1. mode' = "idle" /\ scroll' = FALSE
        <5>1. (Count(glass) >= 2) = FALSE BY <3>2
        <5> QED BY <5>1, <2>1, Zenon
      <4> QED BY <4>1, <2>1, <2>2
    <3> QED BY <3>1, <3>2
  <2> QED BY <2>3, <2>4
<1>9. CASE MacSwallows(glass, lift) BY <1>9 DEF MacSwallows
<1> QED BY <1>1, <1>2, <1>3, <1>4, <1>5, <1>6, <1>7, <1>8, <1>9, Zenon DEF MacTouch

\* The timer of a gesture that is over finds another generation.
LEMMA TimerKeeps == ASSUME NEW t \in armed, LongPress(t), GestureInv PROVE GestureInv'
<1> USE DEF GestureInv, GesturesCounted, TimersKnow, Waiting, GesturesBalance
<1>1. armed' = armed \ {t} /\ UNCHANGED <<generation, gestures, left, scroll>>
  BY DEF LongPress
<1>2. CASE mode = "pending" /\ generation = t.generation
  <2>1. mode' = "secondary" /\ pressedBy' = t.of BY <1>2 DEF LongPress
  <2> QED BY <1>1, <1>2, <2>1
<1>3. CASE ~(mode = "pending" /\ generation = t.generation)
  <2>1. UNCHANGED <<mode, pressedBy>> BY <1>3 DEF LongPress
  <2> QED BY <1>1, <2>1
<1> QED BY <1>2, <1>3

LEMMA GesturesKept == ASSUME GestureInv, [TouchNext]_touchVars PROVE GestureInv'
<1>1. ASSUME UNCHANGED macos PROVE GestureInv'
  BY <1>1 DEF macos, GestureInv, GesturesCounted, TimersKnow, Waiting, GesturesBalance
<1>2. ASSUME NEW packet, Receives(packet) PROVE GestureInv'
  <2>1. CASE MacTouch(packet) BY <2>1, PacketKeeps
  <2>2. CASE HandleContacts(packet) BY <2>2, <1>1, Zenon DEF HandleContacts
  <2>3. CASE WindowsTouch(packet) BY <2>3, <1>1, Zenon DEF WindowsTouch
  <2> QED BY <1>2, <2>1, <2>2, <2>3, Zenon DEF Receives
<1>3. CASE TouchKeepalive BY <1>3, <1>1, Zenon DEF TouchKeepalive
<1>4. CASE TouchEnds BY <1>4, <1>1, Zenon DEF TouchEnds
<1>5. ASSUME NEW t \in armed, LongPress(t) PROVE GestureInv' BY <1>5, TimerKeeps
<1>6. CASE UNCHANGED touchVars BY <1>6, <1>1, Zenon DEF touchVars
<1> QED BY <1>2, <1>3, <1>4, <1>5, <1>6, Zenon DEF TouchNext

\* The button and the scroll phase follow the gesture, and no timer of an
\* earlier gesture clicks in a later one, in any order of packets, timers and
\* sessions that end with fingers on the glass.
THEOREM GesturesBalanced == TouchSpec => []GesturesBalance
<1>1. TouchInit => GestureInv BY GesturesStart
<1>2. GestureInv /\ [TouchNext]_touchVars => GestureInv' BY GesturesKept
<1>3. GestureInv => GesturesBalance BY DEF GestureInv
<1> QED BY <1>1, <1>2, <1>3, PTL DEF TouchSpec

-----------------------------------------------------------------------------
(* A packet is folded from its first contact to its last one.               *)

\* What one contact does: to the touchscreen, or to the slots.
Turn(by, m, c) ==
    IF by = "sent" THEN SendTouch(m, c)
    ELSE [m EXCEPT ![c.slot] = IF c.event = "up" THEN Nobody ELSE Place(c.at)]

FoldedAt(by, f, base, packet, s) ==
    IF s = {} THEN base ELSE Turn(by, f[s \ {Max(s)}], packet[Max(s)])
IsFold(by, f, base, packet, n) ==
    f = [s \in SUBSET (1..n) |-> FoldedAt(by, f, base, packet, s)]

LEMMA LastIsMax == ASSUME NEW n \in Nat, NEW s \in SUBSET (1..(n + 1)), n + 1 \in s PROVE Max(s) = n + 1
<1>1. \A y \in s : n + 1 >= y OBVIOUS
<1>2. \A x \in s : (\A y \in s : x >= y) => x = n + 1 OBVIOUS
<1> QED BY <1>1, <1>2 DEF Max

LEMMA FoldExists == ASSUME NEW by, NEW base, NEW packet, NEW n \in Nat PROVE \E f : IsFold(by, f, base, packet, n)
<1> DEFINE S == {m \in Nat : \E f : IsFold(by, f, base, packet, m)}
<1>1. 0 \in S
  <2> DEFINE f == [s \in SUBSET (1..0) |-> base]
  <2>1. \A s \in SUBSET (1..0) : f[s] = FoldedAt(by, f, base, packet, s) BY DEF FoldedAt
  <2>2. IsFold(by, f, base, packet, 0) BY <2>1 DEF IsFold
  <2> QED BY <2>2
<1>2. ASSUME NEW m \in S PROVE m + 1 \in S
  <2>1. m \in Nat OBVIOUS
  <2>2. PICK f : IsFold(by, f, base, packet, m) BY <1>2
  <2> DEFINE g == [s \in SUBSET (1..(m + 1)) |->
                      IF m + 1 \in s THEN Turn(by, f[s \ {m + 1}], packet[m + 1]) ELSE f[s]]
             h == [s \in SUBSET (1..(m + 1)) |-> FoldedAt(by, g, base, packet, s)]
  <2>3. \A s \in SUBSET (1..m) : f[s] = FoldedAt(by, f, base, packet, s) BY <2>2 DEF IsFold
  <2>4. \A s \in SUBSET (1..m) : s \in SUBSET (1..(m + 1)) /\ m + 1 \notin s BY <2>1
  <2>5. \A s \in SUBSET (1..m) : g[s] = f[s] BY <2>4
  <2>6. ASSUME NEW s \in SUBSET (1..(m + 1)) PROVE g[s] = FoldedAt(by, g, base, packet, s)
    <3>1. CASE m + 1 \in s
      <4>1. Max(s) = m + 1 BY <3>1, <2>1, LastIsMax
      <4>2. s \ {m + 1} \in SUBSET (1..m) BY <2>1
      <4>3. g[s \ {m + 1}] = f[s \ {m + 1}] BY <4>2, <2>5
      <4>4. g[s] = Turn(by, f[s \ {m + 1}], packet[m + 1]) BY <3>1
      <4> QED BY <3>1, <4>1, <4>3, <4>4 DEF FoldedAt
    <3>2. CASE m + 1 \notin s
      <4>1. s \in SUBSET (1..m)
        <5>1. \A i \in 1..(m + 1) : i = m + 1 \/ i \in 1..m BY <2>1
        <5> QED BY <3>2, <5>1
      <4>3. s \ {Max(s)} \in SUBSET (1..m) BY <4>1
      <4>2. g[s] = f[s] /\ g[s \ {Max(s)}] = f[s \ {Max(s)}] BY <4>1, <4>3, <2>5
      <4> QED BY <4>1, <4>2, <2>3 DEF FoldedAt
    <3> QED BY <3>1, <3>2
  <2>7. g = h BY <2>6
  <2>8. IsFold(by, g, base, packet, m + 1) BY <2>7 DEF IsFold
  <2> QED BY <2>1, <2>8
<1>3. S = Nat BY <1>1, <1>2, SetInduction
<1> QED BY <1>3

\* The states between the contacts.
IsRun(by, run, base, packet, n) ==
    run[0] = base /\ \A k \in 1..n : run[k] = Turn(by, run[k - 1], packet[k])

LEMMA FoldRuns ==
    ASSUME NEW by, NEW base, NEW packet, NEW n \in Nat, NEW f, IsFold(by, f, base, packet, n)
    PROVE  \E run : IsRun(by, run, base, packet, n) /\ f[1..n] = run[n]
<1> DEFINE run == [k \in 0..n |-> f[1..k]]
<1>1. \A s \in SUBSET (1..n) : f[s] = FoldedAt(by, f, base, packet, s) BY DEF IsFold
<1>2. run[0] = base
  <2>1. 1..0 = {} /\ {} \in SUBSET (1..n) /\ 0 \in 0..n OBVIOUS
  <2>2. f[{}] = base BY <1>1, <2>1 DEF FoldedAt
  <2> QED BY <2>1, <2>2
<1>3. ASSUME NEW k \in 1..n PROVE run[k] = Turn(by, run[k - 1], packet[k])
  <2>1. k - 1 \in Nat /\ k - 1 \in 0..n /\ k \in 0..n OBVIOUS
  <2>2. 1..k \in SUBSET (1..n) /\ k \in 1..k /\ 1..k = 1..((k - 1) + 1) OBVIOUS
  <2>3. Max(1..k) = k
    <3> DEFINE m == k - 1
    <3>1. m \in Nat /\ 1..k \in SUBSET (1..(m + 1)) /\ m + 1 \in 1..k /\ m + 1 = k BY <2>1, <2>2
    <3> HIDE DEF m
    <3> QED BY <3>1, LastIsMax
  <2>4. (1..k) \ {k} = 1..(k - 1) OBVIOUS
  <2>5. f[1..k] = Turn(by, f[1..(k - 1)], packet[k]) BY <1>1, <2>2, <2>3, <2>4 DEF FoldedAt
  <2> QED BY <2>1, <2>5
<1>4. run[n] = f[1..n] OBVIOUS
<1> QED BY <1>2, <1>3, <1>4 DEF IsRun

LEMMA AppliedRuns ==
    ASSUME NEW slots, NEW packet, NEW n \in Nat, DOMAIN packet = 1..n
    PROVE  \E run : IsRun("applied", run, slots, packet, n) /\ Applied(slots, packet) = run[n]
<1> DEFINE Body(g) ==
      [s \in SUBSET (1..n) |->
          IF s = {} THEN slots
          ELSE [g[s \ {Max(s)}] EXCEPT ![packet[Max(s)].slot] =
                   IF packet[Max(s)].event = "up" THEN Nobody ELSE Place(packet[Max(s)].at)]]
      f == CHOOSE g : g = Body(g)
<1>1. Applied(slots, packet) = f[1..n] BY DEF Applied, FoldLeft, MapThenFoldSet
<1>2. \A g : IsFold("applied", g, slots, packet, n) <=> g = Body(g)
  BY DEF IsFold, FoldedAt, Turn
<1>3. f = Body(f) BY <1>2, FoldExists
<1>4. IsFold("applied", f, slots, packet, n) BY <1>2, <1>3
<1> HIDE DEF f
<1> QED BY <1>1, <1>4, FoldRuns

LEMMA SentRuns ==
    ASSUME NEW base, NEW packet, NEW n \in Nat, DOMAIN packet = 1..n
    PROVE  \E run : IsRun("sent", run, base, packet, n) /\ FoldLeft(SendTouch, base, packet) = run[n]
<1> DEFINE Body(g) ==
      [s \in SUBSET (1..n) |->
          IF s = {} THEN base ELSE SendTouch(g[s \ {Max(s)}], packet[Max(s)])]
      f == CHOOSE g : g = Body(g)
<1>1. FoldLeft(SendTouch, base, packet) = f[1..n] BY DEF FoldLeft, MapThenFoldSet
<1>2. \A g : IsFold("sent", g, base, packet, n) <=> g = Body(g)
  BY DEF IsFold, FoldedAt, Turn
<1>3. f = Body(f) BY <1>2, FoldExists
<1>4. IsFold("sent", f, base, packet, n) BY <1>2, <1>3
<1> HIDE DEF f
<1> QED BY <1>1, <1>4, FoldRuns

-----------------------------------------------------------------------------
(* What a packet does: a contact shows at its slot what its event makes of  *)
(* what was there, and no other slot changes.                               *)

Events == {"down", "move", "up"}
IsSlots(x) == x = [s \in TouchSlots |-> x[s]]
ScreenOf(by, m) == IF by = "sent" THEN m.screen ELSE m
InStep(by, m) ==
    /\ IsSlots(ScreenOf(by, m))
    /\ by = "sent" => m.slot = m.cached /\ m.slot \in TouchSlots \cup {0}
After(by, old, c) ==
    IF c.event = "up" \/ (by = "sent" /\ c.event = "move" /\ old = Nobody) THEN Nobody ELSE Place(c.at)

IsPacket(packet, n) ==
    /\ DOMAIN packet = 1..n
    /\ \A i \in 1..n : packet[i].slot \in TouchSlots /\ packet[i].event \in Events
                       /\ packet[i].at \in 0..(WireSize - 1)
    /\ \A i, j \in 1..n : packet[i].slot = packet[j].slot => i = j

LEMMA TurnShows ==
    ASSUME NEW by \in {"sent", "applied"}, NEW m, InStep(by, m),
           NEW c, c.slot \in TouchSlots, c.event \in Events
    PROVE  /\ InStep(by, Turn(by, m, c))
           /\ ScreenOf(by, Turn(by, m, c))[c.slot] = After(by, ScreenOf(by, m)[c.slot], c)
           /\ \A s \in TouchSlots \ {c.slot} : ScreenOf(by, Turn(by, m, c))[s] = ScreenOf(by, m)[s]
<1>1. CASE by = "applied"
  BY <1>1 DEF Turn, InStep, ScreenOf, IsSlots, After
<1>2. CASE by = "sent"
  <2> DEFINE slot == IF m.cached # c.slot THEN c.slot ELSE m.slot
             shown == Shown(m.screen, slot, c)
  <2>1. slot = c.slot BY <1>2 DEF InStep
  <2>2. Turn(by, m, c) = [slot |-> slot, cached |-> c.slot, screen |-> shown]
    BY <1>2 DEF Turn, SendTouch
  <2>3. IsSlots(m.screen) BY <1>2 DEF InStep, ScreenOf
  <2>4. /\ IsSlots(shown) /\ shown[c.slot] = After(by, m.screen[c.slot], c)
        /\ \A s \in TouchSlots \ {c.slot} : shown[s] = m.screen[s]
    <3>1. CASE c.event = "up" BY <3>1, <2>1, <2>3 DEF Shown, After, IsSlots
    <3>2. CASE c.event = "down" BY <3>2, <2>1, <2>3 DEF Shown, After, IsSlots
    <3>3. CASE c.event = "move" BY <3>3, <2>1, <2>3, <1>2 DEF Shown, After, IsSlots
    <3> QED BY <3>1, <3>2, <3>3 DEF Events
  <2> HIDE DEF slot, shown
  <2>5. Turn(by, m, c).slot = slot /\ Turn(by, m, c).cached = c.slot /\ Turn(by, m, c).screen = shown
    BY <2>2
  <2> QED BY <1>2, <2>1, <2>4, <2>5 DEF InStep, ScreenOf
<1> QED BY <1>1, <1>2

\* What the first k contacts of a packet do.
ShowsUpTo(by, before, after, packet, k) ==
    /\ InStep(by, after)
    /\ \A i \in 1..k : ScreenOf(by, after)[packet[i].slot]
                          = After(by, ScreenOf(by, before)[packet[i].slot], packet[i])
    /\ \A s \in TouchSlots : (\A i \in 1..k : packet[i].slot # s)
                                => ScreenOf(by, after)[s] = ScreenOf(by, before)[s]

LEMMA RunShows ==
    ASSUME NEW by \in {"sent", "applied"}, NEW base, InStep(by, base), NEW n \in Nat,
           NEW packet, IsPacket(packet, n), NEW run, IsRun(by, run, base, packet, n)
    PROVE  ShowsUpTo(by, base, run[n], packet, n)
<1> DEFINE S == {k \in Nat : k <= n => ShowsUpTo(by, base, run[k], packet, k)}
<1>1. 0 \in S BY DEF ShowsUpTo, IsRun
<1>2. ASSUME NEW k \in S PROVE k + 1 \in S
  <2>1. SUFFICES ASSUME k + 1 <= n PROVE ShowsUpTo(by, base, run[k + 1], packet, k + 1) OBVIOUS
  <2> DEFINE c == packet[k + 1]
  <2>2. k \in Nat /\ k + 1 \in 1..n /\ (k + 1) - 1 = k /\ 1..k \subseteq 1..n BY <2>1
  <2>3. ShowsUpTo(by, base, run[k], packet, k) BY <2>1, <2>2
  <2>4. run[k + 1] = Turn(by, run[k], c) BY <2>2 DEF IsRun
  <2>5. c.slot \in TouchSlots /\ c.event \in Events BY <2>2 DEF IsPacket
  <2>6. \A i \in 1..k : packet[i].slot \in TouchSlots \ {c.slot} BY <2>2 DEF IsPacket
  <2>7. \A i \in 1..(k + 1) : i \in 1..k \/ i = k + 1 BY <2>2
  <2> HIDE DEF c
  <2>8. /\ InStep(by, run[k + 1])
        /\ ScreenOf(by, run[k + 1])[c.slot] = After(by, ScreenOf(by, run[k])[c.slot], c)
        /\ \A s \in TouchSlots \ {c.slot} : ScreenOf(by, run[k + 1])[s] = ScreenOf(by, run[k])[s]
    BY <2>3, <2>4, <2>5, TurnShows DEF ShowsUpTo
  <2>9. ScreenOf(by, run[k])[c.slot] = ScreenOf(by, base)[c.slot] BY <2>3, <2>5, <2>6 DEF ShowsUpTo
  <2>10. ASSUME NEW i \in 1..(k + 1)
         PROVE  ScreenOf(by, run[k + 1])[packet[i].slot]
                    = After(by, ScreenOf(by, base)[packet[i].slot], packet[i])
    <3>1. CASE i \in 1..k BY <3>1, <2>3, <2>6, <2>8 DEF ShowsUpTo
    <3>2. CASE i = k + 1 BY <3>2, <2>8, <2>9 DEF c
    <3> QED BY <3>1, <3>2, <2>7
  <2>11. ASSUME NEW s \in TouchSlots, \A i \in 1..(k + 1) : packet[i].slot # s
         PROVE  ScreenOf(by, run[k + 1])[s] = ScreenOf(by, base)[s]
    <3>1. s # c.slot BY <2>11, <2>2 DEF c
    <3>2. \A i \in 1..k : packet[i].slot # s BY <2>11, <2>2
    <3> QED BY <3>1, <3>2, <2>3, <2>8 DEF ShowsUpTo
  <2> QED BY <2>8, <2>10, <2>11 DEF ShowsUpTo
<1>3. S = Nat BY <1>1, <1>2, SetInduction
<1> QED BY <1>3

LEMMA AppliedShows ==
    ASSUME NEW n \in Nat, NEW packet, IsPacket(packet, n), NEW slots, IsSlots(slots)
    PROVE  ShowsUpTo("applied", slots, Applied(slots, packet), packet, n)
<1>1. InStep("applied", slots) BY DEF InStep, ScreenOf
<1>2. DOMAIN packet = 1..n BY DEF IsPacket
<1> QED BY <1>1, <1>2, AppliedRuns, RunShows

LEMMA SentShows ==
    ASSUME NEW n \in Nat, NEW packet, IsPacket(packet, n), NEW base, InStep("sent", base)
    PROVE  ShowsUpTo("sent", base, FoldLeft(SendTouch, base, packet), packet, n)
<1>1. DOMAIN packet = 1..n BY DEF IsPacket
<1> QED BY <1>1, SentRuns, RunShows

-----------------------------------------------------------------------------
(* The fingers.                                                             *)

FingersApart ==
    /\ fingers \in [Fingers -> Contacts \cup {Lifted}]
    /\ \A f, g \in Fingers :
          fingers[f] # Lifted /\ fingers[g] # Lifted /\ fingers[f].slot = fingers[g].slot => f = g

LEMMA OnGlass ==
    /\ Lifted \notin Contacts
    /\ \A c \in Contacts : c.slot \in TouchSlots /\ c.slot # -1 /\ c.at \in 0..(WireSize - 1)
    /\ \A v \in 0..(WireSize - 1) : touchOn \in Platforms => Place(v) \in Int /\ Place(v) # Nobody
<1>1. -1 \notin TouchSlots BY TouchAssumption
<1>2. ASSUME NEW v \in 0..(WireSize - 1), touchOn \in Platforms PROVE Place(v) \in Int
  <2>1. v \in Int /\ WireSize \in Nat \ {0, 1} /\ OutputSize \in Nat \ {0, 1} /\ Origin \in Int
    BY TouchAssumption
  <2>2. \A a \in Int, b \in Nat \ {0} : a \div b \in Int OBVIOUS
  <2>3. WireSize - 1 \in Nat \ {0} /\ 2 * (WireSize - 1) \in Nat \ {0} /\ 2 \in Nat \ {0} BY <2>1
  <2>4. v * (OutputSize - 1) \in Int BY <2>1
  <2>5. ScalePosition(v) \in Int
    <3>1. Half(v * (OutputSize - 1), WireSize - 1) \in Int BY <2>2, <2>3, <2>4 DEF Half
    <3> QED BY <3>1, <2>1 DEF ScalePosition
  <2>6. ScaleContact(v) \in Int
    <3>1. (WireSize - 1) \div 2 \in Int BY <2>2, <2>3
    <3>2. (v * (OutputSize - 1) + (WireSize - 1) \div 2) \div (WireSize - 1) \in Int
      BY <3>1, <2>2, <2>3, <2>4
    <3> QED BY <3>2, <2>1 DEF ScaleContact
  <2>7. touchOn \in {"linux", "windows", "macos"} BY <1>2, TouchAssumption
  <2> QED BY <2>1, <2>5, <2>6, <2>7 DEF Place
<1>3. Nobody \notin Int BY TouchAssumption
<1> QED BY <1>1, <1>2, <1>3 DEF Contacts, Lifted

\* A packet names n fingers, each with a slot of its own, and leaves all apart.
Names(order, spots, e, n) ==
    /\ DOMAIN order = 1..n /\ order \in [1..n -> Fingers]
    /\ IsPacket(Packet(order, spots, e), n)
    /\ \A i \in 1..n : fingers'[order[i]] = IF e = "up" THEN Lifted ELSE spots[i]
    /\ \A f \in Fingers : (\A i \in 1..n : order[i] # f) => fingers'[f] = fingers[f]
    /\ FingersApart'

LEMMA SentPacket ==
    ASSUME FingersApart, NEW order \in Orders, NEW e \in Events,
           NEW spots \in [DOMAIN order -> Contacts], Sent(order, spots, e)
    PROVE  \E n \in Nat \ {0} : Names(order, spots, e, n)
<1> USE DEF Names
<1> DEFINE Lengths(n) == [1..n -> Fingers]
<1>1. /\ IsInjective(order)
      /\ order \in UNION {Lengths(n) : n \in 1..Cardinality(Fingers)}
  BY DEF Orders
<1> HIDE DEF Lengths
<1>2. PICK n \in 1..Cardinality(Fingers) : order \in Lengths(n) BY <1>1
<1>3. n \in Nat \ {0} BY <1>2
<1>4. order \in [1..n -> Fingers] /\ DOMAIN order = 1..n BY <1>2 DEF Lengths
<1>5. \A i, j \in 1..n : order[i] = order[j] => i = j BY <1>1, <1>4 DEF IsInjective
<1>6. spots \in [1..n -> Contacts] BY <1>4
<1>7. ASSUME NEW i \in 1..n PROVE fingers'[order[i]] = IF e = "up" THEN Lifted ELSE spots[i]
  <2> DEFINE f == order[i]
             at == CHOOSE j \in DOMAIN order : order[j] = f
  <2>1. f \in Fingers /\ f \in Range(order) BY <1>4 DEF Range
  <2>2. at = i BY <1>4, <1>5
  <2>3. fingers'[f] = IF f \notin Range(order) THEN fingers[f]
                      ELSE IF e = "up" THEN Lifted ELSE spots[at]
    BY <2>1 DEF Sent
  <2> QED BY <2>1, <2>2, <2>3
<1>8. ASSUME NEW f \in Fingers, \A i \in 1..n : order[i] # f PROVE fingers'[f] = fingers[f]
  <2>1. f \notin Range(order) BY <1>4, <1>8 DEF Range
  <2> QED BY <2>1 DEF Sent
<1>9. \A f \in Fingers : f \in DOMAIN fingers' /\ DOMAIN fingers' = Fingers BY DEF Sent
<1>10. \A i, j \in 1..n : spots[i].slot = spots[j].slot => i = j
  <2>1. CASE e = "down"
    <3>1. IsInjective([i \in 1..n |-> spots[i].slot]) BY <2>1, <1>4 DEF Sent, Begins
    <3> QED BY <3>1 DEF IsInjective
  <2>2. CASE e # "down"
    <3>1. \A i \in 1..n : fingers[order[i]] # Lifted /\ spots[i].slot = fingers[order[i]].slot
      BY <2>2, <1>4 DEF Sent, Stays
    <3> QED BY <3>1, <1>4, <1>5 DEF FingersApart
  <2> QED BY <2>1, <2>2
<1>11. IsPacket(Packet(order, spots, e), n)
  <2>1. Packet(order, spots, e) = [i \in 1..n |-> [slot |-> spots[i].slot, event |-> e, at |-> spots[i].at]]
    BY <1>4 DEF Packet
  <2> QED BY <2>1, <1>6, <1>10, OnGlass DEF IsPacket
<1>12. ASSUME NEW f \in Fingers, NEW g \in Fingers, fingers'[f] # Lifted, fingers'[g] # Lifted,
              fingers'[f].slot = fingers'[g].slot
       PROVE  f = g
  <2>1. CASE e = "up"
    <3>1. fingers'[f] = fingers[f] /\ fingers'[g] = fingers[g] BY <2>1, <1>7, <1>8, <1>12
    <3> QED BY <3>1, <1>12 DEF FingersApart
  <2>2. CASE e = "down"
    <3>1. \A i \in 1..n : fingers[order[i]] = Lifted /\ spots[i].slot \notin Used
      BY <2>2, <1>4 DEF Sent, Begins
    <3>2. \A h \in Fingers : fingers[h] # Lifted => fingers[h].slot \in Used
      BY OnGlass DEF FingersApart, Used
    <3>3. CASE (\E i \in 1..n : order[i] = f) /\ (\E i \in 1..n : order[i] = g)
      <4>1. PICK i \in 1..n : order[i] = f BY <3>3
      <4>2. PICK j \in 1..n : order[j] = g BY <3>3
      <4> QED BY <4>1, <4>2, <2>2, <1>7, <1>10, <1>12
    <3>4. CASE (\E i \in 1..n : order[i] = f) /\ ~(\E i \in 1..n : order[i] = g)
      BY <3>1, <3>2, <3>4, <2>2, <1>7, <1>8, <1>12
    <3>5. CASE ~(\E i \in 1..n : order[i] = f) /\ (\E i \in 1..n : order[i] = g)
      BY <3>1, <3>2, <3>5, <2>2, <1>7, <1>8, <1>12
    <3>6. CASE ~(\E i \in 1..n : order[i] = f) /\ ~(\E i \in 1..n : order[i] = g)
      BY <3>6, <1>8, <1>12 DEF FingersApart
    <3> QED BY <3>3, <3>4, <3>5, <3>6
  <2>3. CASE e = "move"
    <3>1. \A i \in 1..n : fingers[order[i]] # Lifted /\ spots[i].slot = fingers[order[i]].slot
      BY <2>3, <1>4 DEF Sent, Stays
    <3>2. \A h \in Fingers : fingers'[h] # Lifted => fingers[h] # Lifted /\ fingers'[h].slot = fingers[h].slot
      <4>1. ASSUME NEW h \in Fingers, NEW i \in 1..n, order[i] = h
            PROVE  fingers[h] # Lifted /\ fingers'[h].slot = fingers[h].slot
        BY <4>1, <3>1, <2>3, <1>7
      <4> QED BY <4>1, <1>8
    <3> QED BY <3>2, <1>12 DEF FingersApart
  <2> QED BY <2>1, <2>2, <2>3 DEF Events
<1>13. fingers' \in [Fingers -> Contacts \cup {Lifted}]
  <2>1. ASSUME NEW f \in Fingers PROVE fingers'[f] \in Contacts \cup {Lifted}
    <3>1. CASE \E i \in 1..n : order[i] = f BY <3>1, <1>6, <1>7
    <3>2. CASE ~(\E i \in 1..n : order[i] = f) BY <3>2, <1>8 DEF FingersApart
    <3> QED BY <3>1, <3>2
  <2>2. fingers' = [f \in Fingers |-> fingers'[f]] BY DEF Sent
  <2> QED BY <2>1, <2>2
<1>14. FingersApart' BY <1>12, <1>13 DEF FingersApart, Contacts
<1> QED BY <1>3, <1>4, <1>7, <1>8, <1>11, <1>14

-----------------------------------------------------------------------------
(* Slots that show where fingers are, and nothing else.                     *)

Tracks(slots, hands) ==
    /\ \A f \in Fingers : hands[f] # Lifted => slots[hands[f].slot] = Place(hands[f].at)
    /\ \A s \in TouchSlots : slots[s] # Nobody => \E f \in Fingers : hands[f] # Lifted /\ hands[f].slot = s

LEMMA PacketTracks ==
    ASSUME touchOn \in Platforms, FingersApart, NEW order \in Orders, NEW e \in Events,
           NEW spots \in [DOMAIN order -> Contacts], Sent(order, spots, e),
           NEW by \in {"sent", "applied"}, NEW before, NEW after, Tracks(ScreenOf(by, before), fingers),
           NEW n \in Nat, DOMAIN order = 1..n,
           ShowsUpTo(by, before, after, Packet(order, spots, e), n)
    PROVE  Tracks(ScreenOf(by, after), fingers')
<1> USE DEF Names
<1> DEFINE old == ScreenOf(by, before)
           new == ScreenOf(by, after)
           packet == Packet(order, spots, e)
<1>1. PICK m \in Nat \ {0} : Names(order, spots, e, m) BY SentPacket
<1>2. m = n
  <2>1. 1..m = 1..n /\ m \in Nat /\ n \in Nat BY <1>1
  <2>2. \A i \in Nat : (i \in 1..m) = (i \in 1..n) BY <2>1
  <2>3. m \in 1..m /\ (n # 0 => n \in 1..n) BY <1>1
  <2>4. m <= n /\ (n # 0 => n <= m) BY <2>1, <2>3
  <2> QED BY <2>4, <1>1
<1>3. order \in [1..n -> Fingers] /\ spots \in [1..n -> Contacts] BY <1>1, <1>2
<1>4. \A i \in 1..n : packet[i].slot = spots[i].slot /\ packet[i].event = e /\ packet[i].at = spots[i].at
  BY <1>3 DEF Packet
<1>5. \A i \in 1..n : spots[i].slot \in TouchSlots /\ spots[i].at \in 0..(WireSize - 1) /\ spots[i] # Lifted
  BY <1>3, OnGlass
<1>6. \A i \in 1..n : new[spots[i].slot] = After(by, old[spots[i].slot], packet[i])
  BY <1>4 DEF ShowsUpTo
<1>7. \A s \in TouchSlots : (\A i \in 1..n : spots[i].slot # s) => new[s] = old[s]
  BY <1>4 DEF ShowsUpTo
<1>8. \A f \in Fingers : fingers[f] # Lifted =>
          /\ fingers[f].slot \in TouchSlots /\ fingers[f].slot \in Used
          /\ old[fingers[f].slot] = Place(fingers[f].at) /\ Place(fingers[f].at) # Nobody
  BY OnGlass DEF FingersApart, Tracks, Used
<1>9. \A s \in TouchSlots : old[s] # Nobody => \E f \in Fingers : fingers[f] # Lifted /\ fingers[f].slot = s
  BY DEF Tracks
<1>10. \A i \in 1..n : fingers'[order[i]] = IF e = "up" THEN Lifted ELSE spots[i] BY <1>1, <1>2
<1>11. \A f \in Fingers : (\A i \in 1..n : order[i] # f) => fingers'[f] = fingers[f] BY <1>1, <1>2
<1>12. e = "down" => \A i \in 1..n : fingers[order[i]] = Lifted /\ spots[i].slot \notin Used
  BY <1>3 DEF Sent, Begins
<1>13. e # "down" => \A i \in 1..n : fingers[order[i]] # Lifted /\ spots[i].slot = fingers[order[i]].slot
  BY <1>3 DEF Sent, Stays
<1>14. \A f, g \in Fingers :
          fingers[f] # Lifted /\ fingers[g] # Lifted /\ fingers[f].slot = fingers[g].slot => f = g
  BY DEF FingersApart
<1> HIDE DEF old, new, packet
\* What the named slots show.
<1>15. \A i \in 1..n : new[spots[i].slot] = IF e = "up" THEN Nobody ELSE Place(spots[i].at)
  <2>1. ASSUME NEW i \in 1..n PROVE new[spots[i].slot] = IF e = "up" THEN Nobody ELSE Place(spots[i].at)
    <3>1. e = "move" => old[spots[i].slot] # Nobody BY <1>3, <1>8, <1>13
    <3> QED BY <3>1, <1>4, <1>6 DEF After
  <2> QED BY <2>1
\* A finger that the packet does not name keeps its slot.
<1>16. ASSUME NEW f \in Fingers, fingers[f] # Lifted, \A i \in 1..n : order[i] # f
       PROVE  \A i \in 1..n : spots[i].slot # fingers[f].slot
  <2>1. CASE e = "down" BY <2>1, <1>8, <1>12, <1>16
  <2>2. CASE e # "down" BY <2>2, <1>3, <1>13, <1>14, <1>16
  <2> QED BY <2>1, <2>2
<1>17. ASSUME NEW f \in Fingers, fingers'[f] # Lifted PROVE new[fingers'[f].slot] = Place(fingers'[f].at)
  <2>1. ASSUME NEW i \in 1..n, order[i] = f PROVE new[fingers'[f].slot] = Place(fingers'[f].at)
    BY <2>1, <1>10, <1>15, <1>17
  <2>2. CASE \A i \in 1..n : order[i] # f
    <3>1. fingers'[f] = fingers[f] BY <2>2, <1>11
    <3> QED BY <3>1, <2>2, <1>7, <1>8, <1>16, <1>17
  <2> QED BY <2>1, <2>2
<1>18. ASSUME NEW s \in TouchSlots, new[s] # Nobody
       PROVE  \E f \in Fingers : fingers'[f] # Lifted /\ fingers'[f].slot = s
  <2>1. ASSUME NEW i \in 1..n, spots[i].slot = s PROVE \E f \in Fingers : fingers'[f] # Lifted /\ fingers'[f].slot = s
    <3>1. e # "up" BY <2>1, <1>15, <1>18
    <3>2. order[i] \in Fingers /\ fingers'[order[i]] = spots[i] BY <3>1, <1>3, <1>10
    <3> QED BY <3>2, <2>1, <1>5
  <2>2. CASE \A i \in 1..n : spots[i].slot # s
    <3>1. old[s] # Nobody BY <2>2, <1>7, <1>18
    <3>2. PICK f \in Fingers : fingers[f] # Lifted /\ fingers[f].slot = s BY <3>1, <1>9
    <3>3. \A i \in 1..n : order[i] # f
      <4>1. SUFFICES ASSUME NEW i \in 1..n, order[i] = f PROVE FALSE OBVIOUS
      <4> QED BY <4>1, <3>2, <2>2, <1>12, <1>13
    <3> QED BY <3>2, <3>3, <1>11
  <2> QED BY <2>1, <2>2
<1> QED BY <1>17, <1>18 DEF Tracks, new

\* The slot that Linux names last is the one it remembers, and what Windows knows
\* is what the daemon holds: each makes the next packet land where it should.
ContactsInv ==
    /\ touchOn \in Platforms /\ touchEnds \in Nat /\ FingersApart
    /\ IsSlots(contacts) /\ IsSlots(screen)
    /\ kslot \in TouchSlots \cup {0} /\ kslot = cachedSlot
    /\ touchEnds = 0 /\ touchOn # "macos" => Tracks(screen, fingers)
    /\ touchEnds = 0 /\ touchOn = "windows" => contacts = screen

LEMMA ContactsStart == TouchInit => ContactsInv
<1> SUFFICES ASSUME TouchInit PROVE ContactsInv OBVIOUS
<1>1. FingersApart BY OnGlass DEF TouchInit, FingersApart
<1>2. Tracks(screen, fingers) BY DEF TouchInit, Tracks
<1>3. IsSlots(contacts) /\ screen = contacts BY DEF TouchInit, IsSlots
<1> QED BY <1>1, <1>2, <1>3 DEF TouchInit, ContactsInv

\* A frame of Windows fits: what goes down was up, and the others were down.
LEMMA FrameFits ==
    ASSUME ContactsInv, touchOn = "windows", touchEnds = 0,
           NEW order, NEW e \in Events, NEW spots \in [DOMAIN order -> Contacts],
           Sent(order, spots, e), WindowsTouch(Packet(order, spots, e)),
           NEW n \in Nat \ {0}, order \in [1..n -> Fingers],
           ShowsUpTo("applied", screen, contacts', Packet(order, spots, e), n)
    PROVE  screen' = contacts'
<1> DEFINE packet == Packet(order, spots, e)
           downs == Named(packet, "down")
           ups == Named(packet, "up")
           named == {spots[i].slot : i \in 1..n}
<1>1. spots \in [1..n -> Contacts] /\ DOMAIN order = 1..n OBVIOUS
<1>2. packet = [i \in 1..n |-> [slot |-> spots[i].slot, event |-> e, at |-> spots[i].at]]
  BY <1>1 DEF Packet
<1>3. Len(packet) = n BY <1>2
<1>4. \A i \in 1..n : packet[i].slot = spots[i].slot /\ packet[i].event = e BY <1>2
<1>5. /\ downs = IF e = "down" THEN named ELSE {}
      /\ ups = IF e = "up" THEN named ELSE {}
  BY <1>3, <1>4 DEF Named
<1>6. named \subseteq TouchSlots /\ named # {}
  <2>1. 1 \in 1..n OBVIOUS
  <2>2. spots[1].slot \in named BY <2>1
  <2> QED BY <2>2, <1>1, OnGlass
<1>7. \A f \in Fingers : fingers[f] # Lifted =>
          fingers[f].slot \in Used /\ fingers[f].slot \in Down(screen)
  BY OnGlass DEF ContactsInv, FingersApart, Tracks, Used, Down
<1>8. Down(screen) \subseteq Used
  BY OnGlass DEF ContactsInv, FingersApart, Tracks, Used, Down
<1>9. e = "down" => named \cap Down(screen) = {}
  BY <1>1, <1>8 DEF Sent, Begins
<1>10. e # "down" => named \subseteq Down(screen)
  <2>1. e # "down" => Stays(order, spots) BY Zenon DEF Sent
  <2> QED BY <2>1, <1>1, <1>7 DEF Stays
<1>11. \A s \in TouchSlots \ named : contacts'[s] = screen[s]
  <2>1. \A s \in TouchSlots \ named : \A i \in 1..n : packet[i].slot # s BY <1>4
  <2> QED BY <2>1 DEF ShowsUpTo, ScreenOf
<1>12. e = "down" => named \subseteq Down(contacts')
  <2>1. \A i \in 1..n : spots[i].at \in 0..(WireSize - 1) BY <1>1, OnGlass
  <2>2. ASSUME e = "down", NEW i \in 1..n PROVE contacts'[spots[i].slot] # Nobody
    <3>1. contacts'[spots[i].slot] = Place(packet[i].at)
      BY <2>2, <1>4 DEF ShowsUpTo, ScreenOf, After
    <3>2. packet[i].at = spots[i].at BY <1>2
    <3> QED BY <3>1, <3>2, <2>1, OnGlass DEF ContactsInv
  <2> QED BY <2>2, <1>6 DEF Down
<1>13. Down(contacts') \subseteq Down(screen) \cup named BY <1>11 DEF Down
<1>14. Down(screen) \subseteq Down(contacts') \cup named BY <1>11 DEF Down
<1> HIDE DEF named, downs, ups, packet
<1> DEFINE frame == Down(contacts') \cup ups
           fits == downs \cap Down(screen) = {} /\ (frame \ downs) \subseteq Down(screen)
<1>15. screen' = IF frame # {} /\ fits THEN contacts' ELSE screen
  BY DEF WindowsTouch, InjectSlots, packet, downs, ups
<1>16. fits
  <2>1. CASE e = "down" BY <2>1, <1>5, <1>9, <1>13
  <2>2. CASE e # "down" BY <2>2, <1>5, <1>10, <1>13
  <2> QED BY <2>1, <2>2
<1>17. CASE frame # {}
  <2> HIDE DEF fits, frame
  <2> QED BY <1>15, <1>16, <1>17
\* An empty frame would be refused, but then nothing was down and nothing is.
<1>18. CASE frame = {}
  <2>1. Down(contacts') = {} /\ ups = {} BY <1>18
  <2>2. e = "move" BY <2>1, <1>5, <1>6, <1>12 DEF Events
  <2>3. named \subseteq Down(screen) BY <2>2, <1>10
  <2>4. PICK i \in 1..n : TRUE OBVIOUS
  <2>5. spots[i].slot \in Down(screen) /\ spots[i].slot \in TouchSlots
    BY <2>3, <1>6 DEF named
  <2>6. screen[spots[i].slot] # Nobody BY <2>5 DEF Down
  <2>7. contacts'[spots[i].slot] = Place(packet[i].at)
    BY <2>2, <1>4 DEF ShowsUpTo, ScreenOf, After, packet
  <2>8. packet[i].at = spots[i].at BY <1>2 DEF packet
  <2>9. contacts'[spots[i].slot] # Nobody BY <2>7, <2>8, <1>1, OnGlass DEF ContactsInv
  <2> QED BY <2>1, <2>5, <2>9 DEF Down
<1> QED BY <1>17, <1>18

LEMMA ContactsStep == ASSUME ContactsInv, [TouchNext]_touchVars PROVE ContactsInv'
<1> USE DEF ContactsInv, Names
<1>1. ASSUME UNCHANGED <<touchOn, touchEnds, fingers, contacts, screen, linux>> PROVE ContactsInv'
  BY <1>1 DEF linux, FingersApart, IsSlots, Tracks, Place, ScalePosition, ScaleContact
<1>2. ASSUME NEW order \in Orders, NEW e \in Events, NEW spots \in [DOMAIN order -> Contacts],
             Sent(order, spots, e), Receives(Packet(order, spots, e))
      PROVE  ContactsInv'
  <2> DEFINE packet == Packet(order, spots, e)
  <2>1. PICK n \in Nat \ {0} : Names(order, spots, e, n) BY <1>2, SentPacket
  <2>2. UNCHANGED <<touchOn, touchEnds>> BY <1>2 DEF Sent
  <2>3. Tracks(screen', fingers') => Tracks(screen, fingers)'
    BY <2>2 DEF Tracks, Place, ScalePosition, ScaleContact
  <2>4. CASE touchOn = "linux" /\ HandleContacts(packet)
    <3> DEFINE before == [slot |-> kslot, cached |-> cachedSlot, screen |-> screen]
               after == FoldLeft(SendTouch, before, packet)
    <3>1. before.slot = kslot /\ before.cached = cachedSlot /\ before.screen = screen OBVIOUS
    <3>2. kslot' = after.slot /\ cachedSlot' = after.cached /\ screen' = after.screen /\ contacts' = contacts
      BY <2>4 DEF HandleContacts
    <3> HIDE DEF before, after
    <3>3. InStep("sent", before) BY <3>1 DEF InStep, ScreenOf
    <3>4. ShowsUpTo("sent", before, after, packet, n) BY <2>1, <3>3, SentShows DEF after
    <3>5. InStep("sent", after) BY <3>4 DEF ShowsUpTo
    <3>6. touchEnds = 0 => Tracks(screen', fingers')
      <4>1. ASSUME touchEnds = 0 PROVE Tracks(ScreenOf("sent", before), fingers)
        BY <4>1, <3>1, <2>4 DEF ScreenOf
      <4> QED BY <4>1, <1>2, <2>1, <3>2, <3>4, PacketTracks DEF ScreenOf
    <3> QED BY <2>1, <2>2, <2>3, <2>4, <3>2, <3>5, <3>6 DEF InStep, ScreenOf
  <2>5. CASE touchOn = "windows" /\ WindowsTouch(packet)
    <3>1. contacts' = Applied(contacts, packet) /\ UNCHANGED linux
      BY <2>5 DEF WindowsTouch
    <3>2. ShowsUpTo("applied", contacts, contacts', packet, n) BY <2>1, <3>1, AppliedShows
    <3>3. IsSlots(contacts') BY <3>2 DEF ShowsUpTo, InStep, ScreenOf
    <3>4. screen' \in {contacts', screen} BY <2>5 DEF WindowsTouch, InjectSlots
    <3>5. touchEnds = 0 => screen' = contacts' /\ Tracks(screen', fingers')
      <4>1. ASSUME touchEnds = 0 PROVE screen' = contacts' /\ Tracks(screen', fingers')
        <5>1. ShowsUpTo("applied", screen, contacts', packet, n) BY <4>1, <2>5, <3>2
        <5>2. screen' = contacts' BY <4>1, <5>1, <1>2, <2>1, <2>5, FrameFits
        <5>3. Tracks(ScreenOf("applied", screen), fingers) BY <4>1, <2>5 DEF ScreenOf
        <5>4. Tracks(ScreenOf("applied", contacts'), fingers')
          BY <5>1, <5>3, <1>2, <2>1, PacketTracks
        <5> QED BY <5>2, <5>4 DEF ScreenOf
      <4> QED BY <4>1
    <3> QED BY <2>1, <2>2, <2>3, <2>5, <3>1, <3>3, <3>4, <3>5 DEF linux, IsSlots
  <2>6. CASE touchOn = "macos" /\ MacTouch(packet)
    <3>1. contacts' = Applied(contacts, packet) /\ UNCHANGED <<screen, linux>>
      BY <2>6 DEF MacTouch
    <3>2. ShowsUpTo("applied", contacts, contacts', packet, n) BY <2>1, <3>1, AppliedShows
    <3>3. IsSlots(contacts') BY <3>2 DEF ShowsUpTo, InStep, ScreenOf
    <3> QED BY <2>1, <2>2, <2>6, <3>1, <3>3 DEF linux, IsSlots
  <2> QED BY <1>2, <2>4, <2>5, <2>6 DEF Receives
<1>3. CASE TouchKeepalive
  <2>1. screen' \in {contacts, screen} BY <1>3 DEF TouchKeepalive, InjectSlots
  <2>2. UNCHANGED <<touchOn, fingers, contacts, linux, touchEnds>> /\ touchOn = "windows"
    BY <1>3 DEF TouchKeepalive
  <2>3. touchEnds = 0 => screen' = screen BY <2>1, <2>2
  <2>4. IsSlots(screen') BY <2>1
  <2>5. touchEnds = 0 => Tracks(screen, fingers)' BY <2>2, <2>3
     DEF Tracks, Place, ScalePosition, ScaleContact
  <2> QED BY <2>2, <2>3, <2>4, <2>5 DEF linux, FingersApart, IsSlots
<1>4. CASE TouchEnds
  <2>1. touchEnds' = touchEnds + 1 /\ fingers' = [f \in Fingers |-> Lifted]
        /\ UNCHANGED <<touchOn, contacts, screen, linux>>
    BY <1>4 DEF TouchEnds
  <2>2. touchEnds' \in Nat /\ touchEnds' # 0 BY <2>1
  <2>3. FingersApart' BY <2>1 DEF FingersApart
  <2> QED BY <2>1, <2>2, <2>3 DEF linux, IsSlots
<1>5. ASSUME NEW t \in armed, LongPress(t) PROVE ContactsInv'
  BY <1>1, <1>5 DEF LongPress
<1>6. CASE UNCHANGED touchVars BY <1>1, <1>6 DEF touchVars
<1> QED BY <1>2, <1>3, <1>4, <1>5, <1>6 DEF TouchNext, Events

\* The contacts that Linux and Windows know are the fingers on the glass, each where
\* its finger is: for any fingers and slots, and any packets of several contacts in
\* any order, with keepalives in between, until a session ends with a finger down.
THEOREM ContactsTracked == TouchSpec => []ContactsAgree
<1>1. ContactsInv => ContactsAgree
  <2> SUFFICES ASSUME ContactsInv, touchEnds = 0, touchOn # "macos"
               PROVE  /\ Down(screen) = Used
                      /\ \A f \in Fingers : fingers[f] # Lifted => screen[fingers[f].slot] = Place(fingers[f].at)
    BY DEF ContactsAgree
  <2>1. FingersApart /\ Tracks(screen, fingers) /\ touchOn \in Platforms BY DEF ContactsInv
  <2>2. Down(screen) \subseteq Used BY <2>1, OnGlass DEF FingersApart, Tracks, Used, Down
  <2>3. Used \subseteq Down(screen)
    <3>1. ASSUME NEW f \in Fingers, fingers[f].slot # -1 PROVE fingers[f].slot \in Down(screen)
      <4>1. fingers[f] \in Contacts /\ fingers[f] # Lifted
        BY <2>1, <3>1, OnGlass DEF FingersApart, Lifted
      <4> QED BY <4>1, <2>1, OnGlass DEF Tracks, Down
    <3> QED BY <3>1 DEF Used
  <2> QED BY <2>1, <2>2, <2>3 DEF Tracks
<1> QED BY <1>1, ContactsStart, ContactsStep, PTL DEF TouchSpec

-----------------------------------------------------------------------------
(* Places and counts.                                                       *)

LEMMA Empty == Cardinality({}) = 0
<1> DEFINE Body(f) == [T \in SUBSET {} |-> IF T = {} THEN 0 ELSE 1 + f[T \ {CHOOSE x : x \in T}]]
           CS == CHOOSE f : f = Body(f)
           z == [T \in SUBSET {} |-> 0]
<1>1. Cardinality({}) = CS[{}] BY DEF Cardinality
<1>2. z = Body(z) OBVIOUS
<1>3. CS = Body(CS) BY <1>2
<1> HIDE DEF CS
<1>4. CS[{}] = 0 BY <1>3
<1> QED BY <1>1, <1>4

\* A set of numbers has a lowest one.
LEMMA LowestIn == ASSUME NEW S \in SUBSET Nat, S # {} PROVE Lowest(S) \in S
BY LeastExists DEF Lowest

LEMMA DivBound ==
    \A a \in Nat, d \in Nat \ {0}, m \in Nat : a < d * m => a \div d \in Nat /\ a \div d < m
<1> SUFFICES ASSUME NEW a \in Nat, NEW d \in Nat \ {0}, NEW m \in Nat, a < d * m
             PROVE  a \div d \in Nat /\ a \div d < m
  OBVIOUS
<1> DEFINE q == a \div d
<1>1. q \in Nat /\ d * q <= a OBVIOUS
<1> HIDE DEF q
<1>2. SUFFICES ASSUME q >= m PROVE FALSE BY <1>1 DEF q
<1>3. d * q >= d * m BY <1>1, <1>2
<1> QED BY <1>1, <1>3

LEMMA Scaled ==
    ASSUME NEW v \in 0..(WireSize - 1), touchOn \in Platforms
    PROVE  Place(v) \in Places
<1>0. \A a, b \in Nat : a * b \in Nat OBVIOUS
<1>1. v \in Nat /\ v <= WireSize - 1 /\ WireSize \in Nat /\ WireSize - 1 \in Nat \ {0} /\ OutputSize \in Nat \ {0, 1} /\ Origin \in Int
  BY TouchAssumption
<1>2. ScalePosition(v) \in Origin..(Origin + WireSize + OutputSize)
  <2> DEFINE d == WireSize - 1
             p == v * (OutputSize - 1)
  <2>1. d \in Nat \ {0} /\ p \in Nat /\ 2 * d \in Nat \ {0}
    <3>1. OutputSize - 1 \in Nat BY <1>1
    <3>2. p \in Nat BY <3>1, <1>0, <1>1
    <3>3. d \in Nat \ {0} BY <1>1
    <3> HIDE DEF p, d
    <3> QED BY <3>2, <3>3
  <2>2. p <= d * (OutputSize - 1)
    <3>1. \A a, b, c \in Nat : a <= b => a * c <= b * c OBVIOUS
    <3> QED BY <3>1, <1>1
  <2>3. (2 * d) * OutputSize = 2 * (d * (OutputSize - 1)) + 2 * d BY <1>1, <2>1
  <2>4. d * (OutputSize - 1) \in Nat BY <1>1
  <2> HIDE DEF p, d
  <2>5. 2 * p + d < (2 * d) * OutputSize BY <2>1, <2>2, <2>3, <2>4
  <2>6. 2 * p + d \in Nat BY <2>1
  <2>7. (2 * p + d) \div (2 * d) \in Nat /\ (2 * p + d) \div (2 * d) < OutputSize
    BY <2>1, <2>5, <2>6, <1>1, DivBound
  <2>8. Half(p, d) \in 0..OutputSize BY <2>7, <1>1 DEF Half
  <2>9. ScalePosition(v) = Origin + IF WireSize = OutputSize THEN v ELSE Half(p, d)
    BY DEF ScalePosition, p, d
  <2>10. CASE WireSize = OutputSize BY <2>9, <2>10, <1>1
  <2>11. CASE WireSize # OutputSize
    <3>1. ScalePosition(v) = Origin + Half(p, d) BY <2>9, <2>11
    <3> QED BY <3>1, <2>8, <1>1
  <2> QED BY <2>10, <2>11
<1>3. ScaleContact(v) \in 0..OutputSize
  <2> DEFINE x == v * (OutputSize - 1) + (WireSize - 1) \div 2
             q == x \div (WireSize - 1)
  <2>1. v * (OutputSize - 1) \in Nat BY <1>1
  <2>2. (WireSize - 1) \div 2 \in Nat BY <1>1
  <2>3. x \in Nat BY <2>1, <2>2
  <2> HIDE DEF x
  <2>4. q \in Nat
    <3>1. \A a \in Nat, b \in Nat \ {0} : a \div b \in Nat OBVIOUS
    <3> QED BY <3>1, <2>3, <1>1
  <2> HIDE DEF q
  <2>5. ScaleContact(v) = IF q <= OutputSize - 1 THEN q ELSE OutputSize - 1
    BY DEF ScaleContact, q, x
  <2> QED BY <2>4, <2>5, <1>1
<1>4. touchOn \in {"linux", "windows", "macos"} BY TouchAssumption
<1>5. CASE touchOn = "macos"
  <2>1. Place(v) = ScalePosition(v) BY <1>5 DEF Place
  <2> QED BY <2>1, <1>1, <1>2 DEF Places
<1>6. CASE touchOn = "linux"
  <2>1. Place(v) = ScaleContact(v) BY <1>6 DEF Place
  <2> QED BY <2>1, <1>1, <1>3 DEF Places
<1>7. CASE touchOn = "windows"
  <2>1. Place(v) = Origin + v BY <1>7 DEF Place
  <2> QED BY <2>1, <1>1 DEF Places
<1> QED BY <1>4, <1>5, <1>6, <1>7

SlotType == [TouchSlots -> Places \cup {Nobody}]

LEMMA PacketTypes ==
    ASSUME touchOn \in Platforms, NEW n \in Nat, NEW packet, IsPacket(packet, n),
           NEW by \in {"sent", "applied"}, NEW before, NEW after,
           ScreenOf(by, before) \in SlotType, ShowsUpTo(by, before, after, packet, n)
    PROVE  ScreenOf(by, after) \in SlotType
<1> DEFINE old == ScreenOf(by, before)
           new == ScreenOf(by, after)
<1>1. IsSlots(new) BY DEF ShowsUpTo, InStep
<1>2. ASSUME NEW s \in TouchSlots PROVE new[s] \in Places \cup {Nobody}
  <2>1. CASE \A i \in 1..n : packet[i].slot # s
    <3>1. new[s] = old[s] BY <2>1 DEF ShowsUpTo
    <3> QED BY <3>1 DEF SlotType
  <2>2. ASSUME NEW i \in 1..n, packet[i].slot = s PROVE new[s] \in Places \cup {Nobody}
    <3>1. new[s] = After(by, old[s], packet[i]) BY <2>2 DEF ShowsUpTo
    <3>2. Place(packet[i].at) \in Places BY Scaled DEF IsPacket
    <3> QED BY <3>1, <3>2 DEF After
  <2> QED BY <2>1, <2>2
<1> HIDE DEF new
<1> QED BY <1>1, <1>2 DEF IsSlots, SlotType, new

\* The generation passes twice in a gesture at most.
GesturesCounts ==
    /\ gestures \in 0..MaxGestures /\ generation \in 0..(2 * gestures)
    /\ mode = "pending" => generation < 2 * gestures
    /\ pressedBy \in 0..gestures /\ \A t \in armed : t.of \in 0..gestures

TouchTypes ==
    /\ {contacts, screen} \subseteq SlotType /\ {anchor, pointer} \subseteq Places
    /\ touchEnds \in 0..MaxTouchEnds

TouchInv == ContactsInv /\ GestureInv /\ GesturesCounts /\ TouchTypes

LEMMA TouchStart == TouchInit => TouchInv
<1> SUFFICES ASSUME TouchInit PROVE TouchInv OBVIOUS
<1>1. GesturesCounts BY TouchAssumption DEF TouchInit, GesturesCounts
<1>2. 0 \in Places
  <2>1. WireSize \in Nat /\ OutputSize \in Nat BY TouchAssumption
  <2> QED BY <2>1 DEF Places
<1>3. contacts \in SlotType /\ screen = contacts BY DEF TouchInit, SlotType
<1>4. TouchTypes BY <1>2, <1>3, TouchAssumption DEF TouchInit, TouchTypes
<1> QED BY <1>1, <1>4, ContactsStart, GesturesStart DEF TouchInv

LEMMA PacketCounts ==
    ASSUME NEW packet, MacTouch(packet), GestureInv, GesturesCounts PROVE GesturesCounts'
<1> DEFINE glass == Applied(contacts, packet)
           lift == LiftOf(packet)
<1> HIDE DEF glass, lift
<1> USE TouchAssumption DEF GesturesCounts, Marks, Still
<1>0. gestures \in Nat /\ generation \in Nat /\ MaxGestures \in Nat OBVIOUS
<1>1. CASE MacPress(glass)
  <2>1. /\ gestures < MaxGestures /\ generation' = generation + 1 /\ gestures' = gestures + 1
        /\ armed' = armed \cup {[of |-> gestures', generation |-> generation']}
        /\ UNCHANGED pressedBy
    BY <1>1 DEF MacPress
  <2>2. gestures' \in 0..MaxGestures /\ generation' \in 0..(2 * gestures') /\ generation' < 2 * gestures'
    BY <2>1, <1>0
  <2>3. 0..gestures \subseteq 0..gestures' /\ gestures' \in 0..gestures' BY <2>1, <1>0
  <2>4. \A t \in armed' : t.of \in 0..gestures' BY <2>1, <2>3
  <2> QED BY <2>1, <2>2, <2>3, <2>4
<1>2. CASE MacScrollBegins(glass) BY <1>0, <1>2 DEF MacScrollBegins
<1>3. CASE MacTap(glass) BY <1>0, <1>3 DEF MacTap
<1>4. CASE MacDragBegins(glass) BY <1>0, <1>4 DEF MacDragBegins
<1>5. CASE MacWaits(glass) BY <1>5 DEF MacWaits
<1>6. CASE MacDrops(glass, lift) BY <1>6 DEF MacDrops
<1>7. CASE MacDrags(glass) BY <1>7 DEF MacDrags
<1>8. CASE MacScrolls(glass)
  <2>1. mode' # "pending" BY <1>8, Zenon DEF MacScrolls
  <2>2. UNCHANGED <<armed, gestures, pressedBy, generation>> BY <1>8 DEF MacScrolls
  <2> QED BY <2>1, <2>2
<1>9. CASE MacSwallows(glass, lift) BY <1>9 DEF MacSwallows
<1> QED BY <1>1, <1>2, <1>3, <1>4, <1>5, <1>6, <1>7, <1>8, <1>9, Zenon DEF MacTouch, glass, lift

\* Where a finger is, and where the last one was lifted, are places.
LEMMA PacketPlaces ==
    ASSUME NEW n \in Nat, NEW packet, IsPacket(packet, n), packet \in Seq({packet[i] : i \in 1..n}),
           MacTouch(packet), contacts' \in SlotType, touchOn \in Platforms, {anchor, pointer} \subseteq Places
    PROVE  {anchor, pointer}' \subseteq Places
<1> DEFINE glass == Applied(contacts, packet)
           lift == LiftOf(packet)
<1>1. glass \in SlotType BY DEF MacTouch
<1> HIDE DEF glass
<1>2. Count(glass) # 0 => Primary(glass) \in Places
  <2>1. SUFFICES ASSUME Count(glass) # 0 PROVE Primary(glass) \in Places OBVIOUS
  <2>2. Down(glass) # {} BY <2>1, Empty DEF Count
  <2>3. Down(glass) \in SUBSET Nat
    <3>1. TouchSlots \subseteq 0..9 /\ 0..9 \subseteq Nat BY TouchAssumption
    <3>2. Down(glass) \subseteq TouchSlots BY DEF Down
    <3> QED BY <3>1, <3>2
  <2>4. Lowest(Down(glass)) \in Down(glass) BY <2>2, <2>3, LowestIn
  <2> QED BY <2>4, <1>1 DEF Primary, Down, SlotType
<1>3. lift \in Places
  <2> DEFINE ups == {i \in 1..Len(packet) : packet[i].event = "up"}
  <2>1. Len(packet) = n BY DEF IsPacket
  <2>2. ups \in SUBSET Nat /\ ups \subseteq 1..n BY <2>1
  <2>3. lift = IF ups = {} THEN anchor ELSE Place(packet[Lowest(ups)].at) BY DEF LiftOf
  <2> HIDE DEF ups, lift
  <2>4. ups # {} => Place(packet[Lowest(ups)].at) \in Places
    BY <2>2, LowestIn, Scaled DEF IsPacket
  <2> QED BY <2>3, <2>4
<1> HIDE DEF lift
<1>4. Count(glass) = 1 \/ Count(glass) > 0 => Count(glass) # 0 OBVIOUS
<1> USE DEF Marks, Still
<1>5. CASE MacPress(glass) BY <1>2, <1>4, <1>5 DEF MacPress
<1>6. CASE MacScrollBegins(glass) BY <1>6 DEF MacScrollBegins
<1>7. CASE MacTap(glass) BY <1>7 DEF MacTap
<1>8. CASE MacDragBegins(glass) BY <1>2, <1>4, <1>8 DEF MacDragBegins
<1>9. CASE MacWaits(glass) BY <1>9 DEF MacWaits
<1>10. CASE MacDrops(glass, lift) BY <1>3, <1>10 DEF MacDrops
<1>11. CASE MacDrags(glass) BY <1>2, <1>4, <1>11 DEF MacDrags
<1>12. CASE MacScrolls(glass)
  <2>1. UNCHANGED <<anchor, pointer>> BY <1>12, Zenon DEF MacScrolls
  <2> QED BY <2>1
<1>13. CASE MacSwallows(glass, lift) BY <1>3, <1>13 DEF MacSwallows
<1> QED BY <1>5, <1>6, <1>7, <1>8, <1>9, <1>10, <1>11, <1>12, <1>13, Zenon DEF MacTouch, glass, lift

LEMMA TouchStep == ASSUME TouchInv, [TouchNext]_touchVars PROVE TouchInv'
<1> USE DEF TouchInv, Names
<1>1. ContactsInv' /\ GestureInv' BY ContactsStep, GesturesKept
<1>2. ASSUME UNCHANGED macos PROVE GesturesCounts' /\ {anchor, pointer}' \subseteq Places
  BY <1>2 DEF macos, GesturesCounts, TouchTypes
<1>3. ASSUME NEW order \in Orders, NEW e \in Events, NEW spots \in [DOMAIN order -> Contacts],
             Sent(order, spots, e), Receives(Packet(order, spots, e))
      PROVE  GesturesCounts' /\ TouchTypes'
  <2> DEFINE packet == Packet(order, spots, e)
  <2>1. PICK n \in Nat \ {0} : Names(order, spots, e, n) BY <1>3, SentPacket DEF ContactsInv
  <2>2. UNCHANGED <<touchOn, touchEnds>> BY <1>3 DEF Sent
  <2>3. packet \in Seq({packet[i] : i \in 1..n}) BY <2>1 DEF Packet
  <2>4. touchOn \in Platforms /\ IsSlots(contacts) /\ IsSlots(screen) BY DEF ContactsInv
  <2>5. \A slots : slots \in SlotType => ScreenOf("applied", slots) \in SlotType
    BY DEF ScreenOf
  <2>6. contacts' = Applied(contacts, packet) => contacts' \in SlotType
    <3>1. SUFFICES ASSUME contacts' = Applied(contacts, packet) PROVE contacts' \in SlotType OBVIOUS
    <3>2. ShowsUpTo("applied", contacts, contacts', packet, n) BY <2>1, <2>4, <3>1, AppliedShows
    <3>3. ScreenOf("applied", contacts') \in SlotType BY <2>1, <2>4, <2>5, <3>2, PacketTypes DEF TouchTypes
    <3> QED BY <3>3 DEF ScreenOf
  <2>7. CASE touchOn = "linux" /\ HandleContacts(packet)
    <3> DEFINE before == [slot |-> kslot, cached |-> cachedSlot, screen |-> screen]
               after == FoldLeft(SendTouch, before, packet)
    <3>1. before.slot = kslot /\ before.cached = cachedSlot /\ before.screen = screen OBVIOUS
    <3>2. screen' = after.screen /\ contacts' = contacts /\ UNCHANGED macos
      BY <2>7 DEF HandleContacts
    <3> HIDE DEF before, after
    <3>3. InStep("sent", before) BY <3>1 DEF InStep, ScreenOf, ContactsInv
    <3>4. ShowsUpTo("sent", before, after, packet, n) BY <2>1, <3>3, SentShows DEF after
    <3>5. ScreenOf("sent", before) \in SlotType BY <3>1 DEF ScreenOf, TouchTypes
    <3>6. ScreenOf("sent", after) \in SlotType BY <2>1, <2>4, <3>4, <3>5, PacketTypes
    <3> QED BY <1>2, <2>2, <3>2, <3>6 DEF ScreenOf, TouchTypes
  <2>8. CASE touchOn = "windows" /\ WindowsTouch(packet)
    <3>1. contacts' = Applied(contacts, packet) /\ UNCHANGED macos BY <2>8 DEF WindowsTouch
    <3>2. screen' \in {contacts', screen} BY <2>8 DEF WindowsTouch, InjectSlots
    <3> QED BY <1>2, <2>2, <2>6, <3>1, <3>2 DEF TouchTypes
  <2>9. CASE touchOn = "macos" /\ MacTouch(packet)
    <3>1. contacts' = Applied(contacts, packet) /\ UNCHANGED screen BY <2>9 DEF MacTouch
    <3>2. GesturesCounts' BY <2>9, PacketCounts
    <3>3. {anchor, pointer}' \subseteq Places
      BY <2>1, <2>3, <2>4, <2>6, <2>9, <3>1, PacketPlaces DEF TouchTypes
    <3> QED BY <2>2, <2>6, <3>1, <3>2, <3>3 DEF TouchTypes
  <2> QED BY <1>3, <2>7, <2>8, <2>9 DEF Receives
<1>4. CASE TouchKeepalive
  <2>1. screen' \in {contacts, screen} BY <1>4 DEF TouchKeepalive, InjectSlots
  <2>2. UNCHANGED <<contacts, macos, touchEnds>> BY <1>4 DEF TouchKeepalive
  <2> QED BY <1>1, <1>2, <2>1, <2>2 DEF TouchTypes
<1>5. CASE TouchEnds
  <2>1. UNCHANGED <<contacts, screen, macos>> /\ touchEnds < MaxTouchEnds /\ touchEnds' = touchEnds + 1
    BY <1>5 DEF TouchEnds
  <2>2. touchEnds' \in 0..MaxTouchEnds BY <2>1, TouchAssumption DEF TouchTypes
  <2> QED BY <1>1, <1>2, <2>1, <2>2 DEF TouchTypes
<1>6. ASSUME NEW t \in armed, LongPress(t) PROVE TouchInv'
  <2>1. armed' \subseteq armed /\ UNCHANGED <<contacts, screen, touchEnds, generation, anchor, gestures>>
    BY <1>6 DEF LongPress
  <2>2. CASE UNCHANGED <<mode, pressedBy, pointer>>
    BY <1>1, <2>1, <2>2 DEF GesturesCounts, TouchTypes
  <2>3. CASE mode' = "secondary" /\ pressedBy' = t.of /\ pointer' = anchor
    BY <1>1, <2>1, <2>3 DEF GesturesCounts, TouchTypes
  <2> QED BY <1>6, <2>2, <2>3, Zenon DEF LongPress
<1>7. CASE UNCHANGED touchVars BY <1>1, <1>2, <1>7 DEF touchVars, TouchTypes
<1> QED BY <1>1, <1>3, <1>4, <1>5, <1>6, <1>7 DEF TouchNext, Events

LEMMA TouchTyped == TouchInv => TouchTypeOK
<1> SUFFICES ASSUME TouchInv PROVE TouchTypeOK OBVIOUS
<1> USE DEF TouchInv
<1>1. mode \in {"idle", "pending", "dragging", "scrolling", "secondary"} BY DEF GestureInv, Waiting
<1>2. {left, scroll} \subseteq BOOLEAN BY Zenon DEF GestureInv, GesturesBalance
<1>3. generation \in 0..(2 * MaxGestures) BY TouchAssumption DEF GesturesCounts
<1> QED BY <1>1, <1>2, <1>3
     DEF ContactsInv, FingersApart, GesturesCounts, TouchTypes, SlotType, TouchTypeOK

-----------------------------------------------------------------------------
(* That an empty queue leaves no key down but those told is not inductive:  *)
(* what is still queued decides it.                                         *)

KeyPacket == [what : {"raw", "text", "special"}, key : Keys, pressed : BOOLEAN, mods : SUBSET Modifiers]

KeysTyped ==
    /\ keyHost \in KeyHosts /\ keyQueue \in Seq(KeyPacket)
    /\ held \subseteq Keys /\ told \subseteq Keys

Presses(e, k)  == e.what = "raw" /\ e.key = k /\ e.pressed
Releases(e, k) == e.what = "raw" /\ e.key = k /\ ~e.pressed

\* No packet from the i-th on presses the key.
Unpressed(k, i) == \A j \in i..Len(keyQueue) : ~Presses(keyQueue[j], k)

\* A key that is not told to be down is up once the queue is empty: it is up
\* already, or a release is queued; and no press of it comes after.
Settles(k) ==
    \/ k \notin keysDown /\ Unpressed(k, 1)
    \/ \E i \in 1..Len(keyQueue) : Releases(keyQueue[i], k) /\ Unpressed(k, i)

\* Only keys of the host's table ever go down, so a release is never ignored.
KeysInv ==
    /\ KeysTyped /\ keysDown \subseteq Usages(keyHost) \cap Keys
    /\ \A k \in Keys \ told : Settles(k)

LEMMA KeysStart == KeyInit => KeysInv
BY DEF KeyInit, KeysInv, KeysTyped, Settles, Unpressed, KeysAssumption

\* A packet that the window sends.
LEMMA SendKeeps ==
    ASSUME KeysInv, NEW e \in KeyPacket, SendKey(e), UNCHANGED <<keyHost, keysDown>>, held' \subseteq Keys
    PROVE  KeysInv'
<1> USE DEF KeysInv, KeysTyped
<1>1. CASE UNCHANGED <<keyQueue, told>>
  BY <1>1 DEF Settles, Unpressed
<1>2. CASE keyQueue' = Append(keyQueue, e)
           /\ told' = CASE e.what # "raw" -> told
                        [] e.what = "raw" /\ e.pressed  -> told \cup {e.key}
                        [] e.what = "raw" /\ ~e.pressed -> told \ {e.key}
  <2>1. keyQueue' \in Seq(KeyPacket) /\ Len(keyQueue') = Len(keyQueue) + 1
        /\ keyQueue'[Len(keyQueue) + 1] = e
        /\ \A i \in 1..Len(keyQueue) : keyQueue'[i] = keyQueue[i]
    BY <1>2
  <2>2. told' \subseteq Keys BY <1>2 DEF KeyPacket
  <2>3. ASSUME NEW k \in Keys \ told' PROVE Settles(k)'
    <3>1. CASE Releases(e, k)
      BY <3>1, <2>1 DEF Settles, Unpressed, Releases, Presses
    <3>2. CASE ~Releases(e, k)
      <4>1. k \notin told /\ ~Presses(e, k)
        BY <1>2, <3>2, <2>3 DEF KeyPacket, Releases, Presses
      <4>2. Settles(k) BY <4>1
      <4>3. CASE k \notin keysDown /\ Unpressed(k, 1)
        BY <4>1, <4>3, <2>1 DEF Settles, Unpressed
      <4>4. ASSUME NEW i \in 1..Len(keyQueue), Releases(keyQueue[i], k), Unpressed(k, i)
            PROVE  Settles(k)'
        <5>1. Releases(keyQueue'[i], k) BY <4>4, <2>1
        <5>2. Unpressed(k, i)' BY <4>1, <4>4, <2>1 DEF Unpressed
        <5>3. i \in 1..Len(keyQueue') BY <2>1
        <5> QED BY <5>1, <5>2, <5>3 DEF Settles
      <4> QED BY <4>2, <4>3, <4>4 DEF Settles
    <3> QED BY <3>1, <3>2
  <2> QED BY <2>1, <2>2, <2>3
<1> QED BY <1>1, <1>2, Zenon DEF SendKey

\* What the window makes of a key is a packet.
LEMMA KeyEventType ==
    ASSUME NEW k \in Keys, NEW text \in BOOLEAN, NEW pressed \in BOOLEAN,
           KeyEvent(k, text, pressed) # Nothing
    PROVE  KeyEvent(k, text, pressed) \in KeyPacket
BY DEF KeyEvent, QtKeyAction, Raw, Stroke, Nothing, KeyPacket, Modifiers, ComboMods

\* The keyboard thread takes a packet.
LEMMA Dispatches == ASSUME KeysInv, KeyDispatch PROVE KeysInv'
<1> USE DEF KeysInv, KeysTyped
<1> DEFINE e == Head(keyQueue)
<1>1. /\ keyQueue # <<>> /\ keyQueue' = Tail(keyQueue)
      /\ keysDown' = IF e.what = "raw" THEN AfterRaw(e) ELSE AfterStroke(e)
      /\ UNCHANGED <<keyHost, held, told>>
  BY DEF KeyDispatch
<1>2. /\ e \in KeyPacket /\ e = keyQueue[1] /\ keyQueue' \in Seq(KeyPacket)
      /\ Len(keyQueue) \in Nat \ {0} /\ Len(keyQueue') = Len(keyQueue) - 1
      /\ \A i \in 1..Len(keyQueue') : keyQueue'[i] = keyQueue[i + 1]
  BY <1>1
<1>3. keysDown' \subseteq keysDown \/ (Presses(e, e.key) /\ e.key \in Usages(keyHost) /\ keysDown' = keysDown \cup {e.key})
  BY <1>1, <1>2 DEF AfterRaw, AfterStroke, Presses, KeyPacket
<1>4. keysDown' \subseteq Usages(keyHost) \cap Keys
  BY <1>2, <1>3 DEF KeyPacket
<1>5. ASSUME NEW k \in Keys \ told PROVE Settles(k)'
  <2>1. Settles(k) BY <1>5
  <2>2. CASE k \notin keysDown /\ Unpressed(k, 1)
    <3>1. ~Presses(e, k) BY <2>2, <1>2 DEF Unpressed
    <3>2. k \notin keysDown' BY <3>1, <2>2, <1>3 DEF Presses
    <3>3. Unpressed(k, 1)' BY <2>2, <1>2 DEF Unpressed
    <3> QED BY <3>2, <3>3 DEF Settles
  <2>3. ASSUME NEW i \in 1..Len(keyQueue), Releases(keyQueue[i], k), Unpressed(k, i) PROVE Settles(k)'
    <3>1. CASE i = 1
      <4>1. e.what = "raw" /\ e.key = k /\ ~e.pressed BY <3>1, <2>3, <1>2 DEF Releases
      <4>2. k \notin keysDown' BY <4>1, <1>1 DEF AfterRaw
      <4>3. Unpressed(k, 1)' BY <3>1, <2>3, <1>2 DEF Unpressed
      <4> QED BY <4>2, <4>3 DEF Settles
    <3>2. CASE i > 1
      <4>1. i - 1 \in 1..Len(keyQueue') /\ keyQueue'[i - 1] = keyQueue[i] BY <3>2, <1>2
      <4>2. Unpressed(k, i - 1)' BY <3>2, <2>3, <1>2 DEF Unpressed
      <4> QED BY <4>1, <4>2, <2>3 DEF Settles
    <3> QED BY <3>1, <3>2
  <2> QED BY <2>1, <2>2, <2>3 DEF Settles
<1> QED BY <1>1, <1>2, <1>4, <1>5

LEMMA KeysKept == ASSUME KeysInv, [KeyNext]_keyVars PROVE KeysInv'
<1>1. ASSUME UNCHANGED <<keyHost, keyQueue, keysDown, told>>, held' \subseteq Keys PROVE KeysInv'
  BY <1>1 DEF KeysInv, KeysTyped, Settles, Unpressed
<1>2. ASSUME NEW k \in Keys, NEW text \in BOOLEAN, NEW pressed \in BOOLEAN, held' \subseteq Keys,
             SendKey(KeyEvent(k, text, pressed)), UNCHANGED <<keyHost, keysDown>>
      PROVE  KeysInv'
  <2>1. CASE KeyEvent(k, text, pressed) = Nothing
    BY <2>1, <1>2, <1>1 DEF SendKey
  <2>2. CASE KeyEvent(k, text, pressed) # Nothing
    BY <2>2, <1>2, KeyEventType, SendKeeps
  <2> QED BY <2>1, <2>2
<1>3. ASSUME NEW k \in Keys, NEW text \in BOOLEAN, KeyPress(k, text) PROVE KeysInv'
  <2>1. held' \subseteq Keys /\ UNCHANGED <<keyHost, keysDown>>
    BY <1>3 DEF KeyPress, KeysInv, KeysTyped
  <2>2. SendKey(KeyEvent(k, text, TRUE)) \/ UNCHANGED <<keyQueue, told>>
    BY <1>3, Zenon DEF KeyPress
  <2> QED BY <2>1, <2>2, <1>1, <1>2
<1>4. ASSUME NEW k \in Keys, NEW text \in BOOLEAN, KeyRelease(k, text) PROVE KeysInv'
  <2>1. held' \subseteq Keys /\ UNCHANGED <<keyHost, keysDown>>
    BY <1>4 DEF KeyRelease, KeysInv, KeysTyped
  <2>2. SendKey(KeyEvent(k, text, FALSE)) \/ UNCHANGED <<keyQueue, told>>
    BY <1>4, Zenon DEF KeyRelease
  <2> QED BY <2>1, <2>2, <1>1, <1>2
<1>5. CASE TogglesKeyboard
  BY <1>5, <1>1 DEF TogglesKeyboard, KeysInv, KeysTyped
<1>6. CASE KeyDispatch BY <1>6, Dispatches
<1>7. CASE UNCHANGED keyVars
  BY <1>7, <1>1 DEF keyVars, KeysInv, KeysTyped
<1> QED BY <1>3, <1>4, <1>5, <1>6, <1>7, Zenon DEF KeyNext

\* A host whose queue is empty holds down no key but those whose press, and no
\* later release, it was sent: whatever mixture of raw keys, texts, special keys
\* and combinations the user produced, and whatever the full queue dropped.
THEOREM KeysTold == KeySpec => []KeysAreTold
<1>1. KeyInit => KeysInv BY KeysStart
<1>2. KeysInv /\ [KeyNext]_keyVars => KeysInv' BY KeysKept
<1>3. KeysInv => KeysAreTold
  BY DEF KeysInv, KeysTyped, KeysAreTold, Settles
<1> QED BY <1>1, <1>2, <1>3, PTL DEF KeySpec

-----------------------------------------------------------------------------
(* The three together.                                                      *)

KeyCounts ==
    /\ forwarded \in BOOLEAN /\ presses \in 0..MaxPresses /\ toggles \in 0..MaxToggles
    /\ Len(keyQueue) \in 0..KeyQueue

LEMMA KeyCountsStart == KeyInit => KeyCounts
BY KeysAssumption DEF KeyInit, KeyCounts

LEMMA KeyCountsStep == ASSUME KeysInv, KeyCounts, [KeyNext]_keyVars PROVE KeyCounts'
<1> USE KeysAssumption DEF KeyCounts
<1>1. ASSUME NEW k \in Keys, NEW text \in BOOLEAN, NEW pressed \in BOOLEAN,
             SendKey(KeyEvent(k, text, pressed)) \/ UNCHANGED keyQueue
      PROVE  Len(keyQueue') \in 0..KeyQueue
  BY <1>1 DEF SendKey, KeysInv, KeysTyped
<1>2. ASSUME NEW k \in Keys, NEW text \in BOOLEAN, KeyPress(k, text) PROVE KeyCounts'
  <2>1. SendKey(KeyEvent(k, text, TRUE)) \/ UNCHANGED keyQueue BY <1>2, Zenon DEF KeyPress
  <2>2. presses < MaxPresses /\ presses' = presses + 1 /\ UNCHANGED toggles BY <1>2 DEF KeyPress
  <2>3. UNCHANGED forwarded BY <1>2 DEF KeyPress
  <2>4. presses' \in 0..MaxPresses BY <2>2
  <2> QED BY <1>1, <2>1, <2>2, <2>3, <2>4
<1>3. ASSUME NEW k \in Keys, NEW text \in BOOLEAN, KeyRelease(k, text) PROVE KeyCounts'
  <2>1. SendKey(KeyEvent(k, text, FALSE)) \/ UNCHANGED keyQueue BY <1>3, Zenon DEF KeyRelease
  <2>2. UNCHANGED <<forwarded, presses, toggles>> BY <1>3 DEF KeyRelease
  <2> QED BY <1>1, <2>1, <2>2
<1>4. CASE TogglesKeyboard
  <2>1. forwarded' \in BOOLEAN BY <1>4, Zenon DEF TogglesKeyboard
  <2>2. toggles' \in 0..MaxToggles /\ UNCHANGED <<presses, keyQueue>> BY <1>4 DEF TogglesKeyboard
  <2> QED BY <2>1, <2>2
<1>5. CASE KeyDispatch
  <2>1. Len(keyQueue') = Len(keyQueue) - 1 /\ Len(keyQueue) # 0
    BY <1>5 DEF KeyDispatch, KeysInv, KeysTyped
  <2> QED BY <1>5, <2>1 DEF KeyDispatch
<1>6. CASE UNCHANGED keyVars BY <1>6 DEF keyVars
<1> QED BY <1>2, <1>3, <1>4, <1>5, <1>6, Zenon DEF KeyNext

LEMMA KeysAreTyped == KeysInv /\ KeyCounts => KeyTypeOK
<1> SUFFICES ASSUME KeysInv, KeyCounts PROVE KeyTypeOK OBVIOUS
<1>1. keyHost \in KeyHosts /\ {held, keysDown, told} \subseteq SUBSET Keys BY DEF KeysInv, KeysTyped
<1>2. Len(keyQueue) <= KeyQueue BY KeysAssumption DEF KeyCounts
<1>3. \A i \in 1..Len(keyQueue) : keyQueue[i] \in KeyPacket BY DEF KeysInv, KeysTyped
<1> QED BY <1>1, <1>2, <1>3, Zenon DEF KeyCounts, KeyTypeOK, KeyPacket

EndpointsInv == PeriphInv /\ TypeOK /\ TouchInv /\ KeysInv /\ KeyCounts

LEMMA EndpointsStart == MCInit => EndpointsInv
BY PeriphStarts, TypesStart, TouchStart, KeysStart, KeyCountsStart DEF MCInit, EndpointsInv

LEMMA EndpointsStep == EndpointsInv /\ [MCNext]_mcVars => EndpointsInv'
<1> SUFFICES ASSUME EndpointsInv, [MCNext]_mcVars PROVE EndpointsInv' OBVIOUS
<1>1. [Next]_vars /\ [TouchNext]_touchVars /\ [KeyNext]_keyVars BY Zenon DEF MCNext, mcVars
<1>2. PeriphInv' /\ TypeOK' BY <1>1, PeriphSteps, TypesStep, Zenon DEF EndpointsInv
<1>3. TouchInv' BY <1>1, TouchStep, Zenon DEF EndpointsInv
<1>4. KeysInv' /\ KeyCounts' BY <1>1, KeysKept, KeyCountsStep, Zenon DEF EndpointsInv
<1> QED BY <1>2, <1>3, <1>4 DEF EndpointsInv

\* Peripherals, fingers and keys keep their types: no place outside the screen is
\* posted, no slot outside the backend's is named, the generation of a gesture and
\* the queue of keys stay within their bounds.
THEOREM EndpointsTyped == MCSpec => []EndpointsTypeOK
<1>1. EndpointsInv => EndpointsTypeOK
  BY TouchTyped, KeysAreTyped DEF EndpointsInv, EndpointsTypeOK
<1> QED BY <1>1, EndpointsStart, EndpointsStep, PTL DEF MCSpec

=================================================================================
