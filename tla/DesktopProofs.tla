----------------------------- MODULE DesktopProofs -----------------------------
(***************************************************************************)
(* Proofs about DesktopClient: for any number of sessions, any queue and     *)
(* any choice of threads, the worker implements SessionLife.                 *)
(***************************************************************************)
EXTENDS DesktopClient, SequenceTheorems, TLAPS

USE DesktopAssumption DEF Ids, None, Reserved

Window == [connecting : BOOLEAN, connected : BOOLEAN,
           control : Ids \cup {None}, prompt : {"none", "ask", "again"},
           mic : BOOLEAN, cam : BOOLEAN, picked : BOOLEAN]

Commands ==
    {<<"connect">>, <<"disconnect">>} \cup ({"pin"} \X {"right", "wrong", "malformed"})
        \cup ({"mic", "camera"} \X BOOLEAN) \cup ({"mode"} \X Modes)
        \cup ({"caps"} \X Ids \X BOOLEAN) \cup ({"capsTimeout", "retry", "closed"} \X Ids)

\* Ids are used in order, and every thread, reason and session has one of them.
Numbered ==
    /\ scope \in Scopes /\ next \in 1..(MaxSessions + 1)
    /\ active \in 0..(next - 1) /\ ended \subseteq 1..(next - 1)
    /\ threads \in [Ids -> SUBSET Runtime]
    /\ \A s \in Ids : threads[s] # {} => s < next
    /\ links \subseteq Ids /\ serving \in 0..Reserved
    /\ serving # Reserved => serving < next

Requests == {"no", "hello", "pair", "right", "wrong"}

\* While the daemon waits for a PIN, or the worker for a connection, the window
\* shows no session.
WindowAsks ==
    /\ ui \in Window /\ asked \in Requests
    /\ serving = Reserved \/ asked \in {"hello", "pair"} => ui.connected = FALSE

\* A control thread finds its link gone only when its session had a cause to end.
LostHasCause == \A s \in Ids : "control" \in threads[s] /\ s \notin links => s \in ended

Core == Numbered /\ WindowAsks /\ LostHasCause

\* So that every report of an end that is still on its way has a cause.
Grounded(c) == c \in Commands /\ (c[1] = "closed" => c[2] \in ended)

Channel ==
    /\ queue \in Seq(Commands) /\ \A i \in 1..Len(queue) : Grounded(queue[i])
    /\ held # <<>> => Grounded(held)

LifeStep == Life!LifeNext \/ UNCHANGED Life!lifeVars

-----------------------------------------------------------------------------
(* What a step does to the sessions is one of five things. *)

\* Nothing: the window may change its switches, its prompt and its spinner, and
\* the daemon may stop waiting.
LEMMA Elsewhere ==
    ASSUME Core, UNCHANGED <<scope, active, next, ended, threads, links>>,
           serving' \in {serving, None}, asked' \in {asked, "no", "right", "wrong"},
           ui' \in Window, ui'.connected = ui.connected, ui'.control = ui.control
    PROVE  Core' /\ UNCHANGED Life!lifeVars
BY DEF Requests, Core, Numbered, WindowAsks, LostHasCause, Life!lifeVars

\* The window goes off; the daemon may wait for a PIN, or no longer.
LEMMA GoesOff ==
    ASSUME Core, UNCHANGED <<scope, active, next, ended, threads, links>>,
           serving' \in {serving, None, Reserved}, asked' \in Requests,
           ui' \in Window, ui'.connected = FALSE
    PROVE  Core' /\ Life!Hides
BY DEF Core, Numbered, WindowAsks, LostHasCause, Life!Hides

\* A session opens or fails to: the handlers of a connect and of a PIN.
LEMMA Opening ==
    ASSUME Core, UNCHANGED scope, asked' = "no",
           NEW window \in Window, window.connected = FALSE, Activate(window)
    PROVE  Core' /\ Life!Opens
<1> USE DEF Core, Numbered, WindowAsks, Requests, LostHasCause
<1>1. next \in Ids /\ next' = next + 1
  BY DEF Activate
<1>2. CASE /\ active' = next
           /\ threads' = [threads EXCEPT ![next] = scope.threads]
           /\ ui' = [window EXCEPT !.connecting = FALSE, !.connected = TRUE,
                                   !.control = next, !.prompt = "none"]
           /\ serving' = next /\ links' = links \cup {next}
           /\ ended' = ended \cup ({active} \ {None})
  <2>1. ui' \in Window /\ ui'.connected = TRUE /\ ui'.control = next
    BY <1>1, <1>2 DEF Window
  <2>2. scope.threads \subseteq Runtime BY <1>1
  <2>3. Numbered'
    <3>1. next' \in 1..(MaxSessions + 1) /\ active' \in 0..(next' - 1) BY <1>1, <1>2
    <3>2. ended' \subseteq 1..(next' - 1) BY <1>1, <1>2
    <3>3. threads' \in [Ids -> SUBSET Runtime] BY <1>1, <1>2, <2>2
    <3>4. \A s \in Ids : threads'[s] # {} => s < next'
      <4>1. \A s \in Ids : s # next => threads'[s] = threads[s] BY <1>1, <1>2
      <4>2. \A s \in Ids : s < next => s < next' BY <1>1
      <4>3. next < next' BY <1>1
      <4> QED BY <4>1, <4>2, <4>3
    <3>5. links' \subseteq Ids /\ serving' \in 0..Reserved /\ serving' < next'
      BY <1>1, <1>2
    <3> QED BY <3>1, <3>2, <3>3, <3>4, <3>5
  <2>4. WindowAsks' BY <1>1, <1>2, <2>1
  <2>5. LostHasCause' BY <1>1, <1>2
  <2>6. Life!Opens BY <1>1, <1>2, <2>1 DEF Life!Opens
  <2> QED BY <2>3, <2>4, <2>5, <2>6
<1>3. CASE /\ ui' = [window EXCEPT !.connecting = FALSE] /\ serving' = None
           /\ UNCHANGED <<active, threads, links, ended>>
  <2>1. ui' \in Window /\ ui'.connected = FALSE
    BY <1>3 DEF Window
  <2>2. Numbered' /\ LostHasCause'
    <3>1. next' \in 1..(MaxSessions + 1) /\ active' \in 0..(next' - 1) BY <1>1, <1>3
    <3>2. ended' \subseteq 1..(next' - 1) BY <1>1, <1>3
    <3>3. \A s \in Ids : threads'[s] # {} => s < next' BY <1>1, <1>3
    <3>4. serving' \in 0..Reserved /\ serving' < next' BY <1>1, <1>3
    <3>5. LostHasCause' BY <1>3
    <3> QED BY <1>3, <3>1, <3>2, <3>3, <3>4, <3>5
  <2>3. WindowAsks' BY <1>3, <2>1
  <2>4. Life!Opens BY <1>1, <1>3, <2>1 DEF Life!Opens
  <2> QED BY <2>2, <2>3, <2>4
<1> QED BY <1>2, <1>3 DEF Activate

LEMMA WindowIsOff ==
    ASSUME ui \in Window
    PROVE  WindowOff \in Window /\ WindowOff.connected = FALSE
BY DEF Window, WindowOff

LEMMA Connecting ==
    ASSUME Core, UNCHANGED scope, Connect PROVE Core' /\ LifeStep /\ ended \subseteq ended'
<1>1. ui \in Window /\ asked \in Requests BY DEF Core, WindowAsks
<1>2. /\ ui' \in {WindowOff, [WindowOff EXCEPT !.connecting = TRUE]}
      /\ asked' \in {asked, "hello", "pair"}
      /\ UNCHANGED <<active, next, runtime, daemon, ended>>
  BY DEF Connect
<1>3. ui' \in Window /\ ui'.connected = FALSE BY <1>1, <1>2, WindowIsOff DEF Window
<1>4. asked' \in Requests BY <1>1, <1>2 DEF Requests
<1> QED BY <1>2, <1>3, <1>4, GoesOff DEF runtime, daemon, LifeStep, Life!LifeNext

\* The handshake's answer is read.
LEMMA Answering ==
    ASSUME Core, ConnectAnswered PROVE Core' /\ LifeStep /\ ended \subseteq ended'
<1>1. asked' = "no" /\ UNCHANGED scope BY DEF ConnectAnswered, Answered
<1>2. asked \in {"hello", "pair"} BY DEF ConnectAnswered
<1>3. ui \in Window /\ ui.connected = FALSE BY <1>2 DEF Core, WindowAsks
<1>4. CASE Activate(ui)
  <2>1. ended \subseteq ended' BY <1>4 DEF Activate
  <2> QED BY <1>1, <1>3, <1>4, <2>1, Opening DEF LifeStep, Life!LifeNext
<1>5. CASE /\ serving' = Reserved
           /\ ui' = [ui EXCEPT !.connecting = FALSE, !.prompt = "ask"]
           /\ UNCHANGED <<active, next, runtime, links, ended>>
  <2>1. ui' \in Window /\ ui'.connected = FALSE BY <1>3, <1>5 DEF Window
  <2> QED BY <1>1, <1>5, <2>1, GoesOff DEF runtime, LifeStep, Life!LifeNext, Requests
<1>6. CASE /\ ui' = [ui EXCEPT !.connecting = FALSE]
           /\ UNCHANGED <<active, next, runtime, daemon, ended>>
  <2>1. ui' \in Window /\ ui'.connected = FALSE BY <1>3, <1>6 DEF Window
  <2> QED BY <1>1, <1>6, <2>1, GoesOff DEF runtime, daemon, LifeStep, Life!LifeNext, Requests
<1> QED BY <1>4, <1>5, <1>6 DEF ConnectAnswered

LEMMA PinAnswering ==
    ASSUME Core, PinAnswered PROVE Core' /\ LifeStep /\ ended \subseteq ended'
<1>1. asked' = "no" /\ UNCHANGED scope BY DEF PinAnswered, Answered
<1>2. ui \in Window /\ (serving = Reserved => ui.connected = FALSE) BY DEF Core, WindowAsks
<1>3. CASE serving = Reserved /\ Activate(ui)
  <2>1. ended \subseteq ended' BY <1>3 DEF Activate
  <2> QED BY <1>1, <1>2, <1>3, <2>1, Opening DEF LifeStep, Life!LifeNext
<1>4. CASE /\ serving' \in {serving, None}
           /\ ui' = [ui EXCEPT !.connecting = FALSE, !.prompt = "again"]
           /\ UNCHANGED <<active, next, runtime, links, ended>>
  <2>1. ui' \in Window /\ ui'.connected = ui.connected /\ ui'.control = ui.control
    BY <1>2, <1>4 DEF Window
  <2> QED BY <1>1, <1>4, <2>1, Elsewhere DEF LifeStep, runtime
<1> QED BY <1>3, <1>4 DEF PinAnswered

\* The active session is left, by the user or because its capabilities do not fit.
LEMMA Leaving ==
    ASSUME Core, UNCHANGED <<scope, asked>>, Disconnect PROVE Core' /\ LifeStep /\ ended \subseteq ended'
<1> USE DEF Core, Numbered, WindowAsks, LostHasCause
<1>1. /\ ui' = WindowOff /\ active' = None /\ ended' = ended \cup ({active} \ {None})
      /\ serving' = (IF serving \in {active, Reserved} THEN None ELSE serving)
      /\ links' = links \ {active}
      /\ UNCHANGED <<next, threads>>
  BY DEF Disconnect, DaemonLeaves
<1>2. ui' \in Window /\ ui'.connected = FALSE BY <1>1, WindowIsOff
<1>3. Numbered' BY <1>1
<1>4. WindowAsks' BY <1>1, <1>2
<1>5. LostHasCause' BY <1>1
<1>6. CASE active = None
  BY <1>1, <1>2, <1>6 DEF LifeStep, Life!LifeNext, Life!Hides
<1>7. CASE active # None
  BY <1>1, <1>2, <1>7 DEF LifeStep, Life!LifeNext, Life!Closes
<1> QED BY <1>1, <1>3, <1>4, <1>5, <1>6, <1>7

\* A cause arises for session s: its datagrams stay away, or the daemon leaves it.
LEMMA Causing ==
    ASSUME Core, NEW s \in Ids, s < next, ended' = ended \cup {s},
           UNCHANGED <<scope, asked, active, next, ui>>,
           threads' \in [Ids -> SUBSET Runtime], \A t \in Ids : threads'[t] \subseteq threads[t],
           links' \in {links, links \ {s}}, serving' \in {serving, None}
    PROVE  Core' /\ LifeStep
<1> USE DEF Core, Numbered, WindowAsks, LostHasCause
<1>1. Numbered'
  <2>1. \A t \in Ids : threads'[t] # {} => t < next OBVIOUS
  <2> QED BY <2>1
<1>2. WindowAsks' OBVIOUS
<1>3. LostHasCause' OBVIOUS
<1>4. Life!Doom BY DEF Life!Doom
<1> QED BY <1>1, <1>2, <1>3, <1>4 DEF LifeStep, Life!LifeNext

\* A thread ends that no report of an end depends on, or only sends a message.
LEMMA Returning ==
    ASSUME Core, threads' \in [Ids -> SUBSET Runtime],
           \A t \in Ids : threads'[t] \subseteq threads[t],
           UNCHANGED <<scope, asked, active, next, ended, links, serving, ui>>
    PROVE  Core' /\ LifeStep
<1> USE DEF Core, Numbered, WindowAsks, LostHasCause
<1>1. Numbered'
  <2>1. \A t \in Ids : threads'[t] # {} => t < next OBVIOUS
  <2> QED BY <2>1
<1>2. WindowAsks' /\ LostHasCause' OBVIOUS
<1> QED BY <1>1, <1>2 DEF LifeStep, Life!lifeVars

\* The report of the end of session s is handled: if it is the active one, there
\* was a cause.
LEMMA Closing ==
    ASSUME Core, UNCHANGED <<scope, asked>>, NEW s \in ended, SessionClosed(s) PROVE Core' /\ LifeStep
<1> USE DEF Core, Numbered, WindowAsks, LostHasCause
<1>1. CASE active # s /\ UNCHANGED <<worker, media, ui, daemon, runtime, ended>>
  <2>1. UNCHANGED <<scope, active, next, ended, threads, links, serving, ui>>
    BY <1>1 DEF worker, daemon, runtime
  <2> QED BY <2>1, Elsewhere DEF LifeStep
<1>2. CASE /\ active = s /\ active' = None /\ ui' = WindowOff
           /\ serving' \in {serving, None} /\ UNCHANGED <<next, links, runtime, ended>>
  <2>1. ui' \in Window /\ ui'.connected = FALSE BY <1>2, WindowIsOff
  <2>2. Numbered' /\ LostHasCause' BY <1>2 DEF runtime
  <2>3. WindowAsks' BY <2>1
  <2>4. Life!Closes BY <1>2, <2>1 DEF Life!Closes
  <2> QED BY <2>2, <2>3, <2>4 DEF LifeStep, Life!LifeNext
<1> QED BY <1>1, <1>2 DEF SessionClosed

LEMMA Submitting ==
    ASSUME Core, UNCHANGED scope, NEW pin \in {"right", "wrong", "malformed"}, SubmitPin(pin)
    PROVE  Core' /\ LifeStep /\ ended \subseteq ended'
<1>1. ui \in Window BY DEF Core, WindowAsks
<1>2. /\ asked' \in {asked, "right", "wrong"} /\ ui' \in {ui, [ui EXCEPT !.connecting = TRUE]}
      /\ UNCHANGED <<active, next, runtime, daemon, ended>>
  BY DEF SubmitPin
<1>3. ui' \in Window /\ ui'.connected = ui.connected /\ ui'.control = ui.control
  BY <1>1, <1>2 DEF Window
<1> QED BY <1>2, <1>3, Elsewhere DEF LifeStep, runtime, daemon

\* Every command that the worker handles maps to a step of SessionLife or to
\* none, and causes are never taken back.
LEMMA Dispatching ==
    ASSUME Core, NEW VARIABLE c, Grounded(c), Dispatch(c)
    PROVE  Core' /\ LifeStep /\ ended \subseteq ended'
<1>1. UNCHANGED scope BY DEF Dispatch
<1>2. ASSUME UNCHANGED <<asked, active, next, runtime, serving, links, ended>>,
             ui' \in {ui, [ui EXCEPT !.cam = FALSE]}
      PROVE  Core' /\ LifeStep /\ ended \subseteq ended'
  <2>1. ui \in Window BY DEF Core, WindowAsks
  <2>2. ui' \in Window /\ ui'.connected = ui.connected /\ ui'.control = ui.control
    BY <1>2, <2>1 DEF Window
  <2> QED BY <1>1, <1>2, <2>2, Elsewhere DEF LifeStep, runtime
<1>3. CASE Connect BY <1>1, <1>3, Connecting
<1>4. CASE c[1] = "pin" /\ SubmitPin(c[2])
  <2>1. c[2] \in {"right", "wrong", "malformed"} BY <1>4 DEF Grounded, Commands
  <2> QED BY <1>1, <1>4, <2>1, Submitting
<1>5. CASE UNCHANGED asked /\ Disconnect BY <1>1, <1>5, Leaving
<1>6. CASE UNCHANGED asked /\ (\/ SetMic(c[2]) \/ SetCamera(c[2]) \/ SetCameraMode(c[2]) \/ CapsTimeout(c[2]))
  <2>1. UNCHANGED <<active, next, runtime, serving, links, ended>>
    BY <1>6 DEF SetMic, SetCamera, SetCameraMode, CapsTimeout, worker, daemon
  <2>2. ui' \in {ui, [ui EXCEPT !.cam = FALSE]}
    BY <1>6 DEF SetMic, SetCamera, SetCameraMode, CapsTimeout
  <2> QED BY <1>2, <1>6, <2>1, <2>2
<1>7. CASE UNCHANGED asked /\ CapsReceived(c[2], c[3])
  <2>1. CASE Disconnect BY <1>5, <1>7, <2>1
  <2>2. CASE UNCHANGED <<active, next, ui, runtime, daemon, ended>>
    BY <1>2, <1>7, <2>2 DEF daemon
  <2> QED BY <1>7, <2>1, <2>2 DEF CapsReceived, worker
<1>8. CASE RetryBlankStream(c[2])
  <2>1. CASE Connect BY <1>3, <2>1
  <2>2. CASE UNCHANGED <<asked, active, next, ui, runtime, daemon, ended>>
    BY <1>2, <2>2 DEF daemon
  <2> QED BY <1>8, <2>1, <2>2 DEF RetryBlankStream, worker
<1>9. CASE UNCHANGED asked /\ c[1] = "closed" /\ SessionClosed(c[2])
  <2>1. c[2] \in ended BY <1>9 DEF Grounded
  <2>2. ended' = ended BY <1>9 DEF SessionClosed
  <2> QED BY <1>1, <1>9, <2>1, <2>2, Closing
<1> QED BY <1>3, <1>4, <1>5, <1>6, <1>7, <1>8, <1>9 DEF Dispatch

-----------------------------------------------------------------------------
(* The channel. *)

LEMMA ChannelStays ==
    ASSUME Channel, ended \subseteq ended', UNCHANGED channel PROVE Channel'
BY DEF Channel, Grounded, channel

LEMMA ChannelGrows ==
    ASSUME Channel, ended \subseteq ended', NEW c \in Commands, Send(c),
           c[1] = "closed" => c[2] \in ended'
    PROVE  Channel'
<1>1. queue \in Seq(Commands) /\ queue' = Append(queue, c) /\ held' = held
  BY DEF Channel, Send
<1>2. queue' \in Seq(Commands) /\ Len(queue') = Len(queue) + 1
  BY <1>1, AppendProperties
<1>3. ASSUME NEW i \in 1..Len(queue') PROVE queue'[i] \in Commands
                                            /\ (queue'[i][1] = "closed" => queue'[i][2] \in ended')
  <2>1. CASE i = Len(queue) + 1
    <3>1. queue'[i] = c BY <1>1, <2>1, AppendProperties
    <3> QED BY <3>1
  <2>2. CASE i \in 1..Len(queue)
    <3>1. queue'[i] = queue[i] BY <1>1, <2>2, AppendProperties
    <3>2. Grounded(queue[i]) BY <2>2 DEF Channel
    <3> QED BY <3>1, <3>2 DEF Grounded
  <2> QED BY <1>1, <1>2, <2>1, <2>2, LenProperties
<1>4. (held # <<>> => Grounded(held))' BY <1>1 DEF Channel, Grounded
<1> QED BY <1>2, <1>3, <1>4 DEF Channel, Grounded

LEMMA ChannelShrinks ==
    ASSUME Channel, ended \subseteq ended', queue # <<>>, queue' = Tail(queue),
           held' \in {held, Head(queue)}
    PROVE  Channel'
<1>1. queue \in Seq(Commands) /\ Head(queue) = queue[1] /\ Len(queue) \in Nat \ {0}
  BY LenProperties, EmptySeq, HeadTailProperties DEF Channel
<1>2. /\ queue' \in Seq(Commands) /\ Len(queue') = Len(queue) - 1
      /\ \A i \in 1..Len(queue') : queue'[i] = queue[i + 1]
  BY <1>1, HeadTailProperties
<1>3. \A i \in 1..Len(queue) : Grounded(queue[i]) BY DEF Channel
<1>4. \A i \in 1..Len(queue') : Grounded(queue[i + 1]) BY <1>1, <1>2, <1>3
<1>5. (\A i \in 1..Len(queue) : Grounded(queue[i]))' BY <1>2, <1>4 DEF Grounded
<1>6. (held # <<>> => Grounded(held))' BY <1>1, <1>3 DEF Channel, Grounded
<1> QED BY <1>2, <1>5, <1>6 DEF Channel

\* What the window sends.
LEMMA Clicking ==
    ASSUME Core, Channel,
           UNCHANGED <<scope, asked, active, next, ended, threads, links, serving>>,
           ui' \in Window, ui'.connected = ui.connected, ui'.control = ui.control,
           NEW c \in Commands, c[1] # "closed", Send(c)
    PROVE  Core' /\ Channel' /\ LifeStep
<1>1. Channel' BY ChannelGrows
<1> QED BY <1>1, Elsewhere DEF LifeStep

-----------------------------------------------------------------------------
(* The refinement. *)

LifeInv == Core /\ Channel

LEMMA LifeInvInit == Init => LifeInv /\ Life!LifeInit
<1> SUFFICES ASSUME Init PROVE LifeInv /\ Life!LifeInit OBVIOUS
<1>1. Numbered /\ LostHasCause BY DEF Init, Numbered, LostHasCause
<1>2. WindowAsks BY DEF Init, WindowAsks, Window, Requests
<1>3. queue \in Seq(Commands) /\ Len(queue) = 0 BY EmptySeq DEF Init
<1>4. Channel BY <1>3 DEF Init, Channel
<1>5. Life!LifeInit BY DEF Init, Life!LifeInit
<1> QED BY <1>1, <1>2, <1>4, <1>5 DEF LifeInv, Core

\* The window's actions.
LEMMA UserStep ==
    ASSUME LifeInv,
           \/ UserConnects \/ UserEntersPin \/ UserDisconnects \/ UserTogglesMic
           \/ UserPicksMode \/ UserTogglesCamera \/ UserForgets
    PROVE  LifeInv' /\ LifeStep
<1> USE DEF LifeInv, Clicks, worker, runtime, daemon
<1>1. ui \in Window BY DEF Core, WindowAsks
<1>2. CASE UserConnects
  <2>1. ui' \in Window /\ ui'.connected = ui.connected /\ ui'.control = ui.control
    BY <1>1, <1>2 DEF UserConnects, Window
  <2>2. <<"connect">> \in Commands BY DEF Commands
  <2>3. Send(<<"connect">>) /\ <<"connect">>[1] = "connect" BY <1>2 DEF UserConnects
  <2> QED BY <1>2, <2>1, <2>2, <2>3, Clicking DEF UserConnects
<1>3. CASE UserEntersPin
  <2>1. ui' \in Window /\ ui'.connected = ui.connected /\ ui'.control = ui.control
    BY <1>1, <1>3 DEF UserEntersPin, Window
  <2>2. PICK pin \in {"right", "wrong", "malformed"} : Send(<<"pin", pin>>)
    BY <1>3 DEF UserEntersPin
  <2>3. <<"pin", pin>> \in Commands /\ <<"pin", pin>>[1] # "closed" BY DEF Commands
  <2> QED BY <1>3, <2>1, <2>2, <2>3, Clicking DEF UserEntersPin
<1>4. CASE UserDisconnects
  <2>1. <<"disconnect">> \in Commands BY DEF Commands
  <2>2. Send(<<"disconnect">>) /\ <<"disconnect">>[1] # "closed"
    BY <1>4 DEF UserDisconnects
  <2> QED BY <1>1, <1>4, <2>1, <2>2, Clicking DEF UserDisconnects
<1>5. CASE UserTogglesMic
  <2>1. ui' \in Window /\ ui'.connected = ui.connected /\ ui'.control = ui.control
    BY <1>1, <1>5 DEF UserTogglesMic, Window
  <2>2. PICK on \in BOOLEAN : on = ui'.mic BY <2>1 DEF Window
  <2>3. Send(<<"mic", on>>) BY <1>5, <2>2 DEF UserTogglesMic
  <2>4. <<"mic", on>> \in Commands /\ <<"mic", on>>[1] # "closed" BY DEF Commands
  <2> QED BY <1>5, <2>1, <2>3, <2>4, Clicking DEF UserTogglesMic
<1>6. CASE UserPicksMode
  <2>1. ui' \in Window /\ ui'.connected = ui.connected /\ ui'.control = ui.control
    BY <1>1, <1>6 DEF UserPicksMode, Window
  <2>2. PICK m \in Modes : Send(<<"mode", m>>) BY <1>6 DEF UserPicksMode
  <2>3. <<"mode", m>> \in Commands /\ <<"mode", m>>[1] # "closed" BY DEF Commands
  <2> QED BY <1>6, <2>1, <2>2, <2>3, Clicking DEF UserPicksMode
<1>7. CASE UserTogglesCamera
  <2>1. ui' \in Window /\ ui'.connected = ui.connected /\ ui'.control = ui.control
    BY <1>1, <1>7 DEF UserTogglesCamera, Window
  <2>2. PICK on \in BOOLEAN : on = ui'.cam BY <2>1 DEF Window
  <2>3. Send(<<"camera", on>>) BY <1>7, <2>2 DEF UserTogglesCamera
  <2>4. <<"camera", on>> \in Commands /\ <<"camera", on>>[1] # "closed" BY DEF Commands
  <2> QED BY <1>7, <2>1, <2>3, <2>4, Clicking DEF UserTogglesCamera
<1>8. CASE UserForgets
  <2>1. Channel' BY <1>8, ChannelStays DEF UserForgets
  <2> QED BY <1>1, <1>8, <2>1, Elsewhere DEF UserForgets, LifeStep
<1> QED BY <1>2, <1>3, <1>4, <1>5, <1>6, <1>7, <1>8

\* The worker's turns.
LEMMA WorkerStep ==
    ASSUME LifeInv, Receive \/ Drain \/ DispatchHeld \/ ConnectAnswered \/ PinAnswered
    PROVE  LifeInv' /\ LifeStep
<1> USE DEF LifeInv
<1>1. ui \in Window BY DEF Core, WindowAsks
<1>2. CASE Receive
  <2>1. Channel' BY <1>2, ChannelShrinks DEF Receive
  <2> QED BY <1>1, <1>2, <2>1, Elsewhere DEF Receive, LifeStep, worker, runtime, daemon
<1>3. CASE Drain
  <2>1. Grounded(Head(queue))
    <3>1. Len(queue) \in Nat \ {0} /\ Head(queue) = queue[1]
      BY <1>3, EmptySeq DEF Channel, Drain
    <3> QED BY <3>1 DEF Channel
  <2>2. Core' /\ LifeStep /\ ended \subseteq ended' BY <1>3, <2>1, Dispatching DEF Drain
  <2>3. Channel' BY <1>3, <2>2, ChannelShrinks DEF Drain
  <2> QED BY <2>2, <2>3
<1>4. CASE DispatchHeld
  <2>1. Core' /\ LifeStep /\ ended \subseteq ended'
    BY <1>4, Dispatching DEF DispatchHeld, Channel
  <2>2. Channel' BY <1>4, <2>1 DEF DispatchHeld, Channel, Grounded
  <2> QED BY <2>1, <2>2
<1>5. CASE ConnectAnswered \/ PinAnswered
  <2>1. UNCHANGED channel BY <1>5 DEF ConnectAnswered, PinAnswered, Answered
  <2>2. Core' /\ LifeStep /\ ended \subseteq ended' BY <1>5, Answering, PinAnswering
  <2> QED BY <2>1, <2>2, ChannelStays
<1> QED BY <1>2, <1>3, <1>4, <1>5

\* The threads of session s.
LEMMA ThreadStep ==
    ASSUME LifeInv, NEW s \in Ids,
           \/ Threads(s) \/ ControlReadsCaps(s) \/ UdpTimesOut(s) \/ DecoderSeesBlack(s)
    PROVE  LifeInv' /\ LifeStep
<1> USE DEF LifeInv, Beside, worker, daemon
<1>1. ASSUME NEW t, Ends(s, t)
      PROVE  /\ threads' \in [Ids -> SUBSET Runtime] /\ s < next
             /\ \A u \in Ids : threads'[u] \subseteq threads[u]
  BY <1>1 DEF Ends, Core, Numbered
<1>2. CASE ControlStops(s) \/ UdpStops(s) \/ DecoderStops(s)
  <2>1. PICK t : Ends(s, t) BY <1>2 DEF ControlStops, UdpStops, DecoderStops
  <2>2. UNCHANGED <<channel, ended>> BY <1>2 DEF ControlStops, UdpStops, DecoderStops
  <2>3. Beside BY <1>2 DEF ControlStops, UdpStops, DecoderStops
  <2>4. Channel' BY <2>2, ChannelStays
  <2> QED BY <1>1, <2>1, <2>2, <2>3, <2>4, Returning
<1>3. CASE ControlLost(s)
  <2>1. s \in ended BY <1>3 DEF ControlLost, Ends, Core, LostHasCause
  <2>2. <<"closed", s>> \in Commands BY DEF Commands
  <2>3. Channel' BY <1>3, <2>1, <2>2, ChannelGrows DEF ControlLost
  <2> QED BY <1>1, <1>3, <2>3, Returning DEF ControlLost
<1>4. CASE UdpTimesOut(s)
  <2>1. <<"closed", s>> \in Commands BY DEF Commands
  <2>2. Channel' BY <1>4, <2>1, ChannelGrows DEF UdpTimesOut
  <2>3. Ends(s, "udp") /\ Beside /\ ended' = ended \cup {s} BY <1>4 DEF UdpTimesOut
  <2> QED BY <1>1, <2>2, <2>3, Causing
<1>5. CASE CapsTimer(s)
  <2>1. Ends(s, "caps") /\ Beside /\ ended' = ended BY <1>5 DEF CapsTimer
  <2>2. <<"capsTimeout", s>> \in Commands /\ <<"capsTimeout", s>>[1] # "closed"
    BY DEF Commands
  <2>3. Channel'
    <3>1. CASE stop[s] BY <1>5, <2>1, <3>1, ChannelStays DEF CapsTimer
    <3>2. CASE ~stop[s] BY <1>5, <2>1, <2>2, <3>2, ChannelGrows DEF CapsTimer
    <3> QED BY <3>1, <3>2
  <2> QED BY <1>1, <2>1, <2>3, Returning
<1>6. CASE DecoderSeesBlack(s)
  <2>1. Ends(s, "decoder") /\ Beside /\ ended' = ended BY <1>6 DEF DecoderSeesBlack
  <2>2. <<"retry", s>> \in Commands /\ <<"retry", s>>[1] # "closed" BY DEF Commands
  <2>3. Channel' BY <1>6, <2>1, <2>2, ChannelGrows DEF DecoderSeesBlack
  <2> QED BY <1>1, <2>1, <2>3, Returning
<1>7. CASE ControlReadsCaps(s)
  <2>1. PICK fits \in BOOLEAN : Send(<<"caps", s, fits>>) BY <1>7 DEF ControlReadsCaps
  <2>2. <<"caps", s, fits>> \in Commands /\ <<"caps", s, fits>>[1] # "closed"
    BY DEF Commands
  <2>3. UNCHANGED <<threads, ended>> /\ Beside BY <1>7 DEF ControlReadsCaps
  <2>4. Channel' BY <2>1, <2>2, <2>3, ChannelGrows
  <2>5. threads' \in [Ids -> SUBSET Runtime] BY <2>3 DEF Core, Numbered
  <2> QED BY <2>3, <2>4, <2>5, Returning
<1> QED BY <1>2, <1>3, <1>4, <1>5, <1>6, <1>7 DEF Threads

\* The daemon's own turns.
LEMMA DaemonStep ==
    ASSUME LifeInv, DaemonDrops \/ PinTimesOut PROVE LifeInv' /\ LifeStep
<1> USE DEF LifeInv, worker, runtime
<1>1. CASE DaemonDrops
  <2>1. /\ serving \in Ids /\ serving < next /\ ended' = ended \cup {serving}
        /\ threads \in [Ids -> SUBSET Runtime]
    BY <1>1 DEF DaemonDrops, Core, Numbered
  <2>2. serving' = None /\ links' = links \ {serving}
    BY <1>1 DEF DaemonDrops, DaemonLeaves
  <2>3. UNCHANGED <<scope, channel, asked, active, next, ui, threads>> BY <1>1 DEF DaemonDrops
  <2>4. Channel' BY <2>1, <2>3, ChannelStays
  <2>5. Core' /\ LifeStep BY <2>1, <2>2, <2>3, Causing
  <2> QED BY <2>4, <2>5
<1>2. CASE PinTimesOut
  <2>1. Channel' BY <1>2, ChannelStays DEF PinTimesOut
  <2>2. ui \in Window BY DEF Core, WindowAsks
  <2> QED BY <1>2, <2>1, <2>2, Elsewhere DEF PinTimesOut, LifeStep
<1> QED BY <1>1, <1>2

LEMMA LifeInvNext == LifeInv /\ [Next]_vars => LifeInv' /\ [Life!LifeNext]_Life!lifeVars
<1> SUFFICES ASSUME LifeInv, [Next]_vars PROVE LifeInv' /\ LifeStep BY DEF LifeStep
<1>1. CASE UNCHANGED vars
  <2>1. UNCHANGED <<scope, channel, asked, active, next, ended, threads, links, serving, ui>>
    BY <1>1 DEF vars, worker, runtime, daemon
  <2>2. Channel' BY <2>1, ChannelStays DEF LifeInv
  <2> QED BY <2>1, <2>2, Elsewhere DEF LifeInv, LifeStep, Core, WindowAsks
<1> QED BY <1>1, UserStep, WorkerStep, ThreadStep, DaemonStep DEF Next

\* Whatever the threads of past sessions still report, and in whatever order the
\* worker takes the queue (run, dispatch), a session ends for a cause of its own
\* and the window shows no other than the current one.
THEOREM WorkerImplementsLife == Spec => ImplementsSessionLife
<1>1. Init => LifeInv /\ Life!LifeInit BY LifeInvInit
<1>2. LifeInv /\ [Next]_vars => LifeInv' /\ [Life!LifeNext]_Life!lifeVars BY LifeInvNext
<1> QED BY <1>1, <1>2, PTL DEF Spec, ImplementsSessionLife, Life!LifeSpec

-----------------------------------------------------------------------------
(* Types, the devices and the capabilities. *)

Cameras  == Modes \cup {Default, Off}
Outcomes == {"open", "sent", "refused", "legacy"}
DmnType  == [mic : BOOLEAN, cam : Cameras]

\* The worker's fields, and the daemon's devices.
WorkerTyped ==
    /\ pending \in BOOLEAN /\ retried \in BOOLEAN /\ keyed \in BOOLEAN
    /\ resolved \in [Ids -> Outcomes] /\ stop \in [Ids -> BOOLEAN]
    /\ sel \in Modes \cup {Default} /\ cam \in Cameras /\ mic \in BOOLEAN
    /\ dmn \in DmnType /\ capsDue \subseteq Ids

\* The values of a command.
LEMMA Arguments ==
    ASSUME NEW VARIABLE c, c \in Commands
    PROVE  /\ Len(c) \in 0..3
           /\ c[1] \in {"mic", "camera"} => c[2] \in BOOLEAN
           /\ c[1] = "mode" => c[2] \in Modes
           /\ c[1] \in {"caps", "capsTimeout", "retry", "closed"} => c[2] \in Ids
BY DEF Commands

\* What the daemon runs after a command.
LEMMA MicTold ==
    ASSUME NEW r \in DmnType, NEW b \in BOOLEAN
    PROVE  /\ [r EXCEPT !["mic"] = b] \in DmnType
           /\ [r EXCEPT !["mic"] = b].mic = b /\ [r EXCEPT !["mic"] = b].cam = r.cam
BY DEF DmnType

LEMMA CamTold ==
    ASSUME NEW r \in DmnType, NEW m \in Cameras
    PROVE  /\ [r EXCEPT !["cam"] = m] \in DmnType
           /\ [r EXCEPT !["cam"] = m].mic = r.mic /\ [r EXCEPT !["cam"] = m].cam = m
BY DEF DmnType

LEMMA ActivateTyped ==
    ASSUME Core, WorkerTyped, NEW window, Activate(window)
    PROVE  /\ cam' \in Cameras /\ mic' \in BOOLEAN /\ dmn' \in DmnType
           /\ capsDue' \subseteq Ids /\ UNCHANGED <<sel, stop, resolved>>
           /\ DevicesAgree'
<1>1. next \in Ids BY DEF Activate, Core, Numbered
<1>2. CASE /\ Hush /\ dmn' = Silent /\ capsDue' = capsDue \cup {next}
           /\ UNCHANGED <<sel, stop, resolved>>
  BY <1>1, <1>2 DEF Hush, Silent, WorkerTyped, Cameras, DmnType, DevicesAgree
<1>3. CASE /\ serving' = None /\ UNCHANGED <<active, cam, mic, links, dmn, capsDue, sel, stop, resolved>>
  BY <1>3 DEF WorkerTyped, DevicesAgree
<1> QED BY <1>2, <1>3 DEF Activate

LEMMA AnswerTyped ==
    ASSUME Core, WorkerTyped, DevicesAgree, ConnectAnswered \/ PinAnswered
    PROVE  WorkerTyped' /\ DevicesAgree' /\ UNCHANGED resolved
<1>1. retried' = retried BY DEF ConnectAnswered, PinAnswered, Answered
<1>2. CASE Activate(ui) /\ UNCHANGED pending /\ keyed' \in BOOLEAN
  BY <1>1, <1>2, ActivateTyped DEF WorkerTyped
<1>3. CASE /\ pending' \in {TRUE, pending} /\ keyed' \in {keyed, TRUE}
           /\ serving' \in {serving, None, Reserved}
           /\ UNCHANGED <<active, resolved, media, runtime, links, dmn, capsDue>>
  <2>1. WorkerTyped' BY <1>1, <1>3 DEF WorkerTyped, media, runtime
  <2>2. active \in 0..MaxSessions BY DEF Core, Numbered
  <2> QED BY <1>3, <2>1, <2>2 DEF DevicesAgree, media
<1>4. keyed \in BOOLEAN BY DEF WorkerTyped
<1>5. CASE ConnectAnswered BY <1>2, <1>3, <1>4, <1>5 DEF ConnectAnswered, daemon
<1>6. CASE PinAnswered BY <1>2, <1>3, <1>4, <1>6 DEF PinAnswered
<1> QED BY <1>5, <1>6

LEMMA DisconnectTyped ==
    ASSUME Core, WorkerTyped, Disconnect, resolved' \in [Ids -> Outcomes]
    PROVE  WorkerTyped' /\ DevicesAgree'
<1>1. stop' \in [Ids -> BOOLEAN] BY DEF Disconnect, WorkerTyped
<1>2. dmn' \in DmnType /\ cam' \in Cameras /\ mic' \in BOOLEAN /\ pending' \in BOOLEAN
  BY DEF Disconnect, DaemonLeaves, WorkerTyped, Silent, Hush, DmnType, Cameras
<1>3. UNCHANGED <<retried, sel, keyed, capsDue>> /\ active' = None BY DEF Disconnect
<1> QED BY <1>1, <1>2, <1>3 DEF WorkerTyped, DevicesAgree

\* A capability is settled for good.
Settled == \A s \in Ids : resolved[s] # "open" => resolved'[s] = resolved[s]

LEMMA DispatchTyped ==
    ASSUME Core, WorkerTyped, DevicesAgree, NEW VARIABLE c, c \in Commands, Dispatch(c)
    PROVE  WorkerTyped' /\ DevicesAgree' /\ Settled
<1> USE DEF Settled
<1>1. CASE UNCHANGED <<worker, media, runtime, keyed, daemon, capsDue>>
  BY <1>1 DEF WorkerTyped, DevicesAgree, worker, media, runtime, daemon
<1>2. CASE Connect /\ retried' \in BOOLEAN
  <2>1. UNCHANGED <<active, pending, resolved, media, runtime, keyed, daemon, capsDue>>
    BY <1>2 DEF Connect
  <2> QED BY <1>2, <2>1 DEF WorkerTyped, DevicesAgree, media, runtime, daemon
<1>3. CASE SubmitPin(c[2])
  <2>1. /\ UNCHANGED <<active, retried, resolved, media, runtime, keyed, daemon, capsDue>>
        /\ pending' \in {pending, FALSE}
    BY <1>3 DEF SubmitPin
  <2> QED BY <2>1 DEF WorkerTyped, DevicesAgree, media, runtime, daemon
<1>4. CASE UNCHANGED resolved /\ Disconnect
  <2>1. resolved' \in [Ids -> Outcomes] BY <1>4 DEF WorkerTyped
  <2> QED BY <1>4, <2>1, DisconnectTyped
<1>5. CASE c[1] = "mic" /\ SetMic(c[2])
  <2>1. c[2] \in BOOLEAN BY <1>5, Arguments
  <2>2. UNCHANGED <<worker, sel, cam, runtime, keyed, serving, links, capsDue>>
    BY <1>5 DEF SetMic
  <2>3. CASE UNCHANGED <<mic, dmn>>
    BY <1>1, <2>2, <2>3 DEF media, daemon
  <2>4. CASE mic' \in {c[2], FALSE} /\ Tell("mic", mic')
    <3>1. mic' \in BOOLEAN BY <2>1, <2>4
    <3>2. dmn \in DmnType BY DEF WorkerTyped
    <3>3. /\ [dmn EXCEPT !["mic"] = mic'] \in DmnType
          /\ [dmn EXCEPT !["mic"] = mic'].mic = mic'
          /\ [dmn EXCEPT !["mic"] = mic'].cam = dmn.cam
      BY <3>1, <3>2, MicTold, Zenon
    <3>4. dmn' \in DmnType BY <2>4, <3>2, <3>3, Zenon DEF Tell
    <3>5. serving = active /\ active \in links => dmn' = [dmn EXCEPT !["mic"] = mic']
      BY <2>4 DEF Tell
    <3>6. WorkerTyped' BY <2>2, <3>1, <3>4 DEF WorkerTyped, worker, runtime
    <3>7. active' = active /\ serving' = serving /\ links' = links /\ cam' = cam
      BY <2>2 DEF worker
    <3>8. serving = active /\ active \in links =>
            dmn'.mic = mic' /\ dmn'.cam = dmn.cam
      BY <3>3, <3>5, Zenon
    <3>9. DevicesAgree' BY <3>7, <3>8, Zenon DEF DevicesAgree
    <3> QED BY <2>2, <3>6, <3>9 DEF worker
  <2> QED BY <1>5, <2>3, <2>4 DEF SetMic
<1>6. CASE SetCamera(c[2])
  <2>1. UNCHANGED <<worker, sel, mic, runtime, keyed, serving, links, capsDue>>
    BY <1>6 DEF SetCamera
  <2>2. CASE UNCHANGED <<cam, dmn>> BY <1>1, <2>1, <2>2 DEF media, daemon
  <2>3. CASE /\ cam' \in IF c[2] THEN {Off, sel} ELSE {Off}
             /\ Tell("cam", cam')
    <3>1. cam' \in Cameras BY <2>3 DEF WorkerTyped, Cameras
    <3>3. /\ [dmn EXCEPT !["cam"] = cam'] \in DmnType
          /\ [dmn EXCEPT !["cam"] = cam'].mic = dmn.mic
          /\ [dmn EXCEPT !["cam"] = cam'].cam = cam'
      BY <3>1, CamTold, Zenon DEF WorkerTyped
    <3>4. dmn' \in DmnType BY <2>3, <3>3 DEF Tell, WorkerTyped
    <3>5. serving = active /\ active \in links =>
            dmn'.mic = dmn.mic /\ dmn'.cam = cam'
      BY <2>3, <3>3 DEF Tell
    <3>6. WorkerTyped' BY <2>1, <3>1, <3>4 DEF WorkerTyped, worker, runtime
    <3>7. active' = active /\ serving' = serving /\ links' = links /\ mic' = mic
      BY <2>1 DEF worker
    <3>8. DevicesAgree' BY <3>5, <3>7, Zenon DEF DevicesAgree
    <3> QED BY <2>1, <3>6, <3>8 DEF worker
  <2> QED BY <1>6, <2>2, <2>3 DEF SetCamera
<1>7. CASE c[1] = "mode" /\ SetCameraMode(c[2])
  <2>1. c[2] \in Modes BY <1>7, Arguments
  <2>2. UNCHANGED <<worker, cam, mic, runtime, keyed, serving, links, capsDue>> /\ sel' = c[2]
    BY <1>7 DEF SetCameraMode
  <2>3. CASE UNCHANGED dmn
    BY <2>1, <2>2, <2>3 DEF WorkerTyped, DevicesAgree, worker, runtime
  <2>4. CASE cam # Off /\ Tell("cam", c[2])
    <3>1. c[2] # Off BY <2>1
    <3>2. /\ dmn' \in DmnType /\ dmn'.mic = dmn.mic
          /\ serving = active /\ active \in links => dmn'.cam = c[2]
      BY <2>1, <2>4 DEF WorkerTyped, Tell, DmnType, Cameras
    <3>3. WorkerTyped' BY <2>1, <2>2, <3>2 DEF WorkerTyped, worker, runtime
    <3>4. DevicesAgree' BY <2>2, <2>4, <3>1, <3>2, Zenon DEF DevicesAgree, worker
    <3> QED BY <2>2, <3>3, <3>4 DEF worker
  <2> QED BY <1>7, <2>3, <2>4 DEF SetCameraMode
<1>8. CASE c[1] = "caps" /\ CapsReceived(c[2], c[3])
  <2>1. c[2] \in Ids BY <1>8, Arguments
  <2>2. CASE UNCHANGED <<worker, media, ui, runtime, keyed, daemon, ended, capsDue>>
    BY <1>1, <2>2
  <2>3. CASE /\ resolved[c[2]] = "open" /\ resolved' = [resolved EXCEPT ![c[2]] = "sent"]
             /\ UNCHANGED <<active, pending, retried, media, runtime, keyed, daemon, capsDue>>
    <3>1. WorkerTyped'
      BY <2>1, <2>3 DEF WorkerTyped, Outcomes, media, runtime, daemon
    <3>2. DevicesAgree' BY <2>3 DEF DevicesAgree, media, daemon
    <3>3. Settled BY <2>3 DEF WorkerTyped
    <3> QED BY <3>1, <3>2, <3>3
  <2>4. CASE /\ resolved[c[2]] = "open" /\ resolved' = [resolved EXCEPT ![c[2]] = "refused"]
             /\ Disconnect
    <3>1. resolved' \in [Ids -> Outcomes] BY <2>4 DEF WorkerTyped, Outcomes
    <3>2. Settled BY <2>4 DEF WorkerTyped
    <3> QED BY <2>4, <3>1, <3>2, DisconnectTyped
  <2> QED BY <1>8, <2>2, <2>3, <2>4 DEF CapsReceived
<1>9. CASE CapsTimeout(c[2])
  <2>1. /\ resolved' \in [Ids -> Outcomes] /\ Settled
    BY <1>9 DEF CapsTimeout, WorkerTyped, Outcomes
  <2>2. UNCHANGED <<active, pending, retried, media, runtime, keyed, daemon, capsDue>>
    BY <1>9 DEF CapsTimeout
  <2>3. WorkerTyped' BY <2>1, <2>2 DEF WorkerTyped, media, runtime, daemon
  <2> QED BY <2>1, <2>2, <2>3 DEF DevicesAgree, media, daemon
<1>10. CASE SessionClosed(c[2])
  <2>1. UNCHANGED <<runtime, keyed, capsDue>> BY <1>10 DEF SessionClosed
  <2>2. CASE UNCHANGED <<worker, media, ui, daemon>> BY <1>1, <2>1, <2>2
  <2>3. CASE /\ active' = None /\ pending' = FALSE /\ Hush
             /\ UNCHANGED <<retried, resolved, sel, dmn>>
    BY <2>1, <2>3 DEF WorkerTyped, DevicesAgree, Hush, Cameras, runtime
  <2> QED BY <1>10, <2>2, <2>3 DEF SessionClosed
<1>11. CASE RetryBlankStream(c[2])
  <2>1. CASE UNCHANGED <<worker, media, ui, runtime, keyed, daemon, ended, capsDue>>
    BY <1>1, <2>1
  <2>2. CASE retried' = TRUE /\ Connect BY <1>2, <2>2
  <2> QED BY <1>11, <2>1, <2>2 DEF RetryBlankStream
<1>12. CASE retried' = FALSE /\ Connect BY <1>2, <1>12
<1> QED BY <1>3, <1>4, <1>5, <1>6, <1>7, <1>8, <1>9, <1>10, <1>11, <1>12 DEF Dispatch


DevInv == WorkerTyped /\ DevicesAgree

LEMMA DevInvInit == Init => DevInv
<1> SUFFICES ASSUME Init PROVE DevInv OBVIOUS
<1>1. dmn = [mic |-> FALSE, cam |-> Off] /\ keyed \in BOOLEAN /\ active = None
  BY DEF Init, Silent
<1>2. dmn \in DmnType BY <1>1 DEF DmnType, Cameras
<1>3. /\ pending \in BOOLEAN /\ retried \in BOOLEAN /\ mic \in BOOLEAN
      /\ sel \in Modes \cup {Default} /\ cam \in Cameras /\ capsDue \subseteq Ids
      /\ stop \in [Ids -> BOOLEAN]
  BY DEF Init, Cameras
<1>4. resolved \in [Ids -> Outcomes] BY DEF Init, Outcomes
<1> QED BY <1>1, <1>2, <1>3, <1>4 DEF DevInv, WorkerTyped, DevicesAgree

\* A step that leaves the worker's state, or all of it but what a user forgets.
LEMMA DevInvStays ==
    ASSUME DevInv, UNCHANGED <<worker, media, stop, serving, links, dmn>>,
           keyed' \in BOOLEAN, capsDue' \subseteq Ids
    PROVE  DevInv' /\ Settled
BY DEF DevInv, WorkerTyped, DevicesAgree, Settled, worker, media

LEMMA DevInvNext == LifeInv /\ DevInv /\ [Next]_vars => DevInv' /\ Settled
<1> SUFFICES ASSUME LifeInv, DevInv, [Next]_vars PROVE DevInv' /\ Settled OBVIOUS
<1>0. Core /\ Channel /\ keyed \in BOOLEAN /\ capsDue \subseteq Ids
  BY DEF LifeInv, DevInv, WorkerTyped
<1>1. CASE UNCHANGED vars
  BY <1>0, <1>1, DevInvStays DEF vars, runtime, daemon
<1>2. CASE \/ UserConnects \/ UserEntersPin \/ UserDisconnects \/ UserTogglesMic
           \/ UserPicksMode \/ UserTogglesCamera
  <2>1. UNCHANGED <<worker, media, runtime, keyed, daemon, capsDue>>
    BY <1>2 DEF Clicks, UserConnects, UserEntersPin, UserDisconnects, UserTogglesMic,
                UserPicksMode, UserTogglesCamera
  <2> QED BY <1>0, <2>1, DevInvStays DEF runtime, daemon
<1>3. CASE UserForgets
  BY <1>0, <1>3, DevInvStays DEF UserForgets, runtime, daemon
<1>4. CASE Receive
  BY <1>0, <1>4, DevInvStays DEF Receive, runtime, daemon
<1>5. CASE Drain
  <2>1. Head(queue) \in Commands
    <3>1. Len(queue) \in Nat \ {0} /\ Head(queue) = queue[1]
      BY <1>0, <1>5, EmptySeq DEF Channel, Drain
    <3> QED BY <1>0, <3>1 DEF Channel, Grounded
  <2> QED BY <1>0, <1>5, <2>1, DispatchTyped DEF Drain, DevInv
<1>6. CASE DispatchHeld
  <2>1. held \in Commands BY <1>0, <1>6 DEF DispatchHeld, Channel, Grounded
  <2> QED BY <1>0, <1>6, <2>1, DispatchTyped DEF DispatchHeld, DevInv
<1>10. CASE ConnectAnswered \/ PinAnswered BY <1>0, <1>10, AnswerTyped DEF DevInv, Settled
<1>7. ASSUME NEW s \in Ids,
             \/ Threads(s) \/ ControlReadsCaps(s) \/ UdpTimesOut(s) \/ DecoderSeesBlack(s)
      PROVE  DevInv' /\ Settled
  <2>1. Beside
    BY <1>7 DEF Threads, ControlStops, ControlLost, UdpStops, DecoderStops, CapsTimer,
                ControlReadsCaps, UdpTimesOut, DecoderSeesBlack
  <2>2. capsDue' \in {capsDue, capsDue \ {s}}
    BY <1>7 DEF Threads, ControlStops, ControlLost, UdpStops, DecoderStops, CapsTimer,
                ControlReadsCaps, UdpTimesOut, DecoderSeesBlack
  <2> QED BY <1>0, <2>1, <2>2, DevInvStays DEF Beside, daemon
<1>8. CASE DaemonDrops
  <2>1. /\ UNCHANGED <<worker, media, runtime, keyed, capsDue>>
        /\ serving' = None /\ dmn' \in {Silent, dmn}
    BY <1>8 DEF DaemonDrops, DaemonLeaves
  <2>2. Silent \in DmnType BY DEF Silent, DmnType, Cameras
  <2> QED BY <2>1, <2>2 DEF DevInv, WorkerTyped, DevicesAgree, Settled, worker, media, runtime
<1>9. CASE PinTimesOut
  <2>1. UNCHANGED <<worker, media, runtime, keyed, dmn, capsDue>> /\ serving' = None
    BY <1>9 DEF PinTimesOut
  <2> QED BY <2>1 DEF DevInv, WorkerTyped, DevicesAgree, Settled, worker, media, runtime
<1> QED BY <1>1, <1>2, <1>3, <1>4, <1>5, <1>6, <1>7, <1>8, <1>9, <1>10 DEF Next

LEMMA DevInvHolds == Spec => [](LifeInv /\ DevInv)
<1>1. Init => LifeInv /\ DevInv BY LifeInvInit, DevInvInit
<1>2. LifeInv /\ DevInv /\ [Next]_vars => LifeInv' /\ DevInv' BY LifeInvNext, DevInvNext
<1> QED BY <1>1, <1>2, PTL DEF Spec

\* What the daemon is told to run is what the client captures, whatever failed to
\* start and however the queue mixed the commands (handle_set_mic,
\* handle_set_camera, handle_set_camera_mode, stop_active_session).
THEOREM DevicesInStep == Spec => []DevicesAgree
BY DevInvHolds, PTL DEF DevInv

\* The CAPS message and its timeout race, and one of them settles the session's
\* capabilities for good (caps_resolved).
THEOREM CapsSettledOnce == Spec => CapsResolvedOnce
<1>1. LifeInv /\ DevInv /\ [Next]_vars =>
        [\A s \in Ids : resolved[s] # "open" => resolved'[s] = resolved[s]]_vars
  BY DevInvNext DEF Settled
<1> QED BY <1>1, DevInvHolds, PTL DEF Spec, CapsResolvedOnce

\* The channel and the clicks stay within the model's bounds.
Bounded == Len(queue) <= MaxQueue /\ clicks \in 0..scope.clicks

LEMMA BoundedNext == LifeInv /\ Bounded /\ [Next]_vars => Bounded'
<1> SUFFICES ASSUME LifeInv, Bounded, [Next]_vars PROVE Bounded' OBVIOUS
<1>1. queue \in Seq(Commands) /\ scope.clicks \in Nat
  BY DEF LifeInv, Channel, Core, Numbered
<1>2. ASSUME NEW c, Send(c) PROVE Len(queue') <= MaxQueue
  BY <1>1, <1>2 DEF Send
<1>3. ASSUME queue # <<>>, queue' = Tail(queue) PROVE Len(queue') <= MaxQueue
  BY <1>1, <1>3, HeadTailProperties DEF Bounded
<1>4. ASSUME UNCHANGED <<scope, clicks>>, Len(queue') <= MaxQueue PROVE Bounded'
  BY <1>4 DEF Bounded
<1>5. CASE UNCHANGED vars BY <1>5 DEF vars, channel, Bounded
<1>6. CASE UserConnects \/ UserEntersPin \/ UserDisconnects \/ UserTogglesMic \/ UserPicksMode
  <2>1. Clicks
    BY <1>6 DEF UserConnects, UserEntersPin, UserDisconnects, UserTogglesMic, UserPicksMode
  <2>2. Len(queue') <= MaxQueue
    BY <1>2, <1>6 DEF UserConnects, UserEntersPin, UserDisconnects, UserTogglesMic, UserPicksMode
  <2> QED BY <1>1, <2>1, <2>2 DEF Clicks, Bounded
<1>7. CASE UserTogglesCamera
  BY <1>2, <1>4, <1>7 DEF UserTogglesCamera
<1>8. CASE UserForgets
  BY <1>1, <1>8 DEF UserForgets, channel, Bounded
<1>9. CASE Receive \/ Drain
  BY <1>3, <1>4, <1>9 DEF Receive, Drain, Dispatch
<1>10. CASE DispatchHeld
  BY <1>4, <1>10 DEF DispatchHeld, Dispatch, Bounded
<1>11. ASSUME NEW s \in Ids,
              \/ Threads(s) \/ ControlReadsCaps(s) \/ UdpTimesOut(s) \/ DecoderSeesBlack(s)
       PROVE  Bounded'
  <2>1. Beside
    BY <1>11 DEF Threads, ControlStops, ControlLost, UdpStops, DecoderStops, CapsTimer,
                 ControlReadsCaps, UdpTimesOut, DecoderSeesBlack
  <2>2. UNCHANGED channel \/ \E c : Send(c)
    BY <1>11 DEF Threads, ControlStops, ControlLost, UdpStops, DecoderStops, CapsTimer,
                 ControlReadsCaps, UdpTimesOut, DecoderSeesBlack
  <2> QED BY <1>2, <1>4, <2>1, <2>2 DEF Beside, channel, Bounded
<1>12. CASE DaemonDrops \/ PinTimesOut
  BY <1>4, <1>12 DEF DaemonDrops, PinTimesOut, channel, Bounded
<1>13. CASE ConnectAnswered \/ PinAnswered
  BY <1>4, <1>13 DEF ConnectAnswered, PinAnswered, Answered, channel, Bounded
<1> QED BY <1>5, <1>6, <1>7, <1>8, <1>9, <1>10, <1>11, <1>12, <1>13 DEF Next

\* The worker, the window, the threads and the daemon keep their types, and the
\* channel its bound, through every interleaving.
THEOREM DesktopTyped == Spec => []TypeOK
<1>1. Init => Bounded BY EmptySeq DEF Init, Bounded
<1>2. LifeInv /\ DevInv /\ Bounded => TypeOK
  <2> SUFFICES ASSUME LifeInv, DevInv, Bounded PROVE TypeOK OBVIOUS
  <2>1. Len(held) \in 0..3
    <3>1. CASE held = <<>> BY <3>1, EmptySeq
    <3>2. CASE held # <<>> BY <3>2, Arguments DEF LifeInv, Channel, Grounded
    <3> QED BY <3>1, <3>2
  <2>2. ui \in Window /\ asked \in Requests BY DEF LifeInv, Core, WindowAsks
  <2>3. /\ scope \in Scopes /\ active \in Ids \cup {None} /\ next \in 1..MaxSessions + 1
        /\ threads \in [Ids -> SUBSET Runtime] /\ serving \in Ids \cup {None, Reserved}
        /\ links \subseteq Ids /\ ended \subseteq Ids
    BY DEF LifeInv, Core, Numbered
  <2>4. /\ pending \in BOOLEAN /\ retried \in BOOLEAN /\ keyed \in BOOLEAN
        /\ resolved \in [Ids -> {"open", "sent", "refused", "legacy"}]
        /\ stop \in [Ids -> BOOLEAN] /\ mic \in BOOLEAN
        /\ sel \in Modes \cup {Default} /\ cam \in Modes \cup {Default, Off}
        /\ capsDue \subseteq Ids /\ dmn \in [mic : BOOLEAN, cam : Modes \cup {Default, Off}]
    BY DEF DevInv, WorkerTyped, Outcomes, Cameras, DmnType
  <2> QED BY <2>1, <2>2, <2>3, <2>4 DEF TypeOK, Window, Requests, Bounded
<1>3. Spec => []Bounded BY <1>1, BoundedNext, DevInvHolds, PTL DEF Spec
<1> QED BY <1>2, <1>3, DevInvHolds, PTL

=============================================================================
