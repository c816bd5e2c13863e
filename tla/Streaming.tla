------------------------------- MODULE Streaming ------------------------------
(***************************************************************************)
(* A session of the capture thread: an encoder is opened, the display is    *)
(* attached, each frame its loop hands on is encoded and sent, and both end  *)
(* together.  A PLI asks both: the encoder for an IDR and the display for a  *)
(* frame to put it in.                                                      *)
(***************************************************************************)
EXTENDS Encoding, Displays

CONSTANT Platform  \* the display backend of the build that has a chain of encoders

ASSUME PlatformAssumption == Platform \in [Chains -> Backends] /\ Shapes = Captured

streamVars == <<encVars, displayVars>>

StreamInit == EncInit /\ DisplayInit /\ backend = Platform[chain]

\* A client registers and the encoder of its session is opened.
Begins == stage = "idle" /\ OpenEncoder /\ AskRefresh

\* EVDI and ScreenCaptureKit hand on frames of the size they were attached
\* with, Windows those of the monitor as it finds it.
Attaches ==
    /\ Running /\ Attach /\ UNCHANGED encVars
    /\ backend # "vdd" => shape' = enc.cfgSize

GivesUp == (AttachFails \/ WatchdogFails) /\ CloseEncoder
Ends    == Detach /\ CloseEncoder

\* The capture thread: an iteration that hands a frame on, or none.
Shows    == LoopStep(TRUE) /\ CaptureFrame(shape)
Waits    == LoopStep(FALSE) /\ UNCHANGED encVars
Captures == Shows \/ Waits

Asks    == Pli /\ AskRefresh
Adapts  == (Tune \/ Tick) /\ UNCHANGED displayVars
Happens == (ScreenChanges \/ TopologyChanges) /\ UNCHANGED encVars

StreamNext == Begins \/ Attaches \/ GivesUp \/ Ends \/ Captures \/ Asks \/ Adapts \/ Happens

\* The capture thread runs while a session lasts.  Nothing makes the screen
\* change, the client ask, or the session end.
StreamFairness == WF_streamVars(Captures)
StreamSpec     == StreamInit /\ [][StreamNext]_streamVars /\ StreamFairness

-----------------------------------------------------------------------------

StreamTypeOK == EncTypeOK /\ DisplayTypeOK /\ (Looping => Running)

\* Of a session nothing stays behind: the encoder that runs has all it was
\* built with and those that were refused nothing, and the monitor is gone.
SessionsLeaveNothing == StreamTypeOK /\ RefusalsLeakNothing /\ NothingStaysPlugged

\* A frame goes through the encoder of the session.
Encodes == Running /\ Running' /\ enc'.count # enc.count

\* While frames come and are encoded, a client that lost one sees an intact
\* picture again, even if none of its PLIs counts (the periodic IDR).
PictureRepaired == []<><<Encodes>>_enc => (broken ~> (~broken \/ ~Running))

\* A refresh that was asked for, by a PLI or a registration, gets its frame,
\* also on a still screen and with a wedged driver; unless refreshes come for
\* ever (each of them restarts EVDI's wait), or the Windows desktop has no
\* such monitor any more.
RefreshIsAnswered ==
    \/ []<><<Asks>>_streamVars
    \/ (owed /\ Looping) ~> (~owed \/ ~Looping \/ topology = "dropped" \/ ~plugged)

\* What the documents say of a PLI: a still desktop answers the recovery
\* request of its client.  An IDR too recent makes it a frame like the others.
RecoveryIsAnswered == (force /\ broken /\ Looping) ~> (~broken \/ ~Looping)
=============================================================================
