------------------------------- MODULE MCCapture ------------------------------
(***************************************************************************)
(* The capture thread for TLC: the sessions it is asked for, and what it    *)
(* does in one, each with the other at rest: they share no variable.  On    *)
(* Windows the bitrate stays: its encoders take a new one in place.         *)
(***************************************************************************)
EXTENDS CaptureLoop, Streaming

LinuxChain   == <<"vaapi", "vaapi_cqp", "software">>
MacChain     == <<"videotoolbox", "software">>
WindowsChain == <<"mf">>

MCChains   == {LinuxChain, MacChain, WindowsChain}
MCPlatform == [c \in MCChains |->
                 CASE c = LinuxChain -> "evdi" [] c = MacChain -> "sck" [] c = WindowsChain -> "vdd"]
StillChains   == {MacChain}
StillPlatform == [c \in StillChains |-> "sck"]

\* The environment, cut to what one run can cover: the first client leaves by
\* hanging up or by the end of its USB stream, the second, a network client, by
\* a timeout; no fault where a client came by USB.
Smaller ==
    /\ ~(sid = 1 /\ Timeout) /\ ~HangUp(2)
    /\ usbId' # 2
    /\ faults' > 0 => usb' = "poll"

VARIABLE part
mcVars == <<part, vars, streamVars>>

MCInit ==
    /\ part \in {"thread", "stream"} /\ Init /\ StreamInit
    /\ part = "thread" => /\ chain = CHOOSE c \in Chains : TRUE
                          /\ tuning = CHOOSE r \in Rates : TRUE
                          /\ shape = CHOOSE s \in Shapes : TRUE

MCNext ==
    \/ part = "thread" /\ Next /\ Smaller /\ UNCHANGED <<part, streamVars>>
    \/ part = "stream" /\ StreamNext /\ (backend = "vdd" => UNCHANGED tuning)
                       /\ UNCHANGED <<part, vars>>

\* A part at rest enables none of the fair actions.
MCSpec == MCInit /\ [][MCNext]_mcVars /\ Fairness /\ StreamFairness
=============================================================================
