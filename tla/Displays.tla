------------------------------- MODULE Displays -------------------------------
(***************************************************************************)
(* The display backends of the capture thread: a virtual monitor is attached *)
(* for a session, a loop hands its frames on, and it is detached.  EVDI       *)
(* (Linux) and ScreenCaptureKit (macOS) hand on a frame when the screen has   *)
(* changed or when they are asked to refresh; the Windows driver repeats its  *)
(* last frame for ever, and recovers from changes of the display topology.    *)
(* One step of a loop is one of its iterations.                               *)
(***************************************************************************)
EXTENDS Naturals

CONSTANTS Backends,       \* those of this build: "evdi", "sck", "vdd"
          Shapes,         \* sizes of the monitor
          RefreshRetries, \* what EVDI sets refresh_retries to (100 times 30 ms)
          HardResetAfter, \* topology failures before the driver is restarted (12)
          MaxDisplayFaults \* bound: failures and topology changes

ASSUME DisplayAssumption ==
    /\ Backends \subseteq {"evdi", "sck", "vdd"}
    /\ {RefreshRetries, HardResetAfter} \subseteq Nat \ {0} /\ MaxDisplayFaults \in Nat

VARIABLES
    backend,    \* of this build; it stays
    stage,      \* of the session: "idle", "attached" (and the loop runs)
    plugged,    \* the OS shows the virtual monitor
    shape,      \* its size; only on Windows may it change under a session
    changed,    \* the screen has changed since the last frame taken
    have,       \* have_frame: there is a frame to repeat (Windows)
    refresh,    \* force_refresh
    retries,    \* refresh_retries (EVDI)
    topology,   \* Windows: "fine", "dropped" from the desktop, or "wedged": every acquire fails
    duplication, \* Windows: "none", "valid", or "lost": its next acquire fails
    failures,   \* consecutive_topology_failures, modulo HardResetAfter
    owed,       \* a refresh was asked for and no frame was handed on since
    displayFaults

displayVars == <<backend, stage, plugged, shape, changed, have, refresh, retries,
                 topology, duplication, failures, owed, displayFaults>>
windowsVars == <<have, topology, duplication, failures>>
monitorVars == <<backend, stage, plugged, shape>>

Looping == stage = "attached"

DisplayInit ==
    /\ backend \in Backends /\ stage = "idle" /\ plugged = FALSE /\ shape \in Shapes
    /\ changed = FALSE /\ have = FALSE /\ refresh = FALSE /\ retries = 0
    /\ topology = "fine" /\ duplication = "none" /\ failures = 0
    /\ owed = FALSE /\ displayFaults = 0

-----------------------------------------------------------------------------
(* attach, detach.                                                          *)

Mishap == displayFaults < MaxDisplayFaults /\ displayFaults' = displayFaults + 1

\* attach and the beginning of run_capture_loop.  The first look at a new
\* monitor shows a change on Windows; elsewhere the compositor may not have
\* drawn anything yet.
Attach ==
    /\ stage = "idle" /\ stage' = "attached" /\ plugged' = TRUE /\ shape' \in Shapes
    /\ changed' \in IF backend = "vdd" THEN {TRUE} ELSE BOOLEAN
    /\ have' = FALSE /\ retries' = 0 /\ failures' = 0
    /\ duplication' = (IF backend = "vdd" THEN "valid" ELSE "none") /\ topology' = "fine"
    /\ UNCHANGED <<backend, refresh, owed, displayFaults>>

\* An error of attach, or of EVDI before its loop.  Windows may have enabled
\* the driver by then; the other two unplug what they made.
AttachFails ==
    /\ stage = "idle" /\ Mishap
    /\ plugged' \in IF backend = "vdd" THEN {plugged, TRUE} ELSE {FALSE}
    /\ UNCHANGED <<backend, stage, shape, changed, refresh, retries, windowsVars, owed>>

\* The watchdog thread could not be spawned: the session is given up before
\* its loop, and what is attached stays (EVDI only plugs in in its loop).
WatchdogFails ==
    /\ stage = "idle" /\ Mishap /\ plugged' = (plugged \/ backend # "evdi")
    /\ UNCHANGED <<backend, stage, shape, changed, refresh, retries, windowsVars, owed>>

\* The loop ends, when told to or with an error, and the monitor is detached.
Detach ==
    /\ Looping /\ stage' = "idle" /\ plugged' = FALSE
    /\ changed' = FALSE /\ have' = FALSE /\ retries' = 0 /\ duplication' = "none" /\ failures' = 0
    /\ topology' = "fine" /\ owed' = FALSE
    /\ UNCHANGED <<backend, shape, refresh, displayFaults>>

-----------------------------------------------------------------------------
(* run_capture_loop; "frame" says whether the iteration hands a frame on.    *)

\* EVDI takes what the compositor drew; with nothing new it sends its buffer
\* again when the last retry of a refresh has passed.  A refresh sets the
\* retries, also while there are some left.
EvdiLoop(frame) ==
    LET left == IF refresh THEN RefreshRetries ELSE retries
    IN /\ frame = (changed \/ left = 1)
       /\ retries' = IF changed \/ left = 0 THEN 0 ELSE left - 1
       /\ changed' = FALSE /\ refresh' = FALSE
       /\ UNCHANGED <<windowsVars, monitorVars, displayFaults>>

\* ScreenCaptureKit's newest frame, or for a refresh the last one or a black one.
SckLoop(frame) ==
    /\ frame = (changed \/ refresh)
    /\ changed' = FALSE /\ refresh' = FALSE
    /\ UNCHANGED <<retries, windowsVars, monitorVars, displayFaults>>

\* Windows copies a changed desktop and repeats its copy at the frame interval.
VddLoop(frame) ==
    /\ duplication = "valid"
    /\ have' = (have \/ changed) /\ frame = have'
    /\ failures' = IF changed THEN 0 ELSE failures
    /\ changed' = FALSE
    /\ UNCHANGED <<refresh, retries, topology, duplication, monitorVars, displayFaults>>

\* Mutated Escalates: the count of failures begins anew with each recreation.
EscalatesNever(count) == FALSE

\* Every so many failures in a row the driver is restarted.
Escalates(count) == count % HardResetAfter = 0

\* hard_reset_vdd cures a wedged driver.  It may fail, before the driver was
\* disabled or between that and its being enabled again.
HardReset ==
    \/ /\ topology' = "fine" /\ shape' \in Shapes /\ UNCHANGED <<plugged, displayFaults>>
    \/ Mishap /\ plugged' \in {plugged, FALSE} /\ UNCHANGED <<topology, shape>>

\* DXGI_ERROR_ACCESS_LOST or INVALID_CALL: the interface is given up.
AccessLost ==
    /\ duplication = "lost" /\ duplication' = "none"
    /\ failures' = (failures + 1) % HardResetAfter
    /\ IF Escalates(failures + 1) THEN HardReset ELSE UNCHANGED <<topology, shape, plugged, displayFaults>>
    /\ UNCHANGED <<backend, stage, changed, have, refresh, retries>>

\* create_duplication, again and again until it works, which a wedged driver
\* does not prevent.  The desktop may be of another size; nothing is repeated
\* until it was copied once.
Recreate ==
    /\ duplication = "none" /\ plugged /\ topology # "dropped"
    /\ duplication' = (IF topology = "wedged" THEN "lost" ELSE "valid")
    /\ have' = FALSE /\ changed' = TRUE /\ shape' \in Shapes
    /\ UNCHANGED <<backend, stage, plugged, refresh, retries, topology, failures, displayFaults>>

\* One iteration of the loop of this build.
LoopStep(frame) ==
    /\ Looping /\ owed' = (owed /\ ~frame)
    /\ \/ backend = "evdi" /\ EvdiLoop(frame)
       \/ backend = "sck" /\ SckLoop(frame)
       \/ backend = "vdd" /\ VddLoop(frame)
       \/ backend = "vdd" /\ ~frame /\ (AccessLost \/ Recreate)

-----------------------------------------------------------------------------
(* What others do to the screen and to the flag.                            *)

\* PLI, or the registration of a client: force_refresh is set.
AskRefresh ==
    /\ refresh' = TRUE /\ owed' = TRUE
    /\ UNCHANGED <<changed, retries, windowsVars, monitorVars, displayFaults>>

ScreenChanges ==
    /\ Looping /\ ~changed /\ changed' = TRUE
    /\ UNCHANGED <<refresh, retries, windowsVars, monitorVars, owed, displayFaults>>

\* A Win+P switch invalidates the duplication, and may drop the monitor from
\* the desktop or wedge its driver; the user, or create_duplication's request
\* for an extended desktop, brings it back.
TopologyChanges ==
    /\ Looping /\ backend = "vdd"
    /\ \/ topology = "fine" /\ Mishap /\ topology' \in {"fine", "dropped", "wedged"}
       \/ topology = "dropped" /\ topology' \in {"fine", "wedged"} /\ UNCHANGED displayFaults
    /\ duplication' = IF duplication = "valid" THEN "lost" ELSE duplication
    /\ UNCHANGED <<changed, have, refresh, retries, failures, monitorVars, owed>>

-----------------------------------------------------------------------------

DisplayTypeOK ==
    /\ stage \in {"idle", "attached"} /\ shape \in Shapes /\ topology \in {"fine", "dropped", "wedged"}
    /\ duplication \in {"none", "valid", "lost"}
    /\ {plugged, changed, have, refresh, owed} \subseteq BOOLEAN
    /\ retries \in 0..RefreshRetries /\ failures \in 0..(HardResetAfter - 1)
    /\ displayFaults \in 0..MaxDisplayFaults
    /\ backend # "evdi" => retries = 0
    /\ backend # "vdd" => ~have /\ duplication = "none" /\ topology = "fine" /\ failures = 0

\* Unless something failed, no monitor is left plugged in without a session.
NothingStaysPlugged == stage = "idle" /\ displayFaults = 0 => ~plugged
=============================================================================
