----------------------------- MODULE SessionLife -----------------------------
(***************************************************************************)
(* What the desktop client promises of its sessions, whatever threads of   *)
(* earlier sessions still run: at most one is current, ids are used once   *)
(* and in order, a session stops being the current one only for a cause of *)
(* its own, and the window shows no other than the current one.            *)
(***************************************************************************)
EXTENDS Naturals

CONSTANT MaxSessions

VARIABLES current, \* the session, or 0
          used,    \* how many ids were given out
          doomed,  \* sessions that have a cause to end
          shown    \* the session in the window, or 0

lifeVars == <<current, used, doomed, shown>>

LifeInit == current = 0 /\ used = 0 /\ doomed = {} /\ shown = 0

\* An id is given out; the session may fail before it is the current one.
\* The one it replaces, if any, is over.
Opens ==
    /\ used < MaxSessions /\ used' = used + 1
    /\ \/ /\ current' = used' /\ shown' = used'
          /\ doomed' = doomed \cup ({current} \ {0})
       \/ /\ shown' = 0 /\ UNCHANGED <<current, doomed>>

Doom == /\ \E s \in 1..used : doomed' = doomed \cup {s}
        /\ UNCHANGED <<current, used, shown>>

\* The user's disconnect is a cause as well: it dooms and ends in one step.
Closes ==
    /\ current # 0 /\ current' = 0 /\ shown' = 0
    /\ doomed' \in {doomed, doomed \cup {current}} /\ current \in doomed'
    /\ UNCHANGED used

\* The window leaves the session page for a while; it is not shown again.
Hides == shown' = 0 /\ UNCHANGED <<current, used, doomed>>

LifeNext == Opens \/ Doom \/ Closes \/ Hides

LifeSpec == LifeInit /\ [][LifeNext]_lifeVars

=============================================================================
