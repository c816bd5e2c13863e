------------------------------ MODULE MCPeripherals ------------------------------
(* What a client's devices become at the daemon: its peripherals, its fingers  *)
(* and its keys, each on its own: they share no state.                         *)
EXTENDS Peripherals, Touch, Keys

VARIABLE part
mcVars == <<part, vars, touchVars, keyVars>>

MCInit ==
    /\ part \in {"peripherals", "touch", "keys"}
    /\ Init /\ TouchInit /\ KeyInit
    /\ part # "peripherals" => manners = CHOOSE m \in Manners : TRUE
    /\ part # "touch" => touchOn = CHOOSE p \in Platforms : TRUE
    /\ part # "keys" => keyHost = CHOOSE h \in KeyHosts : TRUE

MCNext ==
    \/ part = "peripherals" /\ Next /\ UNCHANGED <<part, touchVars, keyVars>>
    \/ part = "touch" /\ TouchNext /\ UNCHANGED <<part, vars, keyVars>>
    \/ part = "keys" /\ KeyNext /\ UNCHANGED <<part, vars, touchVars>>

MCFairness ==
    /\ \A s \in Ids : WF_mcVars(part = "peripherals" /\ (Check(s) \/ Continue(s)) /\ UNCHANGED <<part, touchVars, keyVars>>)
    /\ WF_mcVars(part = "peripherals" /\ Callback /\ UNCHANGED <<part, touchVars, keyVars>>)
    /\ WF_mcVars(part = "peripherals" /\ Audio /\ UNCHANGED <<part, touchVars, keyVars>>)

MCSpec == MCInit /\ [][MCNext]_mcVars /\ MCFairness

\* Type correctness of peripherals, fingers and keys: the sets of states that
\* their variables may be in.
EndpointsTypeOK ==
    /\ part = "peripherals" => TypeOK
    /\ part = "touch" => TouchTypeOK
    /\ part = "keys" => KeyTypeOK
=============================================================================
