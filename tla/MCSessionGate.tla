---------------------------- MODULE MCSessionGate ----------------------------
(* Instances of SessionGate for TLC. *)
EXTENDS SessionGate, TLC

\* Hosts are only compared with one another.
HostSymmetry == Permutations(IPs)

\* Under fairness: all sessions without USB, or one session with it.
Smaller == plugs' = 0 \/ sid' <= 1
MCFairSpec == Init /\ [][Next /\ Smaller]_vars /\ Fairness
=============================================================================
