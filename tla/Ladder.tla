-------------------------------- MODULE Ladder --------------------------------
(***************************************************************************)
(* Constructors over a C library: a row of steps, each of which takes       *)
(* resources, may let go of some on success, and frees what its error path  *)
(* frees before the constructor bails out.  Nothing else is freed then: the *)
(* object whose Drop would do it does not exist yet.                        *)
(***************************************************************************)
EXTENDS Naturals, Sequences

\* A step that can be refused; a bare allocation, which only a lack of memory
\* makes fail; a step that lets go of a resource and does not fail.
Take(takes, frees)     == [takes |-> takes, drops |-> {}, frees |-> frees, memory |-> FALSE]
Allocate(takes, frees) == [takes |-> takes, drops |-> {}, frees |-> frees, memory |-> TRUE]
LetGo(drops)           == [takes |-> {}, drops |-> drops, frees |-> {}, memory |-> TRUE]

\* What the constructor holds when it comes to step k.
Held(steps, k) ==
    LET held[i \in 1..(Len(steps) + 1)] ==
            IF i = 1 THEN {} ELSE (held[i - 1] \cup steps[i - 1].takes) \ steps[i - 1].drops
    IN held[k]

Built(steps)       == Held(steps, Len(steps) + 1)
Leftover(steps, k) == Held(steps, k) \ steps[k].frees

\* The steps that can fail: any, or (memory = FALSE) those that can be refused.
Failing(steps, memory) ==
    {k \in 1..Len(steps) : steps[k].drops = {} /\ (steps[k].memory => memory)}

\* The outcomes of a constructor: [ok, has, left behind, out of memory].
Outcomes(steps, memory) ==
    {[ok |-> TRUE, has |-> Built(steps), left |-> {}, memory |-> FALSE]}
        \cup {[ok |-> FALSE, has |-> {}, left |-> Leftover(steps, k), memory |-> steps[k].memory] :
                k \in Failing(steps, memory)}
=============================================================================
