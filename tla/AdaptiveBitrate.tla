--------------------------- MODULE AdaptiveBitrate ---------------------------
(***************************************************************************)
(* AdaptiveStreamState: the encoder bitrate follows the client's PLIs      *)
(* (requests for a fresh picture after loss).  Once per interval the rate  *)
(* is cut by 20% or 10%, or raised by 10%, around a base negotiated at the *)
(* start of a session.  Rates are u32 numbers of some unit, time is in     *)
(* whole adjustment intervals; both FEC percentages are one `level`.       *)
(***************************************************************************)
EXTENDS Integers, Sequences

CONSTANTS U32Max,      \* the largest u32, in the unit of the rates
          Floor,       \* 2 Mbps
          Bases,       \* the base bitrates sessions negotiate
          ShortWindow, \* ADAPTIVE_SHORT_WINDOW, in intervals
          LongWindow,  \* ADAPTIVE_LONG_WINDOW, in intervals
          MaxPli       \* bound: PLIs remembered at a time

ASSUME BitrateAssumption ==
    /\ U32Max \in Nat /\ Floor \in 1..U32Max
    /\ Bases \subseteq 1..U32Max /\ Bases # {}
    /\ ShortWindow \in Nat /\ LongWindow \in Nat /\ ShortWindow <= LongWindow
    /\ MaxPli \in Nat

VARIABLES base, current, \* base_bitrate_bps, current_bitrate_bps
          level,         \* "normal", "moderate" or "severe" FEC
          pli,           \* pli_events, oldest first, as ages
          since          \* whether an interval has passed since last_adjust_at

vars == <<base, current, level, pli, since>>

Init ==
    /\ base \in Bases /\ current = base
    /\ level = "normal" /\ pli = <<>> /\ since = FALSE

-----------------------------------------------------------------------------
Smaller(a, b) == IF a < b THEN a ELSE b
Larger(a, b)  == IF a > b THEN a ELSE b

SaturatingMul(a, b) == Smaller(a * b, U32Max)
DivCeil(a, b)       == (a + b - 1) \div b

\* The rate never falls below this.
MinBitrate == Larger(base \div 3, Floor)

\* Mutated Cut: without the floor.
CutFloorless(percent) == DivCeil(SaturatingMul(current, percent), 100)

Cut(percent) == Larger(DivCeil(SaturatingMul(current, percent), 100), MinBitrate)
Raised       == Smaller((current * 110) \div 100, base)   \* computed in u64

\* The n-th newest PLI is within the short window (ages fall along pli).
Recent(ages, n) == Len(ages) >= n /\ ages[Len(ages) - n + 1] <= ShortWindow

Young(age)   == age <= LongWindow
Unpruned(ages) == ages                         \* mutated Pruned
Pruned(ages) == SelectSeq(ages, Young)

Severe(ages)   == Recent(ages, 2) \/ Len(ages) >= 4
Moderate(ages) == Recent(ages, 1) \/ Len(ages) >= 2

-----------------------------------------------------------------------------
\* set_base and reset.
Restart(b) ==
    /\ base' = b /\ current' = b
    /\ level' = "normal" /\ pli' = <<>> /\ since' = FALSE

\* The capture thread starts a session, or ends it.
SetBase(b) == Restart(b)

\* drop_network_client.
Reset == Restart(base)

NotePli ==
    /\ Len(pli) < MaxPli
    /\ pli' = Pruned(Append(pli, 0))
    /\ UNCHANGED <<base, current, level, since>>

\* current_tuning, once per captured frame, before the interval has passed.
Tuning ==
    /\ ~since
    /\ pli' = Pruned(pli)
    /\ UNCHANGED <<base, current, level, since>>

\* current_tuning and adjust.
Adjust ==
    /\ since
    /\ pli' = Pruned(pli)
    /\ \/ /\ Severe(pli')
          /\ current' = Cut(80) /\ level' = "severe"
       \/ /\ Moderate(pli') /\ ~Severe(pli')
          /\ current' = Cut(90) /\ level' = "moderate"
       \/ /\ ~Moderate(pli') /\ ~Severe(pli')
          /\ current' = Raised /\ level' = "normal"
    /\ since' = FALSE
    /\ UNCHANGED base

\* An adjustment interval passes; ages past the long window are all alike.
Tick ==
    /\ since' = TRUE
    /\ pli' = [i \in DOMAIN pli |-> Smaller(pli[i] + 1, LongWindow + 1)]
    /\ UNCHANGED <<base, current, level>>

Next == \/ \E b \in Bases : SetBase(b)
        \/ Reset \/ NotePli \/ Tuning \/ Adjust \/ Tick

Spec == Init /\ [][Next]_vars

\* Time passes and the display is captured while a session lasts.
FairSpec == Spec /\ WF_vars(Tick) /\ SF_vars(Adjust)

-----------------------------------------------------------------------------
RatesOK == base \in Bases /\ current \in 1..U32Max

\* However many PLIs arrive, the rate stays between a third of the base and
\* the base: except that bases below the floor make the floor the upper bound,
\* and their own value the lower one.
BitrateBounded == /\ current <= Larger(base, Floor)
                  /\ current >= Smaller(base, MinBitrate)

\* When PLIs stop and the session goes on, the base rate is reached again.
RecoversToBase ==
    <>[][~NotePli /\ ~Reset /\ \A b \in Bases : ~SetBase(b)]_vars => <>[](current = base)

\* The comment of set_base, and main.rs's on the negotiated rate: the adaptive
\* loop throttles up/down from base_bitrate_bps, never beyond it.
NeverAboveBase == current <= base
=============================================================================
