---------------------------- MODULE PolicyProofs ----------------------------
(***************************************************************************)
(* Proofs about the two policies of a stream: its adaptive bitrate, for    *)
(* any rates, windows and losses, and its negotiated settings, for any     *)
(* flags, requests and codecs.                                             *)
(***************************************************************************)
EXTENDS AdaptiveBitrate, Negotiation, TLAPS

(***************************************************************************)
(* AdaptiveBitrate: what the sequence of PLIs holds does not matter here,  *)
(* only which of the three adjustments is made.                            *)
(***************************************************************************)
RateInv == RatesOK /\ BitrateBounded

\* A cut rate is at least the floor of the session, at most the larger of
\* that and the rate it was cut from, and saturation does not take it out of u32.
LEMMA CutBounds ==
    ASSUME RatesOK, NEW percent \in {80, 90}
    PROVE /\ Cut(percent) \in 1..U32Max
          /\ Cut(percent) >= MinBitrate
          /\ Cut(percent) <= Larger(current, MinBitrate)
<1> DEFINE product == SaturatingMul(current, percent)
<1>1. product \in 0..U32Max /\ product <= current * 100
  BY BitrateAssumption DEF RatesOK, SaturatingMul, Smaller
<1>2. DivCeil(product, 100) \in 0..current
  BY <1>1, BitrateAssumption DEF RatesOK, DivCeil
<1>3. MinBitrate \in 1..U32Max
  BY BitrateAssumption DEF RatesOK, MinBitrate, Larger
<1>4. Cut(percent) = Larger(DivCeil(product, 100), MinBitrate)
  BY DEF Cut
<1> HIDE DEF product
<1> QED BY <1>2, <1>3, <1>4, BitrateAssumption DEF Larger, RatesOK

\* A raised rate is at most the base, and no lower than before unless the
\* rate was above the base.
LEMMA RaisedBounds ==
    ASSUME RatesOK
    PROVE /\ Raised \in 1..U32Max
          /\ Raised <= base
          /\ Raised >= Smaller(current, base)
<1>1. (current * 110) \div 100 >= current /\ (current * 110) \div 100 \in Nat
  BY DEF RatesOK
<1> QED BY <1>1, BitrateAssumption DEF RatesOK, Raised, Smaller

\* Away from the smallest rates a raise is a real one: integer division never
\* leaves the rate stuck below the base.
LEMMA RaiseProgresses ==
    ASSUME RatesOK, current >= 10, current < base PROVE Raised > current
<1>1. (current * 110) \div 100 > current
  BY DEF RatesOK
<1> QED BY <1>1, BitrateAssumption DEF RatesOK, Raised, Smaller

LEMMA MinBitrateIsBounded ==
    ASSUME RatesOK PROVE MinBitrate \in Nat /\ MinBitrate <= Larger(base, Floor)
  BY BitrateAssumption DEF RatesOK, MinBitrate, Larger

LEMMA RateKept == ASSUME RateInv, [Next]_vars PROVE RateInv'
<1> USE DEF RateInv
<1>1. ASSUME NEW b \in Bases, Restart(b) PROVE RateInv'
  <2>1. RatesOK' BY <1>1, BitrateAssumption DEF Restart, RatesOK
  <2> QED BY <1>1, <2>1, BitrateAssumption
      DEF Restart, RatesOK, BitrateBounded, Smaller, Larger, MinBitrate
<1>2. CASE Adjust
  <2>1. base' = base /\ base \in Bases /\ MinBitrate' = MinBitrate
    BY <1>2 DEF Adjust, RatesOK, MinBitrate
  <2>2. ASSUME NEW percent \in {80, 90}, current' = Cut(percent) PROVE RateInv'
    BY <2>1, <2>2, CutBounds, MinBitrateIsBounded, BitrateAssumption
    DEF RatesOK, BitrateBounded, Smaller, Larger
  <2>3. ASSUME current' = Raised PROVE RateInv'
    BY <2>1, <2>3, RaisedBounds, MinBitrateIsBounded, BitrateAssumption
    DEF RatesOK, BitrateBounded, Smaller, Larger
  <2> QED BY <1>2, <2>2, <2>3 DEF Adjust
<1>3. CASE UNCHANGED <<base, current>>
  BY <1>3 DEF RatesOK, BitrateBounded, MinBitrate
<1> QED BY <1>1, <1>2, <1>3 DEF Next, SetBase, Reset, NotePli, Tuning, Tick, vars, RatesOK

\* For every base, floor and sequence of PLIs, the bitrate stays within its
\* bounds and within u32, saturated products included.
THEOREM RatesInvariant == Spec => [](RatesOK /\ BitrateBounded)
<1>1. Init => RateInv
  BY BitrateAssumption DEF Init, RateInv, RatesOK, BitrateBounded, Smaller, Larger, MinBitrate
<1> QED BY <1>1, RateKept, PTL DEF Spec, RateInv

\* The rate never leaves its bounds.
THEOREM RateBounded == Spec => []BitrateBounded
  BY RatesInvariant, PTL

\* No configuration with a base of at least the floor ever exceeds it.
THEOREM NeverAboveLargeBase ==
    ASSUME \A b \in Bases : b >= Floor PROVE Spec => []NeverAboveBase
<1>1. RatesOK /\ BitrateBounded => NeverAboveBase
  BY BitrateAssumption DEF RatesOK, BitrateBounded, NeverAboveBase, Larger
<1> QED BY <1>1, RatesInvariant, PTL

(***************************************************************************)
(* Negotiation: the bounds are carried from the clamp to the session.      *)
(***************************************************************************)
USE NegotiationAssumption DEF Omitted, U8Max, U16Max, FloorW, FloorH, FloorFps, FloorBps

\* A clamped value is within its bounds, whichever way round they are.
LEMMA ClampBounds ==
    ASSUME NEW value \in Nat, NEW floor \in Nat, NEW ceiling \in Nat
    PROVE /\ Clamp(value, floor, ceiling) \in Nat
          /\ Between(Clamp(value, floor, ceiling), floor, ceiling)
  BY DEF Clamp, Between, Lesser, Greater

\* A value within the bounds is left alone.
LEMMA ClampKeepsBounded ==
    ASSUME NEW floor \in Nat, NEW ceiling \in Nat, NEW value \in floor..ceiling
    PROVE Clamp(value, floor, ceiling) = value
  BY DEF Clamp, Lesser, Greater

\* What the daemon holds after the clamp, and where it came from.
Clamped(r) == \E q \in RequestSet : r = ClampSettings(q)

NegInv ==
    /\ flags \in FlagSet /\ request \in RequestSet /\ link \in {"network", "usb"}
    /\ available \subseteq Codecs /\ default \in Codecs
    /\ stage \in {"connected", "advertised", "refused", "proposed", "start", "streaming"}
    /\ stng \in RequestSet
    /\ stage = "connected" => ~conforming /\ stng = Nothing
    /\ stage = "advertised" => ~conforming /\ stng = Nothing /\ caps = BuildCaps
    /\ stage = "start" \/ stage = "streaming" => stng = Nothing \/ Clamped(stng)
    /\ conforming => Valid(request, BuildCaps)
    /\ conforming /\ stage = "proposed" => stng = BuildStng(request)
    /\ conforming /\ stage \in {"start", "streaming"} => stng = ClampSettings(BuildStng(request))
    /\ stage = "streaming" => session = Merge(stng)

LEMMA BuildStngType == ASSUME NEW r \in RequestSet PROVE BuildStng(r) \in RequestSet
  BY DEF BuildStng, RequestSet

LEMMA ClampSettingsType ==
    ASSUME NegInv, NEW r \in RequestSet PROVE ClampSettings(r) \in RequestSet
<1>1. Ceiling \in Nat BY DEF NegInv, FlagSet, Ceiling
<1>2. ASSUME NEW v \in Nat \cup {Omitted}, NEW f \in Nat, NEW c \in Nat
      PROVE ClampTag(v, f, c) \in Nat \cup {Omitted}
  BY <1>2, ClampBounds DEF ClampTag
<1> QED BY <1>1, <1>2 DEF NegInv, ClampSettings, RequestSet, FlagSet

LEMMA NegStart == NegInit => NegInv
  BY DEF NegInit, NegInv, Nothing, RequestSet

LEMMA NegStep == ASSUME NegInv, [NegNext]_negVars PROVE NegInv'
<1> USE DEF given, BuildCaps, Valid, Ceiling, Clamped, ClampSettings, Merge, BuildStng
<1>1. CASE SendCaps BY <1>1 DEF SendCaps, NegInv
<1>2. CASE Refuse BY <1>2 DEF Refuse, NegInv
<1>3. CASE Propose BY <1>3, BuildStngType DEF Propose, NegInv
<1>4. CASE ProposeAnything BY <1>4, BuildStngType DEF ProposeAnything, NegInv
<1>5. CASE ProposeNothing BY <1>5 DEF ProposeNothing, NegInv
<1>6. CASE ApplyRequestedSettings
  BY <1>6, ClampSettingsType DEF ApplyRequestedSettings, NegInv
<1>7. CASE StartSession BY <1>7 DEF StartSession, NegInv
<1>8. CASE UNCHANGED negVars BY <1>8 DEF negVars, NegInv
<1> QED BY <1>1, <1>2, <1>3, <1>4, <1>5, <1>6, <1>7, <1>8 DEF NegNext

\* The invariant of the whole exchange: what the daemon starts a session with is
\* what it defaulted to or clamped, from what the client checked if it did.
THEOREM NegotiationInvariant == NegSpec => []NegInv
BY NegStart, NegStep, PTL DEF NegSpec

\* A tag that is present is merged as it was clamped.
LEMMA MergedTag ==
    ASSUME NEW v \in Nat, NEW floor \in Nat, NEW ceiling \in Nat, NEW otherwise
    PROVE Or(ClampTag(v, floor, ceiling), otherwise) = Clamp(v, floor, ceiling)
<1>1. Clamp(v, floor, ceiling) # Omitted BY ClampBounds
<1> QED BY <1>1 DEF ClampTag, Or

\* A tag that was clamped and merged over its default is within its bounds.
LEMMA MergedTagBounds ==
    ASSUME NEW v \in Nat \cup {Omitted}, NEW floor \in Nat, NEW ceiling \in Nat
    PROVE Between(Or(ClampTag(v, floor, ceiling), ceiling), floor, ceiling)
<1>1. CASE v = Omitted
  BY <1>1 DEF ClampTag, Or, Between, Lesser, Greater
<1>2. CASE v # Omitted
  BY <1>2, MergedTag, ClampBounds
<1> QED BY <1>1, <1>2

\* Whatever the client sends, the session starts within the operator's flags
\* (clamp_requested_settings, and the merge of the capture thread).
THEOREM SessionsBounded == NegSpec => []SessionBounded
<1>1. ASSUME NegInv, stage = "streaming" PROVE SessionBounded
  <2>1. flags.w \in Nat /\ flags.h \in Nat /\ flags.fps \in Nat /\ flags.net \in Nat
        /\ flags.usb \in Nat /\ Ceiling \in Nat
    BY <1>1 DEF NegInv, FlagSet, Ceiling
  <2>2. PICK q \in RequestSet : stng = ClampSettings(q)
    <3>1. Nothing \in RequestSet /\ ClampSettings(Nothing) = Nothing
      BY <1>1 DEF Nothing, RequestSet, ClampSettings, ClampTag, NegInv
    <3> QED BY <1>1, <3>1 DEF NegInv, Clamped
  <2>3. q.w \in Nat \cup {Omitted} /\ q.h \in Nat \cup {Omitted}
        /\ q.fps \in Nat \cup {Omitted} /\ q.bps \in Nat \cup {Omitted}
    BY DEF RequestSet
  <2>4. session = Merge(ClampSettings(q)) BY <1>1, <2>2 DEF NegInv
  <2>5. Between(session.w, FloorW, flags.w) /\ Between(session.h, FloorH, flags.h)
        /\ Between(session.fps, FloorFps, flags.fps)
    <3>1. /\ session.w = Or(ClampTag(q.w, FloorW, flags.w), flags.w)
          /\ session.h = Or(ClampTag(q.h, FloorH, flags.h), flags.h)
          /\ session.fps = Or(ClampTag(q.fps, FloorFps, flags.fps), flags.fps)
      BY <2>4 DEF Merge, ClampSettings
    <3> QED BY <2>1, <2>3, <3>1, MergedTagBounds
  <2>6. session.bps <= Greater(FloorBps, Greater(flags.net, flags.usb))
    <3>1. session.bps = Or(ClampTag(q.bps, FloorBps, Ceiling), flags.net)
      BY <2>4 DEF Merge, ClampSettings
    <3>2. Ceiling = flags.net \/ Ceiling = flags.usb BY DEF Ceiling
    <3>3. CASE q.bps = Omitted
      BY <2>1, <3>1, <3>3 DEF ClampTag, Or, Greater
    <3>4. CASE q.bps # Omitted
      <4>1. q.bps \in Nat BY <2>3, <3>4
      <4>2. session.bps = Clamp(q.bps, FloorBps, Ceiling)
        BY ONLY <2>1, <3>1, <4>1, MergedTag
      <4> QED BY <2>1, <3>2, <4>1, <4>2 DEF Clamp, Lesser, Greater
    <3> QED BY <3>3, <3>4
  <2>7. session.codec \in available \cup {default}
    BY <2>4 DEF Merge, ClampSettings, Or
  <2> QED BY <2>5, <2>6, <2>7 DEF SessionBounded
<1>2. NegInv => SessionBounded BY <1>1 DEF SessionBounded
<1> QED BY <1>2, NegotiationInvariant, PTL

\* A client that checked its bitrate and codec against CAPS is given them: the
\* advertised bounds (build_caps_message) are those enforced.
THEOREM CheckedHonoured == NegSpec => []CheckedIsHonoured
<1>1. ASSUME NegInv, stage = "streaming", conforming PROVE CheckedIsHonoured
  <2>1. /\ stng = ClampSettings(BuildStng(request)) /\ session = Merge(stng)
        /\ Valid(request, BuildCaps) /\ request \in RequestSet /\ Ceiling \in Nat
        /\ available \subseteq Codecs
    BY <1>1 DEF NegInv, FlagSet, Ceiling
  <2>2. ASSUME request.bps # Omitted PROVE session.bps = request.bps
    <3>1. request.bps \in FloorBps..Ceiling BY <2>1, <2>2 DEF Valid, BuildCaps
    <3>2. stng.bps = Clamp(request.bps, FloorBps, Ceiling)
      BY <2>1, <2>2 DEF ClampSettings, BuildStng, ClampTag
    <3>3. stng.bps = request.bps BY <2>1, <3>1, <3>2, ClampKeepsBounded
    <3> QED BY <2>1, <2>2, <3>3 DEF Merge, Or
  <2>3. ASSUME request.codec # Omitted PROVE session.codec = request.codec
    <3>1. request.codec \in available BY <2>1, <2>3 DEF Valid, BuildCaps
    <3> QED BY <2>1, <2>3, <3>1 DEF ClampSettings, BuildStng, Merge, Or
  <2> QED BY <2>2, <2>3 DEF CheckedIsHonoured
<1>2. NegInv => CheckedIsHonoured BY <1>1 DEF CheckedIsHonoured
<1> QED BY <1>2, NegotiationInvariant, PTL
=============================================================================
