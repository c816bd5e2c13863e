------------------------------ MODULE CaptureProofs ------------------------------
(***************************************************************************)
(* Proofs about Streaming, for any chain of encoders and any displays, and  *)
(* about CaptureLoop, for any number of clients and faults.  A session of   *)
(* the first owns its encoder and its monitor; what the second shows is     *)
(* that a session and the callback of its client agree about who ends it.   *)
(***************************************************************************)
EXTENDS CaptureLoop, Streaming, LadderProofs

-----------------------------------------------------------------------------
(* The constructors of encoders, and the pushing of a frame.                *)

\* A step that can be refused frees all that is held by then; the allocations
\* after the last of them free nothing.
LEMMA SwEncoderRow ==
    /\ Built(SwSteps) \subseteq {"pkt", "yuv", "bgra", "sws", "ctx"}
    /\ \A k \in Failing(SwSteps, FALSE) : Leftover(SwSteps, k) = {}
    /\ \A k \in 1..Len(SwSteps) : SwSteps[k].memory \in BOOLEAN
<1> DEFINE b == <<{}, {}, {"ctx"}, {"ctx"}, {"ctx", "sws"}, {"ctx", "sws", "bgra"},
                  {"ctx", "sws", "bgra", "yuv"}, {"ctx", "sws", "bgra", "yuv", "pkt"}>>
<1>1. Len(SwSteps) = 7 BY DEF SwSteps
<1>2. Bounds(b, SwSteps) BY <1>1 DEF Bounds, SwSteps, Take, Allocate
<1>3. Frees(b, SwSteps, FALSE) BY <1>1 DEF Frees, Failing, SwSteps, Take, Allocate
<1>4. Len(SwSteps) \in Nat /\ Len(SwSteps) + 1 \in 1..(Len(SwSteps) + 1) BY <1>1
<1>5. b[Len(SwSteps) + 1] = {"ctx", "sws", "bgra", "yuv", "pkt"} BY <1>1
<1>6. \A k \in 1..Len(SwSteps) : SwSteps[k].memory \in BOOLEAN
  <2>1. \A k \in 1..7 : SwSteps[k].memory = TRUE \/ SwSteps[k].memory = FALSE
    BY DEF SwSteps, Take, Allocate
  <2> QED BY <1>1, <2>1
<1> HIDE DEF b
<1>7. \A k \in 1..(Len(SwSteps) + 1) : Held(SwSteps, k) \subseteq b[k] BY <1>2, <1>4, HeldWithin
<1>8. Built(SwSteps) \subseteq {"ctx", "sws", "bgra", "yuv", "pkt"} BY <1>4, <1>5, <1>7 DEF Built
<1>9. \A k \in Failing(SwSteps, FALSE) : Leftover(SwSteps, k) = {}
  BY <1>2, <1>3, <1>4, FailureLeavesNothing
<1> QED BY <1>6, <1>8, <1>9

HwParts == {"pkt", "frame", "mapped", "bgra", "sws", "ctx", "device"}

LEMMA OwnEncoderRow ==
    ASSUME NEW kind \in OwnFrames
    PROVE  /\ Built(HwSteps(kind)) \subseteq HwParts
           /\ \A k \in Failing(HwSteps(kind), FALSE) : Leftover(HwSteps(kind), k) = {}
           /\ \A k \in 1..Len(HwSteps(kind)) : HwSteps(kind)[k].memory \in BOOLEAN
<1> DEFINE row == HwSteps(kind)
           b == <<{}, {}, {"ctx"}, {"ctx", "device"}, {"ctx", "device", "frames"},
                  {"ctx", "device", "frames"}, {"ctx", "device", "frames"}, {"ctx", "device"},
                  HwParts, HwParts, HwParts, HwParts, HwParts>>
<1>1. Len(row) = 12 BY DEF HwSteps, HwDeviceSteps, HwOpenSteps, HwFrameSteps
<1>2. Bounds(b, row)
  BY <1>1 DEF Bounds, HwSteps, HwDeviceSteps, HwOpenSteps, HwFrameSteps, Take, Allocate, LetGo, HwParts
<1>3. Frees(b, row, FALSE)
  BY <1>1 DEF Frees, Failing, HwSteps, HwDeviceSteps, HwOpenSteps, HwFrameSteps, Take, Allocate, LetGo
<1>4. Len(row) \in Nat /\ Len(row) + 1 \in 1..(Len(row) + 1) BY <1>1
<1>5. b[Len(row) + 1] = HwParts BY <1>1
<1>6. \A k \in 1..Len(row) : row[k].memory \in BOOLEAN
  <2>1. \A k \in 1..12 : row[k].memory = TRUE \/ row[k].memory = FALSE
    BY DEF HwSteps, HwDeviceSteps, HwOpenSteps, HwFrameSteps, Take, Allocate, LetGo
  <2> QED BY <1>1, <2>1
<1> HIDE DEF b, row
<1>7. \A k \in 1..(Len(row) + 1) : Held(row, k) \subseteq b[k] BY <1>2, <1>4, HeldWithin
<1>8. Built(row) \subseteq HwParts BY <1>4, <1>5, <1>7 DEF Built
<1>9. \A k \in Failing(row, FALSE) : Leftover(row, k) = {} BY <1>2, <1>3, <1>4, FailureLeavesNothing
<1> QED BY <1>6, <1>8, <1>9 DEF row

LEMMA PlainEncoderRow ==
    ASSUME NEW kind, kind \notin OwnFrames
    PROVE  /\ Built(HwSteps(kind)) \subseteq HwParts
           /\ \A k \in Failing(HwSteps(kind), FALSE) : Leftover(HwSteps(kind), k) = {}
           /\ \A k \in 1..Len(HwSteps(kind)) : HwSteps(kind)[k].memory \in BOOLEAN
<1> DEFINE row == HwSteps(kind)
           b == <<{}, {}, {"ctx"}, {"ctx"}, {"ctx"}, HwParts, HwParts, HwParts, HwParts, HwParts>>
<1>1. Len(row) = 9 BY DEF HwSteps, HwDeviceSteps, HwOpenSteps, HwFrameSteps
<1>2. Bounds(b, row)
  BY <1>1 DEF Bounds, HwSteps, HwDeviceSteps, HwOpenSteps, HwFrameSteps, Take, Allocate, LetGo, HwParts
<1>3. Frees(b, row, FALSE)
  BY <1>1 DEF Frees, Failing, HwSteps, HwDeviceSteps, HwOpenSteps, HwFrameSteps, Take, Allocate, LetGo
<1>4. Len(row) \in Nat /\ Len(row) + 1 \in 1..(Len(row) + 1) BY <1>1
<1>5. b[Len(row) + 1] = HwParts BY <1>1
<1>6. \A k \in 1..Len(row) : row[k].memory \in BOOLEAN
  <2>1. \A k \in 1..9 : row[k].memory = TRUE \/ row[k].memory = FALSE
    BY DEF HwSteps, HwDeviceSteps, HwOpenSteps, HwFrameSteps, Take, Allocate, LetGo
  <2> QED BY <1>1, <2>1
<1> HIDE DEF b, row
<1>7. \A k \in 1..(Len(row) + 1) : Held(row, k) \subseteq b[k] BY <1>2, <1>4, HeldWithin
<1>8. Built(row) \subseteq HwParts BY <1>4, <1>5, <1>7 DEF Built
<1>9. \A k \in Failing(row, FALSE) : Leftover(row, k) = {} BY <1>2, <1>3, <1>4, FailureLeavesNothing
<1> QED BY <1>6, <1>8, <1>9 DEF row

LEMMA EncoderRow ==
    ASSUME NEW kind
    PROVE  /\ Built(EncoderSteps(kind)) \subseteq Dropped(kind)
           /\ \A k \in Failing(EncoderSteps(kind), FALSE) : Leftover(EncoderSteps(kind), k) = {}
           /\ \A k \in 1..Len(EncoderSteps(kind)) : EncoderSteps(kind)[k].memory \in BOOLEAN
<1>1. CASE kind = "software" BY <1>1, SwEncoderRow DEF EncoderSteps, Dropped
<1>2. CASE kind # "software"
  <2>1. EncoderSteps(kind) = HwSteps(kind) /\ HwParts \subseteq Dropped(kind)
    BY <1>2 DEF EncoderSteps, Dropped, HwParts
  <2>2. Built(HwSteps(kind)) \subseteq HwParts BY OwnEncoderRow, PlainEncoderRow
  <2>3. \A k \in Failing(HwSteps(kind), FALSE) : Leftover(HwSteps(kind), k) = {}
    BY OwnEncoderRow, PlainEncoderRow
  <2>4. \A k \in 1..Len(HwSteps(kind)) : HwSteps(kind)[k].memory \in BOOLEAN
    BY OwnEncoderRow, PlainEncoderRow
  <2>5. Built(HwSteps(kind)) \subseteq Dropped(kind) BY <2>1, <2>2
  <2> QED BY <2>1, <2>3, <2>4, <2>5
<1> QED BY <1>1, <1>2

\* A push that fails gives every surface back, a lack of memory included.
LEMMA PushRow ==
    ASSUME NEW kind, NEW steps \in PushSteps(kind)
    PROVE  \A k \in Failing(steps, TRUE) : Leftover(steps, k) = {}
<1> DEFINE Clean(row) == \A k \in Failing(row, TRUE) : Leftover(row, k) = {}
           mapped == <<Take({"surface"}, {})>> \o SubmitSteps({"surface"})
           copied == <<Take({"surface"}, {}), Allocate({}, {"surface"}), LetGo({"surface"}),
                       Take({"surface"}, {}), Take({}, {"surface"})>> \o SubmitSteps({"surface"})
           pixels == <<Take({"pixels"}, {})>> \o SubmitSteps({"pixels"})
           system == <<Allocate({}, {}), Take({}, {})>> \o SubmitSteps({})
<1>1. Clean(mapped)
  <2> DEFINE b == <<{}, {"surface"}, {"surface"}, {}, {}>>
  <2>1. Len(mapped) = 4 BY DEF SubmitSteps
  <2>2. Bounds(b, mapped) BY <2>1 DEF Bounds, SubmitSteps, Take, LetGo
  <2>3. Frees(b, mapped, TRUE) BY <2>1 DEF Frees, Failing, SubmitSteps, Take, LetGo
  <2>4. Len(mapped) \in Nat BY <2>1
  <2> HIDE DEF b, mapped
  <2> QED BY <2>2, <2>3, <2>4, FailureLeavesNothing
<1>2. Clean(copied)
  <2> DEFINE b == <<{}, {"surface"}, {"surface"}, {}, {"surface"}, {"surface"}, {"surface"}, {}, {}>>
  <2>1. Len(copied) = 8 BY DEF SubmitSteps
  <2>2. Bounds(b, copied) BY <2>1 DEF Bounds, SubmitSteps, Take, Allocate, LetGo
  <2>3. Frees(b, copied, TRUE) BY <2>1 DEF Frees, Failing, SubmitSteps, Take, Allocate, LetGo
  <2>4. Len(copied) \in Nat BY <2>1
  <2> HIDE DEF b, copied
  <2> QED BY <2>2, <2>3, <2>4, FailureLeavesNothing
<1>3. Clean(pixels)
  <2> DEFINE b == <<{}, {"pixels"}, {"pixels"}, {}, {}>>
  <2>1. Len(pixels) = 4 BY DEF SubmitSteps
  <2>2. Bounds(b, pixels) BY <2>1 DEF Bounds, SubmitSteps, Take, LetGo
  <2>3. Frees(b, pixels, TRUE) BY <2>1 DEF Frees, Failing, SubmitSteps, Take, LetGo
  <2>4. Len(pixels) \in Nat BY <2>1
  <2> HIDE DEF b, pixels
  <2> QED BY <2>2, <2>3, <2>4, FailureLeavesNothing
<1>4. Clean(system)
  <2> DEFINE b == <<{}, {}, {}, {}, {}, {}>>
  <2>1. Len(system) = 5 BY DEF SubmitSteps
  <2>2. Bounds(b, system) BY <2>1 DEF Bounds, SubmitSteps, Take, Allocate, LetGo
  <2>3. Frees(b, system, TRUE) BY <2>1 DEF Frees, Failing, SubmitSteps, Take, Allocate, LetGo
  <2>4. Len(system) \in Nat BY <2>1
  <2> HIDE DEF b, system
  <2> QED BY <2>2, <2>3, <2>4, FailureLeavesNothing
<1>5. steps \in {mapped, copied, pixels, system}
  BY DEF PushSteps, UploadSteps, VideoToolboxSteps, SystemSteps
<1> HIDE DEF mapped, copied, pixels, system
<1> QED BY <1>1, <1>2, <1>3, <1>4, <1>5

-----------------------------------------------------------------------------
(* The encoder of a session.                                                *)

InChain  == {chain[i] : i \in 1..Len(chain)}
Counts   == 0..(Gop - 1)
Encoders == [kind : Kinds, has : {BuiltOf[k] : k \in Kinds}, size : Captured, cfgSize : Captured,
             rate : Rates, cfgRate : Rates, count : Counts, fresh : BOOLEAN]

\* An encoder of the chain, which has what its constructor took.
EncoderWell(e) == e \in Encoders /\ e.kind \in InChain /\ e.has = BuiltOf[e.kind]

\* What a stage of the callback gives: an encoder as good, and nothing left
\* behind unless memory was lacking.
StageWell(r) ==
    /\ EncoderWell(r.e) /\ r.age \in 0..MaxIdr
    /\ r.left = {} \/ r.memory
    /\ r.failed \in BOOLEAN /\ r.memory \in BOOLEAN

EncInv ==
    /\ chain \in Chains /\ (enc = NoEncoder \/ EncoderWell(enc))
    /\ idrAge \in 0..MaxIdr
    /\ force \in BOOLEAN /\ broken \in BOOLEAN /\ oom \in BOOLEAN
    /\ tuning \in Rates
    /\ encFaults \in 0..MaxEncFaults /\ losses \in 0..MaxLosses
    /\ RefusalsLeakNothing

LEMMA ChainKnown == ASSUME chain \in Chains PROVE InChain \subseteq Kinds /\ "none" \notin InChain
<1>1. Len(chain) \in Nat /\ \A i \in 1..Len(chain) : chain[i] # "none" BY EncodingAssumption
<1> QED BY <1>1 DEF InChain, Kinds

LEMMA OutcomesKnown ==
    ASSUME NEW kind \in Kinds, NEW o \in Build[kind][TRUE]
    PROVE  /\ o.ok \in BOOLEAN /\ o.memory \in BOOLEAN
           /\ o.ok => o.has = BuiltOf[kind]
           /\ o.left = {} \/ o.memory
<1>1. o \in Outcomes(EncoderSteps(kind), TRUE) BY DEF Build
<1>2. BuiltOf[kind] = Built(EncoderSteps(kind)) BY DEF BuiltOf
<1>3. o.ok \in BOOLEAN BY <1>1, OutcomesDecided
<1>4. /\ \A k \in Failing(EncoderSteps(kind), FALSE) : Leftover(EncoderSteps(kind), k) = {}
      /\ \A k \in 1..Len(EncoderSteps(kind)) : EncoderSteps(kind)[k].memory \in BOOLEAN
  BY EncoderRow
<1>5. /\ o.ok => o.has = Built(EncoderSteps(kind))
      /\ o.left = {} \/ o.memory
      /\ o.memory \in BOOLEAN
  BY <1>1, <1>4, OnlyMemoryLeaks
<1> QED BY <1>2, <1>3, <1>5

LEMMA RefusedKnown ==
    ASSUME NEW kind \in Kinds, NEW left \in Refused[kind] PROVE left = {}
<1>1. PICK o \in Build[kind][FALSE] : ~o.ok /\ left = o.left BY DEF Refused
<1>2. o \in Outcomes(EncoderSteps(kind), FALSE) BY DEF Build
<1>3. \A k \in Failing(EncoderSteps(kind), FALSE) : Leftover(EncoderSteps(kind), k) = {} BY EncoderRow
<1> QED BY <1>1, <1>2, <1>3, OutcomesClean

LEMMA DropsAll == ASSUME NEW e, EncoderWell(e) PROVE NotDropped(e) = {}
<1>1. e.kind \in Kinds BY DEF EncoderWell, Encoders
<1>2. e.has = Built(EncoderSteps(e.kind)) BY <1>1 DEF EncoderWell, BuiltOf
<1> QED BY <1>2, EncoderRow DEF NotDropped

LEMMA EncoderFields ==
    ASSUME NEW e, e \in Encoders
    PROVE  /\ e.kind \in Kinds /\ e.size \in Captured /\ e.cfgSize \in Captured
           /\ e.rate \in Rates /\ e.cfgRate \in Rates /\ e.count \in Counts /\ e.fresh \in BOOLEAN
           /\ e.has \in {BuiltOf[k] : k \in Kinds}
BY DEF Encoders

\* The changes that the callback makes to an encoder.
LEMMA RateChanged ==
    ASSUME NEW e \in Encoders, NEW rate \in Rates, NEW cfgRate \in Rates
    PROVE  LET f == [e EXCEPT !.cfgRate = cfgRate, !.rate = rate]
           IN  f \in Encoders /\ f.kind = e.kind /\ f.has = e.has
BY DEF Encoders

LEMMA SizeChanged ==
    ASSUME NEW e \in Encoders, NEW size \in Captured
    PROVE  LET f == [e EXCEPT !.cfgSize = size] IN f \in Encoders /\ f.kind = e.kind /\ f.has = e.has
BY DEF Encoders

LEMMA ZeroCounts == 0 \in Counts /\ \A c \in Counts : (c + 1) % Gop \in Counts
<1>1. Gop \in Nat \ {0} BY EncodingAssumption
<1>2. \A c \in Nat : c % Gop \in 0..(Gop - 1) BY <1>1
<1> QED BY <1>1, <1>2 DEF Counts

LEMMA RetunedWell ==
    ASSUME chain \in Chains, tuning \in Rates, NEW e, EncoderWell(e), NEW age \in 0..MaxIdr,
           NEW r \in Retuned(e, age)
    PROVE  StageWell(r)
<1>1. e \in Encoders /\ e.kind \in InChain /\ e.has = BuiltOf[e.kind] BY DEF EncoderWell
<1>2. /\ e.kind \in Kinds /\ e.size \in Captured /\ e.cfgSize \in Captured
      /\ e.rate \in Rates /\ e.cfgRate \in Rates /\ e.count \in Counts /\ e.fresh \in BOOLEAN
  BY <1>1, EncoderFields
<1>3. 0 \in 0..MaxIdr BY EncodingAssumption
<1>4. CASE r = Result(e, age, {}, FALSE, FALSE)
  BY <1>4 DEF Result, StageWell
<1>5. CASE r = Result([e EXCEPT !.cfgRate = tuning, !.rate = IF e.kind \in Deaf THEN @ ELSE tuning],
                      age, {}, FALSE, FALSE)
  <2> DEFINE f == [e EXCEPT !.cfgRate = tuning, !.rate = IF e.kind \in Deaf THEN @ ELSE tuning]
             rate == IF e.kind \in Deaf THEN e.rate ELSE tuning
             g == [e EXCEPT !.cfgRate = tuning, !.rate = rate]
  <2>1. f = g BY <1>1 DEF Encoders
  <2>2. rate \in Rates BY <1>2
  <2> HIDE DEF rate
  <2>5. g \in Encoders /\ g.kind = e.kind /\ g.has = e.has BY <1>1, <2>2, RateChanged
  <2> HIDE DEF f, g
  <2>3. EncoderWell(f) BY <1>1, <2>1, <2>5 DEF EncoderWell
  <2>4. r = Result(f, age, {}, FALSE, FALSE) BY <1>5 DEF f
  <2> QED BY <2>3, <2>4 DEF Result, StageWell
<1>6. ASSUME NEW o \in Build[e.kind][TRUE],
             r = IF Unbuilt(o) THEN Result(e, age, o.left, TRUE, o.memory)
                 ELSE Result([e EXCEPT !.has = o.has, !.rate = tuning, !.cfgRate = tuning,
                                       !.count = 0, !.fresh = TRUE], 0, NotDropped(e), FALSE, FALSE)
      PROVE  StageWell(r)
  <2>1. /\ o.ok \in BOOLEAN /\ o.memory \in BOOLEAN /\ (o.ok => o.has = BuiltOf[e.kind])
        /\ o.left = {} \/ o.memory
    BY <1>2, OutcomesKnown
  <2>2. CASE ~o.ok
    <3>1. r = Result(e, age, o.left, TRUE, o.memory) BY <1>6, <2>2 DEF Unbuilt
    <3>2. r.e = e /\ r.age = age /\ r.left = o.left BY <3>1 DEF Result
    <3>3. r.failed = TRUE BY <3>1 DEF Result
    <3>4. r.memory = o.memory BY <3>1 DEF Result
    <3> QED BY <2>1, <3>2, <3>3, <3>4 DEF StageWell
  <2>3. CASE o.ok
    <3> DEFINE f == [e EXCEPT !.has = o.has, !.rate = tuning, !.cfgRate = tuning, !.count = 0, !.fresh = TRUE]
    <3>1. r = Result(f, 0, NotDropped(e), FALSE, FALSE) BY <1>6, <2>3 DEF Unbuilt
    <3>5. o.has = BuiltOf[e.kind] /\ o.has \in {BuiltOf[k] : k \in Kinds} BY <1>2, <2>1, <2>3
    <3>2. f \in Encoders /\ f.kind = e.kind /\ f.has = o.has
      BY <1>1, <1>2, <3>5, ZeroCounts DEF Encoders
    <3> HIDE DEF f
    <3>3. EncoderWell(f) BY <1>1, <3>2, <3>5 DEF EncoderWell
    <3>4. NotDropped(e) = {} BY DropsAll
    <3> QED BY <1>3, <3>1, <3>3, <3>4 DEF Result, StageWell
  <2> QED BY <2>1, <2>2, <2>3
<1> QED BY <1>4, <1>5, <1>6 DEF Retuned

LEMMA ResizedWell ==
    ASSUME chain \in Chains, NEW e, EncoderWell(e), NEW age \in 0..MaxIdr, NEW size \in Captured,
           NEW s \in Resized(e, age, size)
    PROVE  StageWell(s)
<1>1. e \in Encoders /\ e.kind \in InChain /\ e.has = BuiltOf[e.kind] BY DEF EncoderWell
<1>2. /\ e.kind \in Kinds /\ e.size \in Captured /\ e.cfgSize \in Captured
      /\ e.rate \in Rates /\ e.cfgRate \in Rates /\ e.count \in Counts /\ e.fresh \in BOOLEAN
  BY <1>1, EncoderFields
<1>3. CASE s = Result(e, age, {}, FALSE, FALSE)
  BY <1>3 DEF Result, StageWell
<1>4. ASSUME NEW k \in Again(e.kind), NEW o, o \in Build[k][TRUE],
             s = IF Unbuilt(o) THEN Result([e EXCEPT !.cfgSize = size], age, o.left, TRUE, o.memory)
                 ELSE Result([e EXCEPT !.kind = k, !.has = o.has, !.size = size, !.cfgSize = size,
                                       !.rate = e.cfgRate, !.fresh = TRUE], age, NotDropped(e), FALSE, FALSE)
      PROVE  StageWell(s)
  <2>1. k \in InChain BY <1>1 DEF Again, InChain
  <2>2. k \in Kinds BY <2>1, ChainKnown
  <2>3. /\ o.ok \in BOOLEAN /\ o.memory \in BOOLEAN /\ (o.ok => o.has = BuiltOf[k])
        /\ o.left = {} \/ o.memory
    BY <1>4, <2>2, OutcomesKnown
  <2>4. CASE ~o.ok
    <3> DEFINE f == [e EXCEPT !.cfgSize = size]
    <3>1. s = Result(f, age, o.left, TRUE, o.memory) BY <1>4, <2>4 DEF Unbuilt
    <3>2. f \in Encoders /\ f.kind = e.kind /\ f.has = e.has BY <1>1, SizeChanged
    <3> HIDE DEF f
    <3>3. EncoderWell(f) BY <1>1, <3>2 DEF EncoderWell
    <3>4. s.e = f /\ s.age = age /\ s.left = o.left BY <3>1 DEF Result
    <3>5. s.failed = TRUE BY <3>1 DEF Result
    <3>6. s.memory = o.memory BY <3>1 DEF Result
    <3> QED BY <2>3, <3>3, <3>4, <3>5, <3>6 DEF StageWell
  <2>5. CASE o.ok
    <3> DEFINE f == [e EXCEPT !.kind = k, !.has = o.has, !.size = size, !.cfgSize = size,
                              !.rate = e.cfgRate, !.fresh = TRUE]
    <3>1. s = Result(f, age, NotDropped(e), FALSE, FALSE) BY <1>4, <2>5 DEF Unbuilt
    <3>5. o.has = BuiltOf[k] /\ o.has \in {BuiltOf[i] : i \in Kinds} BY <2>2, <2>3, <2>5
    <3>2. f \in Encoders /\ f.kind = k /\ f.has = o.has BY <1>1, <1>2, <2>2, <3>5 DEF Encoders
    <3> HIDE DEF f
    <3>3. EncoderWell(f) BY <2>1, <3>2, <3>5 DEF EncoderWell
    <3>4. NotDropped(e) = {} BY DropsAll
    <3> QED BY <3>1, <3>3, <3>4 DEF Result, StageWell
  <2> QED BY <2>3, <2>4, <2>5
<1>5. CASE size # e.cfgSize
  <2> DEFINE Made == UNION {{<<k, o2>> : o2 \in Build[k][TRUE]} : k \in Again(e.kind)}
  <2>1. PICK o \in Made :
          s = IF Unbuilt(o[2]) THEN Result([e EXCEPT !.cfgSize = size], age, o[2].left, TRUE, o[2].memory)
              ELSE Result([e EXCEPT !.kind = o[1], !.has = o[2].has, !.size = size, !.cfgSize = size,
                                    !.rate = e.cfgRate, !.fresh = TRUE], age, NotDropped(e), FALSE, FALSE)
    BY <1>5 DEF Resized
  <2>2. PICK k \in Again(e.kind) : \E o2 \in Build[k][TRUE] : o = <<k, o2>> OBVIOUS
  <2>4. PICK o2 \in Build[k][TRUE] : o = <<k, o2>> BY <2>2
  <2>3. o[1] = k /\ o[2] = o2 BY <2>4
  <2> QED BY <1>4, <2>1, <2>3
<1> QED BY <1>3, <1>5 DEF Resized

LEMMA PushWell ==
    ASSUME NEW e, EncoderWell(e), NEW age \in 0..MaxIdr, NEW faulty, Push(e, age, faulty),
           broken \in BOOLEAN, losses \in 0..MaxLosses
    PROVE  /\ EncoderWell(enc') /\ idrAge' \in 0..MaxIdr /\ broken' \in BOOLEAN
           /\ losses' \in 0..MaxLosses
<1> DEFINE next == [e EXCEPT !.count = (@ + 1) % Gop]
           last == [next EXCEPT !.fresh = FALSE]
<1>1. e \in Encoders /\ e.kind \in InChain /\ e.has = BuiltOf[e.kind] BY DEF EncoderWell
<1>2. e.count \in Counts /\ (e.count + 1) % Gop \in Counts BY <1>1, ZeroCounts, EncoderFields
<1>3. next \in Encoders /\ next.kind = e.kind /\ next.has = e.has BY <1>1, <1>2 DEF Encoders
<1>4. enc' \in {e, next, last} BY DEF Push
<1> HIDE DEF next
<1>5. last \in Encoders /\ last.kind = e.kind /\ last.has = e.has BY <1>3 DEF Encoders
<1> HIDE DEF last
<1>6. EncoderWell(enc') BY <1>1, <1>3, <1>4, <1>5 DEF EncoderWell
<1>7. idrAge' \in {0, age} BY DEF Push
<1>8. broken' \in {broken, TRUE} \/ \E x : broken' = (broken /\ ~x) BY DEF Push
<1>9. losses' \in 0..MaxLosses
  <2>1. losses' = losses \/ (losses < MaxLosses /\ losses' = losses + 1) BY DEF Push
  <2> QED BY <2>1, EncodingAssumption
<1>10. broken' \in BOOLEAN BY <1>8
<1>11. idrAge' \in 0..MaxIdr BY <1>7, EncodingAssumption
<1> QED BY <1>6, <1>9, <1>10, <1>11

\* An encoder that runs is one of the chain.
LEMMA RunningIsWell == EncInv => (Running <=> enc # NoEncoder) /\ (Running => EncoderWell(enc))
<1> SUFFICES ASSUME EncInv PROVE (Running <=> enc # NoEncoder) /\ (Running => EncoderWell(enc)) OBVIOUS
<1>1. CASE enc = NoEncoder BY <1>1 DEF Running, NoEncoder
<1>2. CASE EncoderWell(enc)
  <2>1. enc.kind # "none" BY <1>2, ChainKnown DEF EncInv, EncoderWell
  <2>2. NoEncoder.kind = "none" BY DEF NoEncoder
  <2> QED BY <1>2, <2>1, <2>2 DEF Running
<1> QED BY <1>1, <1>2 DEF EncInv

LEMMA CaptureKeeps ==
    ASSUME EncInv, NEW size \in Captured, CaptureFrame(size)
    PROVE  EncInv' /\ EncoderWell(enc')
<1> DEFINE Rest(r, one, s, two, faulty, left) ==
              /\ encFaults' = two + (IF faulty THEN 1 ELSE 0)
              /\ leaked' = leaked \cup r.left \cup s.left \cup left
              /\ oom' = (oom \/ r.memory \/ s.memory)
              /\ IF s.failed THEN ~faulty /\ enc' = s.e /\ idrAge' = s.age /\ UNCHANGED <<broken, losses>>
                             ELSE Push(s.e, s.age, faulty)
           One(r) == encFaults + (IF r.failed THEN 1 ELSE 0)
           Two(r, s) == One(r) + (IF s.failed THEN 1 ELSE 0)
<1>1. Running /\ force' = FALSE /\ UNCHANGED <<chain, tuning>> BY DEF CaptureFrame
<1>2. PICK r \in Affordable(encFaults, Retuned(enc, idrAge)) :
        \E s \in Affordable(One(r), Resized(r.e, r.age, size)) :
        \E faulty \in IF Two(r, s) < MaxEncFaults THEN BOOLEAN ELSE {FALSE} :
        \E left \in IF faulty THEN PushLeftovers[s.e.kind] ELSE {{}} :
           Rest(r, One(r), s, Two(r, s), faulty, left)
  BY DEF CaptureFrame
<1>3. PICK s \in Affordable(One(r), Resized(r.e, r.age, size)) :
        \E faulty \in IF Two(r, s) < MaxEncFaults THEN BOOLEAN ELSE {FALSE} :
        \E left \in IF faulty THEN PushLeftovers[s.e.kind] ELSE {{}} :
           Rest(r, One(r), s, Two(r, s), faulty, left)
  BY <1>2
<1>4. PICK faulty \in IF Two(r, s) < MaxEncFaults THEN BOOLEAN ELSE {FALSE} :
        \E left \in IF faulty THEN PushLeftovers[s.e.kind] ELSE {{}} :
           Rest(r, One(r), s, Two(r, s), faulty, left)
  BY <1>3
<1>5. PICK left \in IF faulty THEN PushLeftovers[s.e.kind] ELSE {{}} :
           Rest(r, One(r), s, Two(r, s), faulty, left)
  BY <1>4
<1>6. EncoderWell(enc) BY <1>1, RunningIsWell
<1>7. chain \in Chains /\ tuning \in Rates /\ idrAge \in 0..MaxIdr /\ oom \in BOOLEAN /\ broken \in BOOLEAN
      /\ losses \in 0..MaxLosses
  BY DEF EncInv
<1>8. r \in Retuned(enc, idrAge) /\ (r.failed => encFaults < MaxEncFaults) BY DEF Affordable
<1>9. StageWell(r) BY <1>6, <1>7, <1>8, RetunedWell
<1>10. s \in Resized(r.e, r.age, size) /\ (s.failed => One(r) < MaxEncFaults) BY DEF Affordable
<1>11. StageWell(s)
  <2>1. EncoderWell(r.e) /\ r.age \in 0..MaxIdr BY <1>9 DEF StageWell
  <2> QED BY <1>7, <1>10, <2>1, ResizedWell
<1>12. left = {}
  <2>1. CASE faulty
    <3>1. s.e.kind \in Kinds BY <1>11 DEF StageWell, EncoderWell, Encoders
    <3>2. left \in {{}} \cup UNION {{Leftover(steps, k) : k \in Failing(steps, TRUE)} :
                                    steps \in PushSteps(s.e.kind)}
      BY <2>1, <3>1 DEF PushLeftovers
    <3> QED BY <3>2, PushRow
  <2> QED BY <2>1
<1>13. encFaults' \in 0..MaxEncFaults
  <2>1. encFaults \in 0..MaxEncFaults /\ MaxEncFaults \in Nat BY EncodingAssumption DEF EncInv
  <2>2. One(r) \in 0..MaxEncFaults BY <1>8, <2>1
  <2>3. Two(r, s) \in 0..MaxEncFaults BY <1>10, <2>1, <2>2
  <2>4. faulty => Two(r, s) < MaxEncFaults OBVIOUS
  <2>5. encFaults' = Two(r, s) + (IF faulty THEN 1 ELSE 0) BY <1>5
  <2> HIDE DEF One, Two
  <2> QED BY <2>1, <2>3, <2>4, <2>5
<1> HIDE DEF One, Two
<1>14. oom' \in BOOLEAN /\ (oom' \/ leaked' = {})
  <2>1. oom' = (oom \/ r.memory \/ s.memory) /\ leaked' = leaked \cup r.left \cup s.left \cup left BY <1>5
  <2>2. (r.left = {} \/ r.memory) /\ (s.left = {} \/ s.memory) /\ (oom \/ leaked = {})
    BY <1>9, <1>11 DEF StageWell, EncInv, RefusalsLeakNothing
  <2>3. oom' \in BOOLEAN BY <2>1
  <2>4. CASE oom \/ r.memory \/ s.memory BY <2>1, <2>4
  <2>5. CASE ~(oom \/ r.memory \/ s.memory) BY <1>12, <2>1, <2>2, <2>5
  <2> QED BY <2>3, <2>4, <2>5
<1>15. EncoderWell(enc') /\ idrAge' \in 0..MaxIdr /\ broken' \in BOOLEAN /\ losses' \in 0..MaxLosses
  <2>0. EncoderWell(s.e) /\ s.age \in 0..MaxIdr /\ s.failed \in BOOLEAN BY <1>11 DEF StageWell
  <2>1. CASE s.failed
    <3>1. enc' = s.e /\ idrAge' = s.age /\ UNCHANGED <<broken, losses>> BY <1>5, <2>1
    <3>2. EncoderWell(enc') BY <2>0, <3>1 DEF EncoderWell
    <3> QED BY <1>7, <2>0, <3>1, <3>2
  <2>2. CASE ~s.failed
    <3>1. Push(s.e, s.age, faulty) BY <1>5, <2>2
    <3> QED BY <1>7, <2>0, <3>1, PushWell
  <2> QED BY <2>0, <2>1, <2>2
<1>16. EncoderWell(enc)'
  BY <1>1, <1>15 DEF EncoderWell, InChain
<1> QED BY <1>1, <1>7, <1>13, <1>14, <1>15, <1>16 DEF EncInv, RefusalsLeakNothing

LEMMA OpenKeeps == ASSUME EncInv, OpenEncoder PROVE EncInv' /\ enc' # NoEncoder
<1>1. PICK i \in 1..Len(chain) :
        \E left \in [1..(i - 1) -> UNION {Refused[k] : k \in Kinds}], size \in Negotiated :
          /\ \A j \in 1..(i - 1) : left[j] \in Refused[chain[j]]
          /\ leaked' = leaked \cup UNION {left[j] : j \in 1..(i - 1)}
          /\ enc' = [kind |-> chain[i], has |-> BuiltOf[chain[i]], size |-> size,
                     cfgSize |-> size, rate |-> tuning, cfgRate |-> tuning, count |-> 0, fresh |-> TRUE]
  BY DEF OpenEncoder
<1>2. PICK left \in [1..(i - 1) -> UNION {Refused[k] : k \in Kinds}], size \in Negotiated :
          /\ \A j \in 1..(i - 1) : left[j] \in Refused[chain[j]]
          /\ leaked' = leaked \cup UNION {left[j] : j \in 1..(i - 1)}
          /\ enc' = [kind |-> chain[i], has |-> BuiltOf[chain[i]], size |-> size,
                     cfgSize |-> size, rate |-> tuning, cfgRate |-> tuning, count |-> 0, fresh |-> TRUE]
  BY <1>1
<1>3. chain \in Chains /\ tuning \in Rates /\ Len(chain) \in Nat BY EncodingAssumption DEF EncInv
<1>4. \A j \in 1..Len(chain) : chain[j] \in Kinds /\ chain[j] \in InChain
  BY <1>3, ChainKnown DEF InChain
<1>5. ASSUME NEW j \in 1..(i - 1) PROVE left[j] = {}
  <2>1. j \in 1..Len(chain) BY <1>3
  <2>2. chain[j] \in Kinds /\ left[j] \in Refused[chain[j]] BY <1>2, <1>4, <2>1
  <2> QED BY <2>2, RefusedKnown
<1>6. leaked' = leaked BY <1>2, <1>5
<1>7. size \in Captured BY EncodingAssumption
<1>8. enc'.kind = chain[i] /\ enc'.has = BuiltOf[chain[i]] BY <1>2
<1>9. enc' \in Encoders BY <1>2, <1>3, <1>4, <1>7, ZeroCounts DEF Encoders
<1>10. /\ UNCHANGED <<chain, tuning, oom, encFaults, losses>>
       /\ idrAge' = 0 /\ broken' = TRUE /\ force' = TRUE
  BY DEF OpenEncoder
<1>11. EncoderWell(enc)' BY <1>4, <1>8, <1>9, <1>10 DEF EncoderWell, InChain
<1>12. 0 \in 0..MaxIdr BY EncodingAssumption
<1>13. enc' # NoEncoder
  <2>1. enc'.kind # "none" BY <1>3, <1>4, <1>8, ChainKnown
  <2>2. NoEncoder.kind = "none" BY DEF NoEncoder
  <2> QED BY <2>1, <2>2
<1> QED BY <1>6, <1>10, <1>11, <1>12, <1>13 DEF EncInv, RefusalsLeakNothing

LEMMA CloseKeeps == ASSUME EncInv, CloseEncoder PROVE EncInv'
<1>1. /\ Running /\ leaked' = leaked \cup NotDropped(enc) /\ enc' = NoEncoder /\ idrAge' = 0 /\ broken' = TRUE
      /\ UNCHANGED <<chain, force, tuning, oom, encFaults, losses>>
  BY DEF CloseEncoder
<1>2. NotDropped(enc) = {} BY <1>1, RunningIsWell, DropsAll
<1>3. 0 \in 0..MaxIdr BY EncodingAssumption
<1> QED BY <1>1, <1>2, <1>3 DEF EncInv, RefusalsLeakNothing

\* The encoder and what became of those before it stay.
LEMMA EncoderKept ==
    ASSUME EncInv, UNCHANGED <<chain, enc, broken, leaked, oom, encFaults, losses>>,
           idrAge' \in 0..MaxIdr, force' \in BOOLEAN, tuning' \in Rates
    PROVE  EncInv'
BY DEF EncInv, EncoderWell, InChain, RefusalsLeakNothing

-----------------------------------------------------------------------------
(* The display of a session.                                                *)

DisplayInv == DisplayTypeOK /\ backend \in Backends /\ NothingStaysPlugged

LEMMA DisplayConstants ==
    /\ RefreshRetries \in Nat \ {0} /\ HardResetAfter \in Nat \ {0} /\ MaxDisplayFaults \in Nat
    /\ Backends \subseteq {"evdi", "sck", "vdd"}
    /\ \A n \in Nat : n % HardResetAfter \in 0..(HardResetAfter - 1)
<1>1. HardResetAfter \in Nat \ {0} BY DisplayAssumption
<1>2. \A n \in Nat : n % HardResetAfter \in 0..(HardResetAfter - 1) BY <1>1
<1> QED BY <1>2, DisplayAssumption

\* DisplayInv part by part, for provers that keep Booleans and numbers apart.
LEMMA DisplayParts ==
    DisplayInv <=>
      /\ stage \in {"idle", "attached"} /\ shape \in Shapes /\ topology \in {"fine", "dropped", "wedged"}
      /\ duplication \in {"none", "valid", "lost"}
      /\ plugged \in BOOLEAN /\ changed \in BOOLEAN /\ have \in BOOLEAN /\ refresh \in BOOLEAN /\ owed \in BOOLEAN
      /\ retries \in 0..RefreshRetries /\ failures \in 0..(HardResetAfter - 1)
      /\ displayFaults \in 0..MaxDisplayFaults
      /\ backend # "evdi" => retries = 0
      /\ backend # "vdd" => ~have /\ duplication = "none" /\ topology = "fine" /\ failures = 0
      /\ backend \in Backends
      /\ stage = "idle" /\ displayFaults = 0 => ~plugged
BY DEF DisplayInv, DisplayTypeOK, NothingStaysPlugged

LEMMA MishapCounts == Mishap /\ DisplayInv => displayFaults' \in 1..MaxDisplayFaults
BY DisplayConstants DEF Mishap, DisplayInv, DisplayTypeOK

\* A step that leaves the monitor as it is.
LEMMA MonitorKept ==
    ASSUME DisplayInv, UNCHANGED <<monitorVars, displayFaults>>,
           topology' \in {"fine", "dropped", "wedged"}, duplication' \in {"none", "valid", "lost"},
           changed' \in BOOLEAN, have' \in BOOLEAN, refresh' \in BOOLEAN, owed' \in BOOLEAN,
           retries' \in 0..RefreshRetries, failures' \in 0..(HardResetAfter - 1),
           backend # "evdi" => retries' = 0,
           backend # "vdd" => ~have' /\ duplication' = "none" /\ topology' = "fine" /\ failures' = 0
    PROVE  DisplayInv'
BY DEF DisplayInv, DisplayTypeOK, NothingStaysPlugged, monitorVars

LEMMA AttachKeeps == ASSUME DisplayInv, Attach PROVE DisplayInv'
<1>1. /\ stage' = "attached" /\ plugged' = TRUE /\ shape' \in Shapes /\ topology' = "fine"
      /\ changed' \in BOOLEAN /\ have' = FALSE /\ retries' = 0 /\ failures' = 0
      /\ duplication' = (IF backend = "vdd" THEN "valid" ELSE "none")
      /\ UNCHANGED <<backend, refresh, owed, displayFaults>>
  BY DEF Attach
<1>2. retries' \in 0..RefreshRetries /\ failures' \in 0..(HardResetAfter - 1) BY <1>1, DisplayConstants
<1> QED BY <1>1, <1>2 DEF DisplayInv, DisplayTypeOK, NothingStaysPlugged

LEMMA FailKeeps == ASSUME DisplayInv, AttachFails \/ WatchdogFails PROVE DisplayInv'
<1>1. /\ Mishap /\ UNCHANGED <<backend, stage, shape, changed, refresh, retries, windowsVars, owed>>
  BY DEF AttachFails, WatchdogFails
<1>2. displayFaults' \in 1..MaxDisplayFaults BY <1>1, MishapCounts
<1>3. displayFaults' \in 0..MaxDisplayFaults /\ displayFaults' # 0 BY <1>2
<1>4. plugged \in BOOLEAN BY DisplayParts
<1>5. plugged' \in {plugged, TRUE, FALSE} \/ plugged' = (plugged \/ backend # "evdi")
  BY DEF AttachFails, WatchdogFails
<1>6. plugged' \in BOOLEAN BY <1>4, <1>5
<1> QED BY <1>1, <1>3, <1>6 DEF DisplayInv, DisplayTypeOK, NothingStaysPlugged, windowsVars

LEMMA DetachKeeps == ASSUME DisplayInv, Detach PROVE DisplayInv' /\ stage' = "idle"
<1>1. /\ stage' = "idle" /\ plugged' = FALSE /\ changed' = FALSE /\ have' = FALSE /\ retries' = 0
      /\ duplication' = "none" /\ failures' = 0 /\ topology' = "fine" /\ owed' = FALSE
      /\ UNCHANGED <<backend, shape, refresh, displayFaults>>
  BY DEF Detach
<1>2. retries' \in 0..RefreshRetries /\ failures' \in 0..(HardResetAfter - 1) BY <1>1, DisplayConstants
<1> QED BY <1>1, <1>2 DEF DisplayInv, DisplayTypeOK, NothingStaysPlugged

LEMMA HardResetKeeps ==
    ASSUME DisplayInv, HardReset, stage = "attached"
    PROVE  /\ topology' \in {"fine", "dropped", "wedged"} /\ shape' \in Shapes
           /\ plugged' \in BOOLEAN /\ displayFaults' \in 0..MaxDisplayFaults
<1>1. /\ plugged \in BOOLEAN /\ displayFaults \in 0..MaxDisplayFaults /\ shape \in Shapes
      /\ topology \in {"fine", "dropped", "wedged"}
  BY DisplayParts
<1>2. CASE topology' = "fine" /\ shape' \in Shapes /\ UNCHANGED <<plugged, displayFaults>>
  BY <1>1, <1>2
<1>3. CASE Mishap /\ plugged' \in {plugged, FALSE} /\ UNCHANGED <<topology, shape>>
  <2>1. displayFaults' \in 0..MaxDisplayFaults BY <1>3, MishapCounts
  <2> QED BY <1>1, <1>3, <2>1
<1> QED BY <1>2, <1>3 DEF HardReset

LEMMA LoopKeeps == ASSUME DisplayInv, NEW frame \in BOOLEAN, LoopStep(frame) PROVE DisplayInv' /\ UNCHANGED stage
<1>0. /\ stage = "attached" /\ shape \in Shapes /\ topology \in {"fine", "dropped", "wedged"}
      /\ duplication \in {"none", "valid", "lost"}
      /\ plugged \in BOOLEAN /\ changed \in BOOLEAN /\ have \in BOOLEAN /\ refresh \in BOOLEAN /\ owed \in BOOLEAN
      /\ retries \in 0..RefreshRetries /\ failures \in 0..(HardResetAfter - 1)
      /\ backend # "evdi" => retries = 0
      /\ backend # "vdd" => ~have /\ duplication = "none" /\ topology = "fine" /\ failures = 0
  BY DisplayParts DEF LoopStep, Looping
<1>1. owed' \in BOOLEAN
  <2>1. owed' = (owed /\ ~frame) BY DEF LoopStep
  <2> QED BY <2>1
<1>2. CASE backend = "evdi" /\ EvdiLoop(frame)
  <2> DEFINE left == IF refresh THEN RefreshRetries ELSE retries
  <2>1. /\ retries' = IF changed \/ left = 0 THEN 0 ELSE left - 1
        /\ changed' = FALSE /\ refresh' = FALSE
        /\ UNCHANGED <<have, topology, duplication, failures, monitorVars, displayFaults>>
    BY <1>2 DEF EvdiLoop, windowsVars
  <2>2. left \in 0..RefreshRetries BY <1>0, DisplayConstants
  <2> HIDE DEF left
  <2>3. retries' \in 0..RefreshRetries BY <2>1, <2>2, DisplayConstants
  <2>4. UNCHANGED stage BY <2>1 DEF monitorVars
  <2> QED BY <1>0, <1>1, <1>2, <2>1, <2>3, <2>4, MonitorKept
<1>3. CASE backend = "sck" /\ SckLoop(frame)
  <2>1. /\ changed' = FALSE /\ refresh' = FALSE
        /\ UNCHANGED <<retries, have, topology, duplication, failures, monitorVars, displayFaults>>
    BY <1>3 DEF SckLoop, windowsVars
  <2>2. UNCHANGED stage BY <2>1 DEF monitorVars
  <2> QED BY <1>0, <1>1, <1>3, <2>1, <2>2, MonitorKept
<1>4. CASE backend = "vdd" /\ VddLoop(frame)
  <2>1. /\ have' = (have \/ changed) /\ failures' = (IF changed THEN 0 ELSE failures) /\ changed' = FALSE
        /\ UNCHANGED <<refresh, retries, topology, duplication, monitorVars, displayFaults>>
    BY <1>4 DEF VddLoop
  <2>2. have' \in BOOLEAN BY <2>1
  <2>3. failures' \in 0..(HardResetAfter - 1) BY <1>0, <2>1, DisplayConstants
  <2>4. UNCHANGED stage BY <2>1 DEF monitorVars
  <2> QED BY <1>0, <1>1, <1>4, <2>1, <2>2, <2>3, <2>4, MonitorKept
<1>5. CASE backend = "vdd" /\ AccessLost
  <2>1. /\ duplication' = "none" /\ failures' = (failures + 1) % HardResetAfter
        /\ UNCHANGED <<backend, stage, changed, have, refresh, retries>>
        /\ HardReset \/ UNCHANGED <<topology, shape, plugged, displayFaults>>
    BY <1>5 DEF AccessLost
  <2>2. failures' \in 0..(HardResetAfter - 1) BY <1>0, <2>1, DisplayConstants
  <2>3. /\ topology' \in {"fine", "dropped", "wedged"} /\ shape' \in Shapes
        /\ plugged' \in BOOLEAN /\ displayFaults' \in 0..MaxDisplayFaults
    BY <1>0, <2>1, HardResetKeeps, DisplayParts
  <2> QED BY <1>0, <1>1, <1>5, <2>1, <2>2, <2>3 DEF DisplayInv, DisplayTypeOK, NothingStaysPlugged
<1>6. CASE backend = "vdd" /\ Recreate
  <2>1. /\ duplication' = (IF topology = "wedged" THEN "lost" ELSE "valid")
        /\ have' = FALSE /\ changed' = TRUE /\ shape' \in Shapes
        /\ UNCHANGED <<backend, stage, plugged, refresh, retries, topology, failures, displayFaults>>
    BY <1>6 DEF Recreate
  <2> QED BY <1>0, <1>1, <1>6, <2>1 DEF DisplayInv, DisplayTypeOK, NothingStaysPlugged
<1> QED BY <1>2, <1>3, <1>4, <1>5, <1>6 DEF LoopStep

LEMMA TopologyKeeps == ASSUME DisplayInv, TopologyChanges PROVE DisplayInv' /\ UNCHANGED stage
<1>1. /\ stage = "attached" /\ backend = "vdd"
      /\ topology' \in {"fine", "dropped", "wedged"}
      /\ Mishap \/ UNCHANGED displayFaults
      /\ duplication' = (IF duplication = "valid" THEN "lost" ELSE duplication)
      /\ UNCHANGED <<changed, have, refresh, retries, failures, backend, stage, plugged, shape, owed>>
  BY DEF TopologyChanges, Looping, monitorVars
<1>2. displayFaults' \in 0..MaxDisplayFaults
  <2>1. CASE Mishap BY <2>1, MishapCounts
  <2>2. CASE UNCHANGED displayFaults BY <2>2, DisplayParts
  <2> QED BY <1>1, <2>1, <2>2
<1> QED BY <1>1, <1>2 DEF DisplayInv, DisplayTypeOK, NothingStaysPlugged

LEMMA AskKeeps == ASSUME DisplayInv, AskRefresh PROVE DisplayInv' /\ UNCHANGED stage
<1>1. /\ refresh' = TRUE /\ owed' = TRUE
      /\ UNCHANGED <<changed, retries, have, topology, duplication, failures, monitorVars, displayFaults>>
  BY DEF AskRefresh, windowsVars
<1> QED BY <1>1, MonitorKept, DisplayParts DEF monitorVars

LEMMA ScreenKeeps == ASSUME DisplayInv, ScreenChanges PROVE DisplayInv' /\ UNCHANGED stage
<1>1. /\ changed' = TRUE
      /\ UNCHANGED <<refresh, retries, have, topology, duplication, failures, monitorVars, owed, displayFaults>>
  BY DEF ScreenChanges, windowsVars
<1> QED BY <1>1, MonitorKept, DisplayParts DEF monitorVars

LEMMA DisplayStays == DisplayInv /\ UNCHANGED displayVars => DisplayInv'
BY DEF displayVars, DisplayInv, DisplayTypeOK, NothingStaysPlugged

-----------------------------------------------------------------------------
(* A session.                                                               *)

StreamInv == EncInv /\ DisplayInv /\ (stage = "attached" => Running)

LEMMA StreamStarts == StreamInit => StreamInv
<1> SUFFICES ASSUME StreamInit PROVE StreamInv OBVIOUS
<1>1. EncInv
  <2>1. /\ chain \in Chains /\ enc = NoEncoder /\ idrAge = 0 /\ force = FALSE /\ tuning \in Rates /\ broken = TRUE
        /\ leaked = {} /\ oom = FALSE /\ encFaults = 0 /\ losses = 0
    BY DEF StreamInit, EncInit
  <2>2. idrAge \in 0..MaxIdr /\ encFaults \in 0..MaxEncFaults /\ losses \in 0..MaxLosses
    BY <2>1, EncodingAssumption
  <2> QED BY <2>1, <2>2 DEF EncInv, RefusalsLeakNothing
<1>2. DisplayInv /\ stage = "idle"
  <2>1. /\ backend \in Backends /\ stage = "idle" /\ plugged = FALSE /\ shape \in Shapes
        /\ changed = FALSE /\ have = FALSE /\ refresh = FALSE /\ retries = 0
        /\ topology = "fine" /\ duplication = "none" /\ failures = 0
        /\ owed = FALSE /\ displayFaults = 0
    BY DEF StreamInit, DisplayInit
  <2>2. retries \in 0..RefreshRetries /\ failures \in 0..(HardResetAfter - 1) /\ displayFaults \in 0..MaxDisplayFaults
    BY <2>1, DisplayConstants
  <2> QED BY <2>1, <2>2 DEF DisplayInv, DisplayTypeOK, NothingStaysPlugged
<1> QED BY <1>1, <1>2 DEF StreamInv

LEMMA StreamSteps == StreamInv /\ [StreamNext]_streamVars => StreamInv'
<1> SUFFICES ASSUME StreamInv, [StreamNext]_streamVars PROVE StreamInv' OBVIOUS
<1> USE DEF StreamInv
<1>0. idrAge \in 0..MaxIdr /\ force \in BOOLEAN /\ tuning \in Rates BY DEF EncInv
<1>1. CASE Begins
  <2>1. EncInv' /\ enc' # NoEncoder BY <1>1, OpenKeeps DEF Begins
  <2>2. DisplayInv' BY <1>1, AskKeeps DEF Begins
  <2>3. Running'
    <3>1. (EncInv => (Running <=> enc # NoEncoder))' BY RunningIsWell, PTL
    <3> QED BY <2>1, <3>1
  <2> QED BY <2>1, <2>2, <2>3
<1>2. CASE Attaches
  <2>1. Running /\ Attach /\ UNCHANGED encVars BY <1>2 DEF Attaches
  <2>2. EncInv' BY <1>0, <2>1, EncoderKept DEF encVars
  <2>3. Running' BY <2>1 DEF Running, encVars
  <2> QED BY <2>1, <2>2, <2>3, AttachKeeps
<1>3. CASE GivesUp
  <2>1. EncInv' BY <1>3, CloseKeeps DEF GivesUp
  <2>2. DisplayInv' BY <1>3, FailKeeps DEF GivesUp
  <2>3. stage' = "idle" BY <1>3 DEF GivesUp, AttachFails, WatchdogFails
  <2> QED BY <2>1, <2>2, <2>3
<1>4. CASE Ends
  <2>1. EncInv' BY <1>4, CloseKeeps DEF Ends
  <2> QED BY <1>4, <2>1, DetachKeeps DEF Ends
<1>5. CASE Shows
  <2>1. shape \in Captured BY PlatformAssumption DEF DisplayInv, DisplayTypeOK
  <2>2. EncInv' /\ EncoderWell(enc') BY <1>5, <2>1, CaptureKeeps DEF Shows
  <2>3. DisplayInv' BY <1>5, LoopKeeps DEF Shows
  <2>4. Running'
    <3>1. chain \in Chains /\ UNCHANGED chain BY <1>5 DEF Shows, CaptureFrame, EncInv
    <3>2. enc'.kind # "none" BY <2>2, <3>1, ChainKnown DEF EncoderWell
    <3> QED BY <3>2 DEF Running
  <2> QED BY <2>2, <2>3, <2>4
<1>6. CASE Waits
  <2>1. LoopStep(FALSE) /\ UNCHANGED encVars BY <1>6 DEF Waits
  <2>2. EncInv' BY <1>0, <2>1, EncoderKept DEF encVars
  <2>3. DisplayInv' /\ UNCHANGED stage BY <2>1, LoopKeeps
  <2> QED BY <2>1, <2>2, <2>3 DEF encVars, Running
<1>7. CASE Asks
  <2>1. /\ force' = TRUE
        /\ UNCHANGED <<chain, enc, idrAge, tuning, broken, leaked, oom, encFaults, losses>>
    BY <1>7 DEF Asks, Pli
  <2>2. EncInv' BY <1>0, <2>1, EncoderKept
  <2>3. DisplayInv' /\ UNCHANGED stage BY <1>7, AskKeeps DEF Asks
  <2> QED BY <2>1, <2>2, <2>3 DEF Running
<1>8. CASE Adapts
  <2>1. UNCHANGED <<chain, enc, force, broken, leaked, oom, encFaults, losses, displayVars>>
    BY <1>8 DEF Adapts, Tune, Tick
  <2>2. tuning' \in Rates BY <1>0, <1>8 DEF Adapts, Tune, Tick
  <2>3. idrAge' \in 0..MaxIdr
    <3>1. UNCHANGED idrAge \/ (idrAge < MaxIdr /\ idrAge' = idrAge + 1)
      BY <1>8 DEF Adapts, Tune, Tick
    <3> QED BY <1>0, <3>1, EncodingAssumption
  <2>4. EncInv' BY <1>0, <2>1, <2>2, <2>3, EncoderKept
  <2>5. DisplayInv' BY <2>1, DisplayStays
  <2> QED BY <2>1, <2>4, <2>5 DEF displayVars, Running
<1>9. CASE Happens
  <2>1. UNCHANGED encVars /\ (ScreenChanges \/ TopologyChanges) BY <1>9 DEF Happens
  <2>2. EncInv' BY <1>0, <2>1, EncoderKept DEF encVars
  <2>3. DisplayInv' /\ UNCHANGED stage BY <2>1, ScreenKeeps, TopologyKeeps
  <2> QED BY <2>1, <2>2, <2>3 DEF encVars, Running
<1>10. CASE UNCHANGED streamVars
  <2>1. UNCHANGED encVars /\ UNCHANGED displayVars BY <1>10 DEF streamVars
  <2>2. EncInv' BY <1>0, <2>1, EncoderKept DEF encVars
  <2>3. DisplayInv' BY <2>1, DisplayStays
  <2> QED BY <2>1, <2>2, <2>3 DEF encVars, displayVars, Running
<1> QED BY <1>1, <1>2, <1>3, <1>4, <1>5, <1>6, <1>7, <1>8, <1>9, <1>10 DEF StreamNext, Captures

LEMMA StreamInvHolds == StreamSpec => []StreamInv
BY StreamStarts, StreamSteps, PTL DEF StreamSpec

\* Of a session nothing stays behind, for any platform, chain of encoders, sizes,
\* bitrates, group of pictures and number of faults: the error paths of every
\* encoder's constructor free what they must, also when it is rebuilt, and the
\* monitor is unplugged (HwEncoder::new, encode_frame, detach).
THEOREM SessionsClean == StreamSpec => []SessionsLeaveNothing
<1>1. StreamInv => EncTypeOK
  <2> SUFFICES ASSUME StreamInv PROVE EncTypeOK OBVIOUS
  <2>1. EncInv BY DEF StreamInv
  <2>2. CASE Running
    <3>1. EncoderWell(enc) BY <2>1, <2>2, RunningIsWell
    <3>2. enc.kind \in {chain[i] : i \in 1..Len(chain)} /\ enc.has = BuiltOf[enc.kind]
      BY <3>1 DEF EncoderWell, InChain
    <3>3. /\ enc.size \in Captured /\ enc.cfgSize \in Captured /\ enc.rate \in Rates /\ enc.cfgRate \in Rates
          /\ enc.count \in Counts /\ enc.fresh \in BOOLEAN
      BY <3>1, EncoderFields DEF EncoderWell
    <3> QED BY <2>1, <3>2, <3>3 DEF EncInv, EncTypeOK, Counts
  <2>3. CASE ~Running BY <2>1, <2>3 DEF EncInv, EncTypeOK
  <2> QED BY <2>2, <2>3
<1>2. StreamInv => SessionsLeaveNothing
  BY <1>1 DEF StreamInv, SessionsLeaveNothing, StreamTypeOK, EncInv, DisplayInv, Looping
<1> QED BY <1>2, StreamInvHolds, PTL

-----------------------------------------------------------------------------
(* CaptureLoop *)

USE CaptureAssumption DEF Ids, None, Manager, Thread

\* Where a thread is says what it holds: the manager, past the registration, its
\* address; the USB thread its client or the callback that it runs.
Positions ==
    /\ mgr \in {"install", "register"} => man # None
    /\ mgr \in {"start", "swap"} => addr # None
    /\ usbId # None <=> usb \in {"start", "claim", "read"}
    /\ cb = "usb" => usb = "callback"

\* capture_start has a client whose flag is set or about to be, or a callback;
\* the flag a client that is registered, or a teardown that has still to take it.
StartIsFlagged == start => active \/ mgr = "swap" \/ usb = "claim" \/ CallbackDue
FlagIsHeld     == active => Registered \/ TearingDown

Core  == ValuesOK /\ Positions /\ BaseIsSessions
Flags == StartIsFlagged /\ FlagIsHeld

LEMMA InitInv == Init => FlagsOK /\ Core /\ Flags
<1> SUFFICES ASSUME Init PROVE FlagsOK /\ Core /\ Flags OBVIOUS
<1>1. FlagsOK BY Zenon DEF Init, FlagsOK
<1>2. Core BY DEF Init, Core, ValuesOK, Positions, BaseIsSessions
<1>3. Flags BY DEF Init, Flags, StartIsFlagged, FlagIsHeld
<1> QED BY <1>1, <1>2, <1>3

LEMMA FlagsKept == ASSUME FlagsOK, [Next]_vars PROVE FlagsOK'
<1> USE DEF FlagsOK, clients, slots, callback, session, ClientRest
<1>1. CASE Client
  BY <1>1, Zenon DEF Client, NetPair, NetTake, NetPacket, Timeout, Stng, HangUp, UsbFound, UsbConnect,
     UsbEof, NetRest, DropRest, UsbRest
<1>2. CASE NetStep
  BY <1>2, Zenon DEF NetStep, NetInstall, NetRegister, NetStart, NetActive, NetRest
<1>3. CASE DropStep \/ UsbStep
  BY <1>3, Zenon DEF DropStep, DropAddr, DropKeys, DropUsb, DropActive, DropRest, UsbStep, UsbStart,
     UsbClaim, UsbCheck, UsbRelease, UsbRest
<1>4. CASE Callback
  BY <1>4, Zenon DEF Callback, CbEnter, CbSettings, CbStop, CbStart, CbLeave, CbRest
<1>5. CASE Capture
  BY <1>5, Zenon DEF Capture, CapWake, CapReset, CapSettings, CapCipher,
     CapAttach, CapFrame, CapLoopEnds, CapJoin, CapRest, CapGo
<1>6. CASE Failure \/ Watchdog
  BY <1>6, Zenon DEF Failure, CapEncoderFails, CapAttachFails, CapWatchdogFails, CapLoopFails,
     Watchdog, CapRest, CapGo
<1>7. CASE UNCHANGED vars BY <1>7, Zenon DEF vars
<1> QED BY <1>1, <1>2, <1>3, <1>4, <1>5, <1>6, <1>7, Zenon DEF Next

LEMMA CoreClient == ASSUME Core, Client PROVE Core'
<1> USE DEF Core, ValuesOK, Positions, BaseIsSessions, ClientRest, NetRest, DropRest, UsbRest,
            slots, session, ManagerFree
<1>1. CASE NetPair BY <1>1 DEF NetPair
<1>2. CASE NetTake BY <1>2 DEF NetTake
<1>3. CASE NetPacket BY <1>3 DEF NetPacket
<1>4. CASE Timeout BY <1>4 DEF Timeout, DropGo
<1>5. ASSUME NEW s \in Ids, Stng(s) PROVE Core' BY <1>5 DEF Stng
<1>6. ASSUME NEW s \in Ids, HangUp(s) PROVE Core' BY <1>6 DEF HangUp, DropGo
<1>7. CASE UsbFound BY <1>7 DEF UsbFound
<1>8. CASE UsbConnect BY <1>8 DEF UsbConnect
<1>9. CASE UsbEof BY <1>9 DEF UsbEof
<1> QED BY <1>1, <1>2, <1>3, <1>4, <1>5, <1>6, <1>7, <1>8, <1>9 DEF Client

LEMMA CoreThreads == ASSUME Core, NetStep \/ DropStep \/ UsbStep PROVE Core'
<1> USE DEF Core, ValuesOK, Positions, BaseIsSessions, ClientRest, NetRest, DropRest, UsbRest,
            slots, session, AddrLockFree
<1>1. CASE NetInstall BY <1>1 DEF NetInstall
<1>2. CASE NetRegister BY <1>2 DEF NetRegister
<1>3. CASE NetStart BY <1>3 DEF NetStart
<1>4. CASE NetActive BY <1>4 DEF NetActive
<1>5. ASSUME NEW t \in Thread, DropAddr(t) PROVE Core' BY <1>5 DEF DropAddr, DropGo
<1>6. ASSUME NEW t \in Thread, DropKeys(t) PROVE Core' BY <1>6 DEF DropKeys, DropGo
<1>7. ASSUME NEW t \in Thread, DropUsb(t) PROVE Core' BY <1>7 DEF DropUsb, DropGo
<1>8. ASSUME NEW t \in Thread, DropActive(t) PROVE Core' BY <1>8 DEF DropActive, DropGo
<1>9. CASE UsbStart BY <1>9 DEF UsbStart
<1>10. CASE UsbClaim BY <1>10 DEF UsbClaim
<1>11. CASE UsbCheck BY <1>11 DEF UsbCheck
<1>12. CASE UsbRelease BY <1>12 DEF UsbRelease
<1> QED BY <1>1, <1>2, <1>3, <1>4, <1>5, <1>6, <1>7, <1>8, <1>9, <1>10, <1>11, <1>12
     DEF NetStep, DropStep, UsbStep

LEMMA CoreCallback == ASSUME Core, Callback PROVE Core'
<1> USE DEF Core, ValuesOK, Positions, BaseIsSessions, CbRest, CbOn, slots, session
<1>1. CASE CbEnter BY <1>1 DEF CbEnter
<1>2. CASE CbSettings BY <1>2 DEF CbSettings
<1>3. CASE CbStop BY <1>3 DEF CbStop
<1>4. CASE CbStart BY <1>4 DEF CbStart, CbLeave
<1> QED BY <1>1, <1>2, <1>3, <1>4 DEF Callback

LEMMA CoreCapture == ASSUME Core, Capture \/ Failure \/ Watchdog PROVE Core'
<1> USE DEF Core, ValuesOK, Positions, BaseIsSessions, CapRest, CapGo, Fails, clients, slots,
            callback, session
<1>1. CASE CapWake BY <1>1 DEF CapWake
<1>2. CASE CapReset BY <1>2 DEF CapReset
<1>3. CASE CapSettings BY <1>3 DEF CapSettings
<1>4. CASE CapCipher BY <1>4 DEF CapCipher
<1>5. CASE CapAttach BY <1>5 DEF CapAttach
<1>6. CASE CapFrame BY <1>6 DEF CapFrame
<1>7. CASE CapLoopEnds BY <1>7 DEF CapLoopEnds
<1>8. CASE CapJoin BY <1>8 DEF CapJoin
<1>9. CASE CapEncoderFails BY <1>9 DEF CapEncoderFails
<1>10. CASE CapAttachFails BY <1>10 DEF CapAttachFails
<1>11. CASE CapWatchdogFails BY <1>11 DEF CapWatchdogFails
<1>12. CASE CapLoopFails BY <1>12 DEF CapLoopFails
<1>13. CASE Watchdog BY <1>13 DEF Watchdog
<1> QED BY <1>1, <1>2, <1>3, <1>4, <1>5, <1>6, <1>7, <1>8, <1>9, <1>10, <1>11, <1>12, <1>13
     DEF Capture, Failure

\* A registration that is under way is not undone before it is over.
LEMMA FlagsClient == ASSUME Core, Flags, Client PROVE Flags'
<1> USE DEF Core, ValuesOK, Positions, Flags, StartIsFlagged, FlagIsHeld, Registered, CallbackDue,
            TearingDown, ClientRest, NetRest, DropRest, UsbRest, slots, ManagerFree
<1>1. CASE NetPair BY <1>1 DEF NetPair
<1>2. CASE NetTake BY <1>2 DEF NetTake
<1>3. CASE NetPacket BY <1>3 DEF NetPacket
<1>4. CASE Timeout BY <1>4 DEF Timeout, DropGo
<1>5. ASSUME NEW s \in Ids, Stng(s) PROVE Flags' BY <1>5 DEF Stng
<1>6. ASSUME NEW s \in Ids, HangUp(s) PROVE Flags' BY <1>6 DEF HangUp, DropGo
<1>7. CASE UsbFound BY <1>7 DEF UsbFound
<1>8. CASE UsbConnect BY <1>8 DEF UsbConnect
<1>9. CASE UsbEof BY <1>9 DEF UsbEof
<1> QED BY <1>1, <1>2, <1>3, <1>4, <1>5, <1>6, <1>7, <1>8, <1>9 DEF Client

\* The flag is swapped out by one thread, which then owes the callback.
LEMMA FlagsThreads == ASSUME Core, Flags, NetStep \/ DropStep \/ UsbStep PROVE Flags'
<1> USE DEF Core, ValuesOK, Positions, Flags, StartIsFlagged, FlagIsHeld, Registered, CallbackDue,
            TearingDown, ClientRest, NetRest, DropRest, UsbRest, slots, AddrLockFree
<1>1. CASE NetInstall BY <1>1 DEF NetInstall
<1>2. CASE NetRegister BY <1>2 DEF NetRegister
<1>3. CASE NetStart BY <1>3 DEF NetStart
<1>4. CASE NetActive BY <1>4 DEF NetActive
<1>5. ASSUME NEW t \in Thread, DropAddr(t) PROVE Flags' BY <1>5 DEF DropAddr, DropGo
<1>6. ASSUME NEW t \in Thread, DropKeys(t) PROVE Flags' BY <1>6 DEF DropKeys, DropGo
<1>7. ASSUME NEW t \in Thread, DropUsb(t) PROVE Flags' BY <1>7 DEF DropUsb, DropGo
<1>8. ASSUME NEW t \in Thread, DropActive(t) PROVE Flags' BY <1>8 DEF DropActive, DropGo
<1>9. CASE UsbStart BY <1>9 DEF UsbStart
<1>10. CASE UsbClaim BY <1>10 DEF UsbClaim
<1>11. CASE UsbCheck BY <1>11 DEF UsbCheck
<1>12. CASE UsbRelease BY <1>12 DEF UsbRelease
<1> QED BY <1>1, <1>2, <1>3, <1>4, <1>5, <1>6, <1>7, <1>8, <1>9, <1>10, <1>11, <1>12
     DEF NetStep, DropStep, UsbStep

LEMMA FlagsCallback == ASSUME Core, Flags, Callback PROVE Flags'
<1> USE DEF Core, ValuesOK, Positions, Flags, StartIsFlagged, FlagIsHeld, Registered, CallbackDue,
            TearingDown, CbRest, CbOn, slots
<1>1. CASE CbEnter BY <1>1 DEF CbEnter
<1>2. CASE CbSettings BY <1>2 DEF CbSettings
<1>3. CASE CbStop BY <1>3 DEF CbStop
<1>4. CASE CbStart BY <1>4 DEF CbStart, CbLeave
<1> QED BY <1>1, <1>2, <1>3, <1>4 DEF Callback

\* The capture thread only lowers capture_start.
LEMMA FlagsCapture == ASSUME Flags, Capture \/ Failure \/ Watchdog PROVE Flags'
<1>1. UNCHANGED <<clients, callback>> /\ (start' => start)
  BY DEF Capture, Failure, CapWake, CapReset, CapSettings, CapCipher, CapAttach, CapFrame, CapLoopEnds,
     CapJoin, CapEncoderFails, CapAttachFails, CapWatchdogFails, CapLoopFails, Watchdog, CapRest, CapGo
<1> QED BY <1>1 DEF Flags, StartIsFlagged, FlagIsHeld, Registered, CallbackDue, TearingDown,
                    clients, slots, callback

LEMMA Inductive == Spec => [](FlagsOK /\ Core /\ Flags)
<1>1. ASSUME Core, UNCHANGED vars PROVE Core'
  BY <1>1 DEF vars, Core, ValuesOK, Positions, BaseIsSessions, clients, slots, callback, session
<1>2. ASSUME Flags, UNCHANGED vars PROVE Flags'
  BY <1>2 DEF vars, Flags, StartIsFlagged, FlagIsHeld, Registered, CallbackDue, TearingDown,
              clients, slots, callback
<1>3. ASSUME Core, [Next]_vars PROVE Core'
  BY <1>1, <1>3, CoreClient, CoreThreads, CoreCallback, CoreCapture DEF Next
<1>4. ASSUME Core, Flags, [Next]_vars PROVE Flags'
  BY <1>2, <1>4, FlagsClient, FlagsThreads, FlagsCallback, FlagsCapture DEF Next
<1>5. ASSUME FlagsOK /\ Core /\ Flags, [Next]_vars PROVE (FlagsOK /\ Core /\ Flags)'
  BY <1>3, <1>4, <1>5, FlagsKept
<1> QED BY <1>5, InitInv, PTL DEF Spec

\* The capture thread, the callbacks and the clients keep every type.
THEOREM TypeCorrect == Spec => []TypeOK
<1>1. FlagsOK /\ Core /\ Flags => TypeOK BY DEF Core, TypeOK
<1> QED BY <1>1, Inductive, PTL

\* capture_start without a client has a teardown or a callback still to come,
\* for any number of clients that come and go on both transports, and any
\* failures of the capture thread.
THEOREM StartBacked == Spec => []StartIsBacked
<1>1. FlagsOK /\ Core /\ Flags => StartIsBacked
  BY DEF Core, Flags, Positions, StartIsFlagged, FlagIsHeld, StartIsBacked, Registered
<1> QED BY <1>1, Inductive, PTL

\* The bitrate baseline is the capture session's own for as long as it lasts.
THEOREM BaseOfSession == Spec => []BaseIsSessions
<1>1. FlagsOK /\ Core /\ Flags => BaseIsSessions BY DEF Core
<1> QED BY <1>1, Inductive, PTL
=================================================================================
