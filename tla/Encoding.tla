------------------------------- MODULE Encoding -------------------------------
(***************************************************************************)
(* The daemon's encoder in a streaming session: which backend opens, what a *)
(* refused one leaves behind, its rebuilding when the captured size or (for *)
(* VideoToolbox) the bitrate changes, which frames become IDRs, and what a  *)
(* client that lost a frame sees until the next one.                        *)
(* Time is counted in ticks; codecs are known by what the code relies on.   *)
(***************************************************************************)
EXTENDS Naturals, FiniteSets, Sequences, Ladder

CONSTANTS Chains,     \* per platform and codec, the backends in the order they are tried
          OwnFrames,  \* those that build an AVHWFramesContext (VA-API, NVENC, QSV)
          Recreated,  \* those that a new bitrate recreates (VideoToolbox)
          Deaf,       \* those with a fixed quantizer: VA-API HEVC in CQP mode
          Captured,   \* frame sizes
          Negotiated, \* those that a session may be configured with
          Rates,      \* bitrates that the adaptive loop asks for
          Gop,        \* config.gop
          MinPli, MaxIdr, \* MIN_PLI_IDR_INTERVAL and max_idr_interval, in ticks
          MaxEncFaults, MaxLosses  \* bounds: failures while encoding, units lost

ASSUME EncodingAssumption ==
    /\ Gop \in Nat \ {0} /\ MinPli \in Nat /\ MaxIdr \in Nat /\ MinPli <= MaxIdr
    /\ \A c \in Chains : Len(c) \in Nat \ {0} /\ \A i \in 1..Len(c) : c[i] # "none"
    /\ Negotiated \subseteq Captured
    /\ MaxEncFaults \in Nat /\ MaxLosses \in Nat

VARIABLES
    chain,      \* the backends of this build, codec and --encoder; it stays
    enc,        \* the encoder: [kind, has, size, rate, cfgSize, cfgRate, count, fresh]
    idrAge,     \* ticks since last_idr_at
    force,      \* force_idr of the shared state
    tuning,     \* current_stream_tuning().bitrate_bps
    broken,     \* the client misses a reference of the picture
    leaked,     \* resources of encoders that were never built
    oom,        \* an allocation failed
    encFaults, losses

encVars == <<chain, enc, idrAge, force, tuning, broken, leaked, oom, encFaults, losses>>

NoEncoder == [kind |-> "none", has |-> {}]
Running   == enc.kind # "none"

EncInit ==
    /\ chain \in Chains
    /\ enc = NoEncoder /\ idrAge = 0 /\ force = FALSE /\ tuning \in Rates /\ broken = TRUE
    /\ leaked = {} /\ oom = FALSE /\ encFaults = 0 /\ losses = 0

-----------------------------------------------------------------------------
(* HwEncoder::new_with_vaapi_hevc_mode and SwEncoder::new.                  *)

\* Mutated HwDeviceSteps: the codec context is forgotten when the pool is refused.
HwDeviceStepsKeepContext(kind) ==
    IF kind \notin OwnFrames THEN <<>>
    ELSE <<Take({"device"}, {"ctx"}),
           Allocate({"frames"}, {"device", "ctx"}),
           Take({}, {"frames", "device"})>>

\* Encoders that upload their frames themselves take a device and a pool;
\* AMF, MF and VideoToolbox do not (the pointers stay null).
HwDeviceSteps(kind) ==
    IF kind \notin OwnFrames THEN <<>>
    ELSE <<Take({"device"}, {"ctx"}),
           Allocate({"frames"}, {"device", "ctx"}),
           Take({}, {"frames", "device", "ctx"})>>

HwOpenSteps(kind) ==
    <<Take({}, {"frames", "device", "ctx"}), LetGo({"frames"}),
      Allocate({"sws"}, {"device", "ctx"})>>

HwFrameSteps ==
    <<Allocate({"bgra"}, {}), Allocate({"frame"}, {}), Allocate({"mapped"}, {}), Allocate({"pkt"}, {})>>

HwSteps(kind) ==
    <<Take({}, {}), Allocate({"ctx"}, {})>> \o HwDeviceSteps(kind) \o HwOpenSteps(kind) \o HwFrameSteps

SwSteps ==
    <<Take({}, {}), Allocate({"ctx"}, {}), Take({}, {"ctx"}), Allocate({"sws"}, {"ctx"}),
      Allocate({"bgra"}, {}), Allocate({"yuv"}, {}), Allocate({"pkt"}, {})>>

EncoderSteps(kind) == IF kind = "software" THEN SwSteps ELSE HwSteps(kind)

\* Drop for HwEncoder and SwEncoder; a null pointer is skipped.
Dropped(kind) ==
    IF kind = "software" THEN {"pkt", "yuv", "bgra", "sws", "ctx"}
    ELSE {"pkt", "frame", "mapped", "nv12", "bgra", "sws", "ctx", "device"}

NotDropped(e) == e.has \ Dropped(e.kind)

\* push_frame, as a constructor of a submitted picture: what one call holds
\* of the pool's surfaces, and what its error paths give back.  A driver maps
\* the surface, or the picture is uploaded from a system buffer (nv12, which
\* the encoder keeps).  Submitting unreferences the surface either way.
SubmitSteps(held) == <<Take({}, held), LetGo(held), Take({}, {})>>

UploadSteps ==
    {<<Take({"surface"}, {})>> \o SubmitSteps({"surface"}),
     <<Take({"surface"}, {}), Allocate({}, {"surface"}), LetGo({"surface"}),
       Take({"surface"}, {}), Take({}, {"surface"})>> \o SubmitSteps({"surface"})}

VideoToolboxSteps == {<<Take({"pixels"}, {})>> \o SubmitSteps({"pixels"})}

SystemSteps == {<<Allocate({}, {}), Take({}, {})>> \o SubmitSteps({})}

PushSteps(kind) ==
    CASE kind \in OwnFrames     -> UploadSteps
      [] kind = "videotoolbox" -> VideoToolboxSteps
      [] OTHER                 -> SystemSteps

-----------------------------------------------------------------------------
(* Encoder::new, at the start of a session.                                 *)

\* What the constructor of each kind can come to, with and without a lack of memory.
Kinds   == UNION {{c[i] : i \in 1..Len(c)} : c \in Chains}
Build   == [kind \in Kinds |-> [memory \in BOOLEAN |-> Outcomes(EncoderSteps(kind), memory)]]
BuiltOf == [kind \in Kinds |-> Built(EncoderSteps(kind))]
Refused == [kind \in Kinds |-> {o.left : o \in {p \in Build[kind][FALSE] : ~p.ok}}]

\* Each backend before the one that opens was refused at some step.  The
\* registration that asked for the session asked for an IDR too.
OpenEncoder ==
    /\ ~Running
    /\ \E i \in 1..Len(chain) : \E left \in [1..(i - 1) -> UNION {Refused[k] : k \in Kinds}],
         size \in Negotiated :
         /\ \A j \in 1..(i - 1) : left[j] \in Refused[chain[j]]
         /\ leaked' = leaked \cup UNION {left[j] : j \in 1..(i - 1)}
         /\ enc' = [kind |-> chain[i], has |-> BuiltOf[chain[i]], size |-> size,
                    cfgSize |-> size, rate |-> tuning, cfgRate |-> tuning, count |-> 0, fresh |-> TRUE]
    /\ idrAge' = 0 /\ broken' = TRUE /\ force' = TRUE
    /\ UNCHANGED <<chain, tuning, oom, encFaults, losses>>

\* The session ends: the encoder is dropped.
CloseEncoder ==
    /\ Running
    /\ leaked' = leaked \cup NotDropped(enc) /\ enc' = NoEncoder /\ idrAge' = 0 /\ broken' = TRUE
    /\ UNCHANGED <<chain, force, tuning, oom, encFaults, losses>>

-----------------------------------------------------------------------------
(* The session callback for one captured frame.  Each stage gives a set of  *)
(* results [e, age, left, failed, memory], and fails for one fault.         *)

Result(e, age, left, failed, memory) ==
    [e |-> e, age |-> age, left |-> left, failed |-> failed, memory |-> memory]

Unbuilt(o) == ~o.ok

\* reconfigure_bitrate: most encoders get the new rate in their context, one
\* with a fixed quantizer has no use for it.  VideoToolbox is built anew,
\* which may be refused; the new sequence begins with an IDR.
Retuned(e, age) ==
    IF tuning = e.cfgRate THEN {Result(e, age, {}, FALSE, FALSE)}
    ELSE IF e.kind \notin Recreated
    THEN {Result([e EXCEPT !.cfgRate = tuning, !.rate = IF e.kind \in Deaf THEN @ ELSE tuning],
                 age, {}, FALSE, FALSE)}
    ELSE {IF Unbuilt(o) THEN Result(e, age, o.left, TRUE, o.memory)
          ELSE Result([e EXCEPT !.has = o.has, !.rate = tuning, !.cfgRate = tuning,
                                !.count = 0, !.fresh = TRUE], 0, NotDropped(e), FALSE, FALSE)
            : o \in Build[e.kind][TRUE]}

\* A VA-API encoder for H.265 is tried with a bitrate first, then with CQP.
Again(kind) ==
    IF kind \in {"vaapi", "vaapi_cqp"}
    THEN {k \in {"vaapi", "vaapi_cqp"} : \E i \in 1..Len(chain) : chain[i] = k} ELSE {kind}

\* encode_frame: another size rebuilds the encoder.  The configuration has the
\* new size even if that fails; the frame count and last_idr_at stay.
Resized(e, age, size) ==
    IF size = e.cfgSize THEN {Result(e, age, {}, FALSE, FALSE)}
    ELSE {IF Unbuilt(o[2]) THEN Result([e EXCEPT !.cfgSize = size], age, o[2].left, TRUE, o[2].memory)
          ELSE Result([e EXCEPT !.kind = o[1], !.has = o[2].has, !.size = size, !.cfgSize = size,
                                !.rate = e.cfgRate, !.fresh = TRUE], age, NotDropped(e), FALSE, FALSE)
            : o \in UNION {{<<k, o2>> : o2 \in Build[k][TRUE]} : k \in Again(e.kind)}}

\* Mutated WantsIdr: only a PLI brings an IDR after the first frame.
WantsIdrAsked(e, age) == (force /\ age >= MinPli) \/ (e.count = 0 /\ e.fresh)

\* A PLI has an effect only some time after the last IDR.
WantsIdr(e, age) ==
    \/ force /\ age >= MinPli
    \/ e.count % Gop = 0
    \/ age >= MaxIdr

\* Pushing a frame gives a unit, or nothing yet, or an error; one of the last
\* step, drain_packets, loses units that were encoded.  A fresh encoder starts
\* with an IDR of its own.
Push(e, age, faulty) ==
    LET idr  == WantsIdr(e, age)
        next == [e EXCEPT !.count = (@ + 1) % Gop]
    IN \/ /\ ~faulty /\ idrAge' = (IF idr THEN 0 ELSE age) /\ enc' = [next EXCEPT !.fresh = FALSE]
          /\ \/ broken' = (broken /\ ~(idr \/ e.fresh)) /\ UNCHANGED losses
             \/ losses < MaxLosses /\ losses' = losses + 1 /\ broken' = TRUE
       \/ faulty /\ idrAge' = age /\ enc' = next /\ UNCHANGED <<broken, losses>>
       \/ /\ faulty /\ idrAge' = age /\ enc' = e /\ broken' \in {broken, TRUE}
          /\ UNCHANGED losses

\* What a failing push may leave behind.
PushLeftovers ==
    [kind \in Kinds |-> {{}} \cup UNION {{Leftover(steps, k) : k \in Failing(steps, TRUE)} :
                                         steps \in PushSteps(kind)}]

\* No more faults than the bound.
Affordable(spent, results) == {r \in results : r.failed => spent < MaxEncFaults}

CaptureFrame(size) ==
    /\ Running
    /\ \E r \in Affordable(encFaults, Retuned(enc, idrAge)) :
       LET one == encFaults + (IF r.failed THEN 1 ELSE 0)
       IN \E s \in Affordable(one, Resized(r.e, r.age, size)) :
       LET two == one + (IF s.failed THEN 1 ELSE 0)
       IN \E faulty \in IF two < MaxEncFaults THEN BOOLEAN ELSE {FALSE} :
          \E left \in IF faulty THEN PushLeftovers[s.e.kind] ELSE {{}} :
            /\ encFaults' = two + (IF faulty THEN 1 ELSE 0)
            /\ leaked' = leaked \cup r.left \cup s.left \cup left
            /\ oom' = (oom \/ r.memory \/ s.memory)
            /\ IF s.failed THEN ~faulty /\ enc' = s.e /\ idrAge' = s.age /\ UNCHANGED <<broken, losses>>
                           ELSE Push(s.e, s.age, faulty)
    /\ force' = FALSE
    /\ UNCHANGED <<chain, tuning>>

\* The client asks for an IDR, at most once a second and not for sure.
Pli  == Running /\ broken /\ force' = TRUE
        /\ UNCHANGED <<chain, enc, idrAge, tuning, broken, leaked, oom, encFaults, losses>>

Tune == /\ \E r \in Rates \ {tuning} : tuning' = r
        /\ UNCHANGED <<chain, enc, idrAge, force, broken, leaked, oom, encFaults, losses>>

Tick == /\ Running /\ idrAge < MaxIdr /\ idrAge' = idrAge + 1
        /\ UNCHANGED <<chain, enc, force, tuning, broken, leaked, oom, encFaults, losses>>

-----------------------------------------------------------------------------

EncTypeOK ==
    /\ chain \in Chains
    /\ Running => /\ enc.kind \in {chain[i] : i \in 1..Len(chain)}
                  /\ enc.has = BuiltOf[enc.kind]
                  /\ {enc.size, enc.cfgSize} \subseteq Captured /\ {enc.rate, enc.cfgRate} \subseteq Rates
                  /\ enc.count \in 0..(Gop - 1) /\ enc.fresh \in BOOLEAN
    /\ idrAge \in 0..MaxIdr /\ {force, broken, oom} \subseteq BOOLEAN
    /\ encFaults \in 0..MaxEncFaults /\ losses \in 0..MaxLosses

\* A backend that is refused, by the driver, the device or the codec, leaves
\* nothing behind, in Encoder::new (once per session for each backend before
\* the one that works) or when an encoder is rebuilt; nor does a dropped one.
\* Only a failing allocation leaks.
RefusalsLeakNothing == oom \/ leaked = {}
=============================================================================
