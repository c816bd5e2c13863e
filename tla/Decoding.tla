------------------------------- MODULE Decoding -------------------------------
(***************************************************************************)
(* The desktop client's decoder thread and video surface: which decoder     *)
(* opens for a codec, what refused ones leave behind, the conversion of a   *)
(* frame that is read back, the slot through which a frame reaches the QML  *)
(* item, and the GPU objects the item keeps from one frame to the next.     *)
(***************************************************************************)
EXTENDS Naturals, FiniteSets, Sequences, Ladder

CONSTANTS Probes,       \* per platform, the decoders in the order they are tried
          ZeroCopy,     \* those whose frames stay on the GPU (no SCREX_NO_ZEROCOPY)
          FrameSizes,   \* frame sizes; 0 stands for none yet
          Codecs,       \* codec ids of the transport
          MaxDecFaults  \* bound: frames that a decoder or the surface fails on

ASSUME DecodingAssumption ==
    /\ FrameSizes \subseteq Nat \ {0} /\ 0 \notin Codecs /\ MaxDecFaults \in Nat
    /\ ZeroCopy \subseteq {"vaapi", "videotoolbox", "d3d11va"}
    \* A decoder whose frames stay on the GPU is the first that is tried.
    /\ \A p \in Probes : Len(p) \in Nat \ {0} /\ \A i \in 2..Len(p) : p[i] \notin ZeroCopy

VARIABLES
    probes,      \* the decoders of this build; it stays
    shared,      \* do FFmpeg and Qt use different D3D11 devices?  It stays
    \* the decoder thread
    dec,         \* the decoder: [kind, codec, has, sws, buf, pix]
    at,          \* where the thread is: "idle", "publish", "flag"
    out,         \* the frame it has in hand: [size, hw, sound]
    \* shared with the GUI
    slot,        \* FrameSlot
    hasNew,      \* HAS_NEW_FRAME
    \* the GUI
    dirty,       \* update() was called
    current,     \* current_frame
    surface,     \* statics of render_hw_frame_*: [once, size, has, ring, turn]
    \* resources that nobody owns any more
    decLeaked, decOom, stray, decFaults

decVars == <<probes, shared, dec, at, out, slot, hasNew, dirty, current, surface,
             decLeaked, decOom, stray, decFaults>>
decoderThread == <<dec, at, out>>
gui           == <<dirty, current, surface, stray>>

NoDecoder == [kind |-> "none", codec |-> 0, has |-> {}, sws |-> 0, buf |-> 0, pix |-> 0]
NoPicture == [size |-> 0, hw |-> FALSE, sound |-> TRUE]

DecInit ==
    /\ probes \in Probes /\ shared \in {FALSE, probes[1] = "d3d11va"}
    /\ dec = NoDecoder /\ at = "idle" /\ out = NoPicture
    /\ slot = NoPicture /\ hasNew = FALSE
    /\ dirty = FALSE /\ current = NoPicture
    /\ surface = [once |-> FALSE, size |-> 0, has |-> {}, ring |-> <<{}, {}>>, turn |-> 1]
    /\ decLeaked = {} /\ decOom = FALSE /\ stray = {} /\ decFaults = 0

-----------------------------------------------------------------------------
(* HwDecoder::new_hw and SwDecoder::new.                                    *)

HwDecoderSteps ==
    <<Take({}, {}), Allocate({"ctx"}, {}), Take({"opaque"}, {"ctx"}),
      Take({"device"}, {"opaque", "ctx"}), Take({}, {"opaque", "device", "ctx"}),
      Take({"parser"}, {"opaque", "device", "ctx"}), Allocate({"buffers"}, {})>>

SwDecoderSteps ==
    <<Take({}, {}), Allocate({"ctx"}, {}), Take({}, {"ctx"}), Take({"parser"}, {"ctx"}),
      Allocate({"buffers"}, {})>>

DecoderSteps(kind) == IF kind = "software" THEN SwDecoderSteps ELSE HwDecoderSteps

\* Drop for HwDecoder and SwDecoder.
DecoderDropped(kind) ==
    {"buffers", "parser", "ctx"} \cup IF kind = "software" THEN {} ELSE {"device", "opaque"}

DecoderKinds == UNION {{p[i] : i \in 1..Len(p)} : p \in Probes}
DecoderBuilt == [kind \in DecoderKinds |-> Built(DecoderSteps(kind))]

\* What each refused decoder may leave behind.
RefusedDecoder ==
    [kind \in DecoderKinds |->
        {o.left : o \in {p \in Outcomes(DecoderSteps(kind), FALSE) : ~p.ok}}]

\* VideoDecoder::new: the first of the row that is not refused, or none.  The
\* decoder it replaces is dropped once the new one is there.
OpenedAt(codec, i) ==
    IF i > Len(probes) THEN NoDecoder
    ELSE [NoDecoder EXCEPT !.kind = probes[i], !.codec = codec, !.has = DecoderBuilt[probes[i]]]

Leavings == UNION {RefusedDecoder[k] : k \in DecoderKinds}

OpenDecoder(codec) ==
    UNION {{[d    |-> OpenedAt(codec, i),
             left |-> UNION {left[j] : j \in 1..(i - 1)} \cup (dec.has \ DecoderDropped(dec.kind))] :
            left \in {f \in [1..(i - 1) -> Leavings] : \A j \in 1..(i - 1) : f[j] \in RefusedDecoder[probes[j]]}} :
           i \in 1..(Len(probes) + 1)}

-----------------------------------------------------------------------------
(* Reading a frame back: the scaler and the RGBA buffer are kept while the  *)
(* size of the frames stays.                                                *)

\* Mutated EnsureSws: the scaler of the first frame serves them all.
EnsureSwsOnce(d, size) ==
    IF d.sws # 0 THEN {[d |-> d, failed |-> FALSE]}
    ELSE {[d |-> [d EXCEPT !.sws = size], failed |-> FALSE], [d |-> [d EXCEPT !.sws = 0], failed |-> TRUE]}

\* ensure_sws.
EnsureSws(d, size) ==
    IF d.sws = size THEN {[d |-> d, failed |-> FALSE]}
    ELSE {[d |-> [d EXCEPT !.sws = size], failed |-> FALSE], [d |-> [d EXCEPT !.sws = 0], failed |-> TRUE]}

\* The frame's old buffer is gone before the new one is allocated.
EnsureBuffer(d, size) ==
    IF d.buf = size THEN {[d |-> d, failed |-> FALSE]}
    ELSE {[d |-> [d EXCEPT !.buf = size, !.pix = size], failed |-> FALSE],
          [d |-> [d EXCEPT !.pix = 0], failed |-> TRUE]}

\* decode: no frame, an error (of the codec or of a transfer), a frame on the
\* GPU, or one read back, which the scaler or the buffer may prevent.
Decode(d, size) ==
    \/ UNCHANGED <<at, out, decOom, decFaults>> /\ dec' = d
    \/ /\ decFaults < MaxDecFaults /\ decFaults' = decFaults + 1
       /\ UNCHANGED <<at, out, decOom>> /\ dec' = d
    \/ /\ d.kind \in ZeroCopy
       /\ at' = "publish" /\ out' = [size |-> size, hw |-> TRUE, sound |-> TRUE]
       /\ UNCHANGED <<decOom, decFaults>> /\ dec' = d
    \/ /\ d.kind \notin ZeroCopy
       /\ \E s \in EnsureSws(d, size) : \E b \in IF s.failed THEN {s} ELSE EnsureBuffer(s.d, size) :
            /\ dec' = b.d /\ decOom' = (decOom \/ (b.failed /\ ~s.failed))
            /\ b.failed => decFaults < MaxDecFaults
            /\ decFaults' = IF b.failed THEN decFaults + 1 ELSE decFaults
            /\ IF b.failed THEN UNCHANGED <<at, out>>
               ELSE /\ at' = "publish"
                    /\ out' = [size |-> size, hw |-> FALSE,
                               sound |-> b.d.sws = size /\ b.d.pix = size]

\* One job of the decoder thread, up to the frame it gives.  A frame in another
\* codec, or a decoder that could not be opened, opens one.
DecodeJob(codec, size) ==
    /\ at = "idle"
    /\ IF dec.codec = codec
       THEN Decode(dec, size) /\ UNCHANGED decLeaked
       ELSE \E opened \in OpenDecoder(codec) :
              /\ decLeaked' = decLeaked \cup opened.left
              /\ IF opened.d = NoDecoder
                 THEN dec' = NoDecoder /\ UNCHANGED <<at, out, decOom, decFaults>>
                 ELSE Decode(opened.d, size)
    /\ UNCHANGED <<probes, shared, slot, hasNew, gui>>

\* Mutated Publish: the flag is raised before the frame is in the slot.
PublishFlagged ==
    /\ at = "publish"
    /\ \/ ~hasNew /\ hasNew' = TRUE /\ UNCHANGED <<at, slot, out>>
       \/ at' = "idle" /\ slot' = out /\ out' = NoPicture /\ UNCHANGED hasNew
    /\ UNCHANGED <<probes, shared, dec, gui, decLeaked, decOom, decFaults>>

\* The decoder thread swaps the frame in the slot for the new one, and raises
\* the flag.  (It takes the old one out first, to reuse its buffer.)
Publish ==
    /\ at = "publish" /\ at' = "flag" /\ slot' = out /\ out' = NoPicture
    /\ UNCHANGED <<probes, shared, dec, hasNew, gui, decLeaked, decOom, decFaults>>

RaiseFlag ==
    /\ at = "flag" /\ at' = "idle" /\ hasNew' = TRUE
    /\ UNCHANGED <<probes, shared, dec, out, slot, gui, decLeaked, decOom, decFaults>>

-----------------------------------------------------------------------------
(* The QML item.                                                            *)

\* poll_frame, from a timer.
PollFrame ==
    /\ hasNew /\ hasNew' = FALSE /\ dirty' = TRUE
    /\ UNCHANGED <<probes, shared, decoderThread, slot, current, surface, stray,
                   decLeaked, decOom, decFaults>>

\* Objects created at the first frame; a failure is tried again with the next.
\* Each is a set of rows.  GL compiles both shaders before it looks at either, so
\* either of them can be left by the other; Metal's library and function are made
\* without reference counting by the compiler, and nothing releases them.
VaapiOnce == {<<Take({pair[1]}, {}), Take({pair[2]}, {}), LetGo({"vertex", "fragment"}), Take({}, {})>> :
                pair \in {<<"vertex", "fragment">>, <<"fragment", "vertex">>}}
MetalOnce == {<<Take({}, {}), Take({"library"}, {}), Take({"function"}, {}), Take({}, {})>>}
D3dOnce   == {<<Take({"device"}, {}), Take({}, {"device"}), LetGo({"device"})>>}

OnceRows(kind) ==
    CASE kind = "vaapi"        -> VaapiOnce
      [] kind = "videotoolbox" -> MetalOnce
      [] kind = "d3d11va"      -> D3dOnce

\* Objects of one frame size.  Those of D3D11 are statics that a failure may
\* leave set, for the next attempt to release.
SharedSteps ==
    LET all == {"bgra", "processor", "enumerator"}
    IN <<Take({}, all), Take({}, all), Take({"sharedTexture"}, all)>>

SizeSteps(twoDevices) ==
    LET all == {"bgra", "processor", "enumerator"}
    IN <<Take({"enumerator"}, {}), Take({"processor"}, {"enumerator"}),
         Take({"bgra"}, {"processor", "enumerator"})>>
       \o (IF twoDevices THEN SharedSteps ELSE <<>>)
       \o <<Take({"texture"}, all \cup {"sharedTexture"}), Take({}, all \cup {"texture", "sharedTexture"}),
            Take({"outputView"}, all)>>

\* Mutated ReleasedFirst: the texture of an attempt that failed late stays.
ReleasedFirstButTexture == {"outputView", "sharedTexture", "bgra", "processor", "enumerator"}

\* What a change of size releases first.
ReleasedFirst == {"outputView", "texture", "sharedTexture", "bgra", "processor", "enumerator"}

\* Objects of one frame: what its export and import give, or leave when they fail.
VaapiFrame == <<Take({"fds"}, {}), Take({}, {"fds"}), Take({"y"}, {"fds"}), Take({"uv"}, {"y", "fds"})>>
MetalFrame == <<Take({"y"}, {}), Take({"uv"}, {"y"})>>
D3dFrame   == <<Take({"inputView"}, {}), LetGo({"inputView"}), Take({}, {})>>

FrameSteps(kind) ==
    CASE kind = "vaapi"        -> VaapiFrame
      [] kind = "videotoolbox" -> MetalFrame
      [] kind = "d3d11va"      -> D3dFrame

\* What each of them can come to.
HwKinds   == ZeroCopy \cap DecoderKinds
OnceOf    == [kind \in HwKinds |-> UNION {Outcomes(row, FALSE) : row \in OnceRows(kind)}]
SizeOf    == [twoDevices \in BOOLEAN |-> Outcomes(SizeSteps(twoDevices), FALSE)]
FrameOf   == [kind \in HwKinds |-> Outcomes(FrameSteps(kind), FALSE)]

\* The stages of render_hw_frame_*, each a set of [s, left, failed].
Stage(s, left, failed) == [s |-> s, left |-> left, failed |-> failed]

\* What its locals still hold is lost, whether it succeeds or not.
RenderOnce(kind, s) ==
    IF s.once THEN {Stage(s, {}, FALSE)}
    ELSE {Stage([s EXCEPT !.once = o.ok], o.left \cup o.has, ~o.ok) : o \in OnceOf[kind]}

\* D3D11 releases everything and starts anew; a framebuffer that is incomplete,
\* or objects that are refused, leave the size as it was.  Metal notes the size
\* even if it has no texture, and forgets the one it had without releasing it.
RenderSize(kind, s, size) ==
    IF s.size = size THEN {Stage(s, {}, FALSE)}
    ELSE CASE kind = "d3d11va" ->
                {Stage([s EXCEPT !.size = IF o.ok THEN size ELSE @, !.has = IF o.ok THEN o.has ELSE o.left],
                       s.has \ ReleasedFirst, ~o.ok) : o \in SizeOf[shared]}
           [] kind = "vaapi" ->
                {Stage([s EXCEPT !.size = size], {}, FALSE), Stage(s, {}, TRUE)}
           [] kind = "videotoolbox" ->
                {Stage([s EXCEPT !.size = size, !.has = made], s.has, FALSE) :
                    made \in {{"output"}, {}}}

\* A slot of the ring is emptied for the frame, filled if all of it could be
\* imported, and the other slot is next.
RenderFrame(kind, s) ==
    LET emptied == [s EXCEPT !.ring[s.turn] = {}]
    IN {IF o.ok THEN Stage([emptied EXCEPT !.ring[s.turn] = o.has, !.turn = 3 - @], {}, FALSE)
        ELSE Stage(emptied, o.left, TRUE) : o \in FrameOf[kind]}

\* Metal imports the frame before it looks at the size, the others after.
RenderFirst(kind, s, size) ==
    IF kind = "videotoolbox" THEN RenderFrame(kind, s) ELSE RenderSize(kind, s, size)
RenderThen(kind, s, size) ==
    IF kind = "videotoolbox" THEN RenderSize(kind, s, size) ELSE RenderFrame(kind, s)

\* update_paint_node, when the item is dirty or Qt repaints it anyway: the newest
\* frame, or the one it had.  A failing render keeps the texture of before.
Paint ==
    /\ current' = IF slot = NoPicture THEN current ELSE slot
    /\ slot' = NoPicture /\ dirty' = FALSE
    /\ IF current'.hw
       THEN \E one \in RenderOnce(probes[1], surface) :
            \E two \in IF one.failed THEN {one} ELSE RenderFirst(probes[1], one.s, current'.size) :
            \E three \in IF two.failed THEN {two} ELSE RenderThen(probes[1], two.s, current'.size) :
              /\ surface' = three.s
              /\ stray' = stray \cup one.left \cup two.left \cup three.left
              /\ three.failed => decFaults < MaxDecFaults
              /\ decFaults' = IF three.failed THEN decFaults + 1 ELSE decFaults
       ELSE UNCHANGED <<surface, stray, decFaults>>
    /\ UNCHANGED <<probes, shared, decoderThread, hasNew, decLeaked, decOom>>

-----------------------------------------------------------------------------

DecSteps == Publish \/ RaiseFlag
DecNext  ==
    \/ \E codec \in Codecs, size \in FrameSizes : DecodeJob(codec, size)
    \/ DecSteps \/ PollFrame \/ Paint

\* The threads run, the QML timer ticks, and Qt paints a dirty item.
DecFairness == WF_decVars(DecSteps) /\ WF_decVars(PollFrame) /\ WF_decVars(dirty /\ Paint)
DecSpec     == DecInit /\ [][DecNext]_decVars /\ DecFairness

-----------------------------------------------------------------------------

DecTypeOK ==
    /\ dec = NoDecoder \/ dec.has = DecoderBuilt[dec.kind]
    /\ at \in {"idle", "publish", "flag"} /\ (at # "publish" <=> out = NoPicture)
    /\ {hasNew, dirty, decOom} \subseteq BOOLEAN
    /\ surface.turn \in {1, 2} /\ surface.size \in FrameSizes \cup {0}
    /\ decFaults \in 0..MaxDecFaults

\* What the surface loses for good: a shader when the other one does not compile,
\* and on macOS the library and function of the pipeline and, with every change of
\* size, the texture it converted into.
Lost == {"vertex", "fragment", "library", "function", "output"}

\* A decoder that the platform refuses leaves nothing behind, and the surface,
\* whose failures come back with every frame, keeps nothing of a frame, or on
\* D3D11 of a size, that it could not set up: descriptors, images, views and
\* textures are closed once, or still in a static that the next attempt clears.
\* Only what is in Lost is never released.
OnlySetUpIsLost == decLeaked = {} /\ stray \subseteq Lost

\* A frame is converted with a scaler and into a buffer of its own size,
\* whatever sizes came before and whichever of them failed on the way: the
\* cached sizes never outlive what they describe, while memory lasts.
ScalesOwnFrame == decOom \/ (out.sound /\ slot.sound /\ current.sound)

\* No frame is stranded in the slot: the flag is raised after the frame is
\* there, so a poll that comes between the two does not lose it.
FrameIsShown == (slot # NoPicture) ~> (slot = NoPicture)
=============================================================================
