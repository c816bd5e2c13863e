-------------------------------- MODULE Media --------------------------------
(***************************************************************************)
(* Media over UDP.  The daemon cuts an access unit into shards, adds        *)
(* Reed-Solomon parity and sends them under one frame id; the desktop       *)
(* client assembles them, asks for an IDR (PLI, over TCP) when it misses a  *)
(* frame, and hands complete frames to the decoder thread.  Audio has ids   *)
(* of its own and no parity.  The webcam goes the other way, in chunks the  *)
(* daemon reassembles.                                                      *)
(* The three networks keep every packet ever sent: a packet may arrive      *)
(* late, out of order, more than once or never.  Frame ids do not wrap.     *)
(***************************************************************************)
EXTENDS Integers, FiniteSets, Sequences

CONSTANTS Sizes,         \* data shards an access unit may need
          IdrFec, PFec,  \* parity percent of the stream tuning
          MaxFecShards,  \* MAX_FEC_SHARDS
          MaxShards,     \* 255, the most that Reed-Solomon addresses
          MaxUnits,      \* bound: access units encoded
          MaxFaults,     \* bound: failing sends and decoders that do not open
          MaxAudio,      \* bound: audio frames
          MaxCam         \* bound: camera frames

ASSUME MediaAssumption ==
    /\ Sizes \subseteq Nat \ {0}
    /\ {IdrFec, PFec, MaxFecShards, MaxShards, MaxUnits, MaxFaults, MaxAudio, MaxCam} \subseteq Nat

VARIABLES
    \* the daemon
    units,      \* access units encoded so far: the next one is units + 1
    frameId,    \* UdpSender.frame_id
    forceIdr,   \* force_idr, set by a PLI
    net,        \* video packets sent
    \* the UDP thread of the client
    frames,     \* video_frames: assemblies by frame id
    seen,       \* has_received_first_frame and last_completed_frame_id, or NoFrame
    mayPli,     \* should_send_pli of this thread: PLI_MIN_INTERVAL has passed
    queue,      \* the channel to the decoder thread
    \* the decoder thread
    decoder,    \* is one open?
    shown,      \* the frame it decoded last, and the last intact one: [id, unit, good, last]
    decoderMayPli,
    faults,
    noticed,    \* history: ids the client found missing
    \* audio and camera
    audioId, audioNet, audioFrames, played,
    camId, camNet, cam, jpeg

videoDaemon == <<units, frameId, forceIdr, net>>
receiver    == <<frames, seen, mayPli, queue, noticed>>
decoding    == <<decoder, shown, decoderMayPli>>
video       == <<videoDaemon, receiver, decoding, faults>>
audio       == <<audioId, audioNet, audioFrames, played>>
camera      == <<camId, camNet, cam, jpeg>>
mediaVars   == <<video, audio, camera>>

NoFrame == -1
Empty   == [i \in {} |-> 0]
NoCam   == [id |-> 0, total |-> 0, got |-> Empty, count |-> 0]
NoJpeg  == [id |-> 0, total |-> 0, got |-> Empty]

MediaInit ==
    /\ units = 0 /\ frameId = 0 /\ forceIdr = FALSE /\ net = {}
    /\ frames = Empty /\ seen = NoFrame /\ mayPli = TRUE /\ queue = <<>>
    /\ noticed = {}
    /\ decoder = FALSE /\ decoderMayPli = TRUE
    /\ shown = [id |-> NoFrame, unit |-> 0, good |-> FALSE, last |-> NoFrame]
    /\ faults = 0
    /\ audioId = 0 /\ audioNet = {} /\ audioFrames = Empty /\ played = NoJpeg
    /\ camId = 0 /\ camNet = {} /\ cam = NoCam /\ jpeg = NoJpeg

Least(a, b)   == IF a < b THEN a ELSE b
Most(a, b)    == IF a < b THEN b ELSE a
Up(a, b)      == (a + b - 1) \div b
Without(f, S) == [i \in DOMAIN f \ S |-> f[i]]
With(f, i, v) == [j \in DOMAIN f \cup {i} |-> IF j = i THEN v ELSE f[j]]

-----------------------------------------------------------------------------
(* The daemon's sender.                                                     *)

ParityCount(data, percent) ==
    IF data <= 1 \/ percent = 0 THEN 0
    ELSE Least(Most(Up(data * percent, 100), 1), MaxFecShards)

\* Too many shards for the code: the frame goes without parity.
ActualParity(data, percent) ==
    LET parity == ParityCount(data, percent)
    IN IF data + parity <= MaxShards THEN parity ELSE 0

\* The capture thread encodes a unit (whether it is an IDR is the encoder's
\* choice) and sends it.  A failing send leaves the frame id as it was.
SendFrame(data, idr) ==
    LET parity == ActualParity(data, IF idr THEN IdrFec ELSE PFec)
        total  == data + parity
    IN /\ units < MaxUnits /\ units' = units + 1
       /\ idr \/ units > 0
       /\ forceIdr' = FALSE
       /\ \E sent \in 0..total :
            /\ net' = net \cup {[id |-> frameId, idx |-> i, unit |-> units', data |-> data,
                                 parity |-> parity, idr |-> idr] : i \in 0..(sent - 1)}
            /\ \/ sent = total /\ frameId' = frameId + 1 /\ UNCHANGED faults
               \/ /\ sent < total /\ faults < MaxFaults
                  /\ faults' = faults + 1 /\ UNCHANGED frameId
       /\ UNCHANGED <<receiver, decoding, audio, camera>>

-----------------------------------------------------------------------------
(* FrameAssembly: the first packet of a frame fixes its shape.              *)

NewAssembly(p) == [data |-> p.data, parity |-> p.parity, idr |-> p.idr,
                   got |-> Empty, count |-> 0, old |-> FALSE]

\* Mutated AddChunk: a shard is not compared with the shape of its frame.
AddChunkAnyIndex(a, p) ==
    IF p.idx \in DOMAIN a.got THEN a
    ELSE [a EXCEPT !.got = With(a.got, p.idx, p.unit), !.count = @ + 1]

\* Which unit each shard came from stands for its contents.
AddChunk(a, p) ==
    IF p.idx >= a.data + a.parity \/ p.idx \in DOMAIN a.got THEN a
    ELSE [a EXCEPT !.got = With(a.got, p.idx, p.unit), !.count = @ + 1]

CanRecover(a) == a.count >= a.data
\* Mutated IsComplete: parity is not used until every data shard is there.
IsCompleteLate(a) == 0..(a.data - 1) \subseteq DOMAIN a.got

IsComplete(a) == IF a.parity = 0 THEN 0..(a.data - 1) \subseteq DOMAIN a.got ELSE CanRecover(a)

\* Data shards as they are, or any `data` shards through Reed-Solomon.
Reassemble(id, a) ==
    [id |-> id, idr |-> a.idr, data |-> a.data, shards |-> Cardinality(DOMAIN a.got),
     units |-> {a.got[i] : i \in DOMAIN a.got}]

\* Mutated Stale: shards of the frame handed over last still count.
StaleBeforeLast(id) == seen # NoFrame /\ id < seen

Stale(id) == seen # NoFrame /\ id <= seen
\* Mutated Gap: one missing frame between two does not count.
GapOfTwo(id) == IF seen = NoFrame THEN {} ELSE (seen + 2)..(id - 1)

Gap(id)   == IF seen = NoFrame THEN {} ELSE (seen + 1)..(id - 1)

\* A PLI is asked for at most once in PLI_MIN_INTERVAL; TCP delivers it.
NoticeLoss(lost) ==
    /\ noticed' = noticed \cup lost
    /\ IF lost # {} /\ mayPli
       THEN mayPli' = FALSE /\ forceIdr' = TRUE
       ELSE UNCHANGED <<mayPli, forceIdr>>

\* One packet of a batch.
ReceiveShard(p) ==
    LET a == AddChunk(IF p.id \in DOMAIN frames THEN frames[p.id] ELSE NewAssembly(p), p)
    IN /\ ~Stale(p.id)
       /\ IF IsComplete(a)
          THEN /\ NoticeLoss(Gap(p.id))
               /\ seen' = p.id
               /\ queue' = Append(queue, Reassemble(p.id, a))
               /\ frames' = Without(frames, {p.id})
          ELSE /\ frames' = With(frames, p.id, a)
               /\ UNCHANGED <<seen, queue, mayPli, noticed, forceIdr>>
       /\ UNCHANGED <<units, frameId, net, decoding, faults, audio, camera>>

\* FRAME_TIMEOUT passes for every assembly there is.
FramesAge ==
    /\ \E id \in DOMAIN frames : ~frames[id].old
    /\ frames' = [id \in DOMAIN frames |-> [frames[id] EXCEPT !.old = TRUE]]
    /\ UNCHANGED <<videoDaemon, seen, mayPli, queue, noticed, decoding, faults, audio, camera>>

\* The prune of every 100 ms.  An expired frame that could be recovered would
\* be delivered here too; WholeAndPrompt says that there is none.
Prune ==
    LET expired == {id \in DOMAIN frames : frames[id].old}
    IN /\ expired # {}
       /\ frames' = Without(frames, expired)
       /\ NoticeLoss(expired)
       /\ UNCHANGED <<units, frameId, net, seen, queue, decoding, faults, audio, camera>>

PliIntervalPasses ==
    /\ ~mayPli \/ ~decoderMayPli
    /\ mayPli' = TRUE /\ decoderMayPli' = TRUE
    /\ UNCHANGED <<videoDaemon, frames, seen, queue, noticed, decoder, shown, faults, audio, camera>>

-----------------------------------------------------------------------------
(* The decoder thread.                                                      *)

\* Whole: of one unit, whose reference (unless it is an IDR) was shown intact.
Intact(job) ==
    \E u \in job.units : job.units = {u} /\ (job.idr \/ (shown.good /\ shown.unit = u - 1))

DecodeFrame ==
    /\ queue # <<>> /\ queue' = Tail(queue)
    /\ LET job == Head(queue)
       IN \/ \* no decoder, and none can be opened: the frame is dropped
             /\ ~decoder /\ faults < MaxFaults /\ faults' = faults + 1
             /\ UNCHANGED <<decoder, shown, decoderMayPli, forceIdr>>
          \/ \* decoded; with a reference missing the picture is broken
             /\ decoder' = TRUE
             /\ shown' = [id |-> job.id, good |-> Intact(job),
                          unit |-> CHOOSE u \in job.units : \A v \in job.units : v <= u,
                          last |-> IF Intact(job) THEN job.id ELSE shown.last]
             /\ UNCHANGED <<decoderMayPli, forceIdr, faults>>
          \/ \* rejected by the decoder, which asks for an IDR
             /\ ~Intact(job) /\ decoder' = TRUE
             /\ shown' = [shown EXCEPT !.good = FALSE]
             /\ IF decoderMayPli THEN decoderMayPli' = FALSE /\ forceIdr' = TRUE
                                 ELSE UNCHANGED <<decoderMayPli, forceIdr>>
             /\ UNCHANGED faults
    /\ UNCHANGED <<units, frameId, net, frames, seen, mayPli, noticed, audio, camera>>

-----------------------------------------------------------------------------
(* Audio: ids of its own, no parity, played as soon as it is complete.      *)

\* A failing send drops the rest of the frame, and the id moves on.
SendAudio(data) ==
    /\ audioId < MaxAudio /\ audioId' = audioId + 1
    /\ \E sent \in 0..data :
         /\ audioNet' = audioNet \cup {[id |-> audioId, idx |-> i, data |-> data] : i \in 0..(sent - 1)}
         /\ sent < data => faults < MaxFaults
         /\ faults' = IF sent < data THEN faults + 1 ELSE faults
    /\ UNCHANGED <<videoDaemon, receiver, decoding, audioFrames, played, camera>>

\* The id of the frame that each chunk came from stands for its contents.
AddAudio(a, p) ==
    IF p.idx >= a.data \/ p.idx \in DOMAIN a.got THEN a
    ELSE [a EXCEPT !.got = With(a.got, p.idx, p.id), !.count = @ + 1]

ReceiveAudio(p) ==
    LET new == [data |-> p.data, got |-> Empty, count |-> 0, old |-> FALSE]
        a   == AddAudio(IF p.id \in DOMAIN audioFrames THEN audioFrames[p.id] ELSE new, p)
    IN /\ IF a.count >= a.data
          THEN /\ played' = [id |-> p.id, total |-> a.data, got |-> a.got]
               /\ audioFrames' = Without(audioFrames, {p.id})
          ELSE audioFrames' = With(audioFrames, p.id, a) /\ UNCHANGED played
       /\ UNCHANGED <<video, audioId, audioNet, camera>>

AudioAges ==
    /\ \E id \in DOMAIN audioFrames : ~audioFrames[id].old
    /\ audioFrames' = [id \in DOMAIN audioFrames |-> [audioFrames[id] EXCEPT !.old = TRUE]]
    /\ UNCHANGED <<video, audioId, audioNet, played, camera>>

PruneAudio ==
    LET expired == {id \in DOMAIN audioFrames : audioFrames[id].old}
    IN /\ expired # {}
       /\ audioFrames' = Without(audioFrames, expired)
       /\ UNCHANGED <<video, audioId, audioNet, played, camera>>

-----------------------------------------------------------------------------
(* The camera: one frame at a time is reassembled, the last one heard of.   *)

SendCameraFrame(total) ==
    /\ camId < MaxCam /\ camId' = camId + 1
    /\ \E sent \in 0..total :
         /\ camNet' = camNet \cup {[id |-> camId, idx |-> i, total |-> total] : i \in 0..(sent - 1)}
         /\ sent < total => faults < MaxFaults
         /\ faults' = IF sent < total THEN faults + 1 ELSE faults
    /\ UNCHANGED <<videoDaemon, receiver, decoding, audio, cam, jpeg>>

\* Mutated OtherFrame: only a frame of another length starts anew.
OtherLength(p) == p.total # cam.total

\* A chunk of another frame than the one in hand starts its reassembly.
OtherFrame(p) == p.id # cam.id \/ p.total # cam.total

\* CamReassembler::feed.  A frame that was delivered keeps no slots, so that
\* a duplicate of one of its chunks finds no place.
FeedCamera(p) ==
    LET c    == IF OtherFrame(p) THEN [id |-> p.id, total |-> p.total, got |-> Empty, count |-> 0] ELSE cam
        room == OtherFrame(p) \/ ~(cam.total > 0 /\ cam.count = 0)
        d    == IF room /\ p.idx \notin DOMAIN c.got
                THEN [c EXCEPT !.got = With(c.got, p.idx, p.id), !.count = @ + 1] ELSE c
    IN /\ IF d.count = d.total
          THEN /\ jpeg' = [id |-> d.id, total |-> d.total, got |-> d.got]
               /\ cam' = [d EXCEPT !.got = Empty, !.count = 0]
          ELSE cam' = d /\ UNCHANGED jpeg
       /\ UNCHANGED <<video, audio, camId, camNet>>

-----------------------------------------------------------------------------

VideoNext ==
    \/ \E data \in Sizes, idr \in BOOLEAN : SendFrame(data, idr)
    \/ \E p \in net : ReceiveShard(p)
    \/ FramesAge \/ Prune \/ PliIntervalPasses \/ DecodeFrame

AudioNext ==
    \/ \E data \in Sizes : SendAudio(data)
    \/ \E p \in audioNet : ReceiveAudio(p)
    \/ AudioAges \/ PruneAudio

CameraNext ==
    \/ \E total \in Sizes : SendCameraFrame(total)
    \/ \E p \in camNet : FeedCamera(p)

MediaNext == VideoNext \/ AudioNext \/ CameraNext
MediaSpec == MediaInit /\ [][MediaNext]_mediaVars

-----------------------------------------------------------------------------

\* The client knows only frames that were sent, and keeps no assembly that
\* holds more shards than the frame has.
MediaTypeOK ==
    /\ units \in 0..MaxUnits /\ frameId \in 0..units /\ seen \in NoFrame..(frameId)
    /\ {forceIdr, mayPli, decoder, decoderMayPli} \subseteq BOOLEAN
    /\ \A id \in DOMAIN frames :
         /\ id \in 0..frameId
         /\ frames[id].count = Cardinality(DOMAIN frames[id].got)
         /\ DOMAIN frames[id].got \subseteq 0..(frames[id].data + frames[id].parity - 1)
    /\ noticed \subseteq 0..frameId

\* Reordered, late and duplicated shards never make the decoder see a frame
\* twice or after a later one: the ids in the queue increase and exceed the
\* one shown last (the stale check of the UDP thread).
FramesInOrder ==
    /\ \A i, j \in 1..Len(queue) : i < j => queue[i].id < queue[j].id
    /\ \A i \in 1..Len(queue) : shown.id < queue[i].id /\ queue[i].id <= seen

\* What is decoded, played or written to the virtual camera has all its parts:
\* duplicates do not count, and sound and camera pictures are put together from
\* chunks of one frame, those of video from shards sent under its id (which may
\* be of two units: the id of a frame whose send failed is used again).  And a
\* frame is handed over as soon as its shards allow it: none waits for its
\* timeout with enough of them to be recovered, whichever they are.
WholeAndPrompt ==
    /\ \A i \in 1..Len(queue) : LET job == queue[i]
                                IN /\ job.shards >= job.data
                                   /\ job.units \subseteq {p.unit : p \in {q \in net : q.id = job.id}}
    /\ \A id \in DOMAIN frames : ~CanRecover(frames[id])
    /\ played.got = [i \in 0..(played.total - 1) |-> played.id]
    /\ jpeg.got = [i \in 0..(jpeg.total - 1) |-> jpeg.id]

\* The network does not break the picture in silence: once the decoder has shown
\* an intact picture, one whose reference is missing is shown, or refused, only
\* after the UDP thread found a frame in between missing, however the shards of
\* the frames around it arrive.  It asks for an IDR then, or has done so less than
\* PLI_MIN_INTERVAL ago.  (Of a failing send, which leaves no gap in the ids, and
\* of a frame dropped for want of a decoder it learns nothing.)
BrokenIsNoticed ==
    (faults = 0 /\ ~shown.good /\ shown.last # NoFrame)
        => \E id \in noticed : shown.last < id /\ id < seen
=============================================================================
