---------------------------- MODULE PipelineProofs ----------------------------
(***************************************************************************)
(* Proofs about the way of a frame.                                         *)
(* Media, for frames of any size and number, any parity and a network that  *)
(* loses, repeats and reorders packets as it likes: the frame handed over   *)
(* last is the pivot; what is late is measured against it, and what is      *)
(* missing is noticed when it moves on.                                     *)
(* Decoding, for any platform's row of decoders and any sequence of sizes:  *)
(* each constructor is bounded step by step by what it may hold, and its    *)
(* error paths free as much.                                                *)
(***************************************************************************)
EXTENDS MCPipeline, LadderProofs, SequenceTheorems, FiniteSetTheorems

\* Frame ids are numbers, and the queue a sequence of jobs.
Numbered ==
    /\ frameId \in Nat /\ \A p \in net : p.id \in Nat
    /\ seen \in Nat \cup {NoFrame}
    /\ \E S : queue \in Seq(S)
    /\ \A i \in 1..Len(queue) : queue[i].id \in Nat
    /\ {"id", "unit", "good", "last"} \subseteq DOMAIN shown
    /\ shown.id \in Nat \cup {NoFrame}

\* Behind frame b, up to the pivot, each is in the queue or was found missing.
Covered(b) ==
    \A id \in (b + 1)..seen : id \in noticed \/ \E i \in 1..Len(queue) : queue[i].id = id

\* Nothing was shown after the pivot, and behind a frame in the queue none is lost
\* in silence.
Pivot == shown.id <= seen /\ \A i \in 1..Len(queue) : Covered(queue[i].id)

MediaInv == Numbered /\ Pivot /\ FramesInOrder

LEMMA MediaStarts == MediaInit => MediaInv
<1> SUFFICES ASSUME MediaInit PROVE MediaInv OBVIOUS
<1>1. /\ frameId = 0 /\ net = {} /\ seen = NoFrame
      /\ shown = [id |-> NoFrame, unit |-> 0, good |-> FALSE, last |-> NoFrame] /\ queue = <<>>
  BY DEF MediaInit
<1>2. queue \in Seq({}) /\ Len(queue) = 0 BY <1>1, EmptySeq
<1>3. shown.id = NoFrame /\ DOMAIN shown = {"id", "unit", "good", "last"} BY <1>1
<1>4. Numbered BY <1>1, <1>2, <1>3 DEF Numbered, NoFrame
<1>5. Pivot BY <1>1, <1>2, <1>3 DEF Pivot, NoFrame
<1>6. FramesInOrder BY <1>2 DEF FramesInOrder
<1> QED BY <1>4, <1>5, <1>6 DEF MediaInv

\* A packet that is not stale is of a frame after the pivot.
LEMMA Fresh ==
    ASSUME Numbered, NEW id \in Nat, ~Stale(id)
    PROVE  seen < id /\ (seen # NoFrame => Gap(id) = (seen + 1)..(id - 1))
BY DEF Numbered, Stale, Gap, NoFrame

\* What leaves the queue and what was shown as they are.
LEMMA OrderStays ==
    ASSUME MediaInv, UNCHANGED <<seen, queue, shown>>, noticed \subseteq noticed',
           frameId' \in Nat, \A p \in net' : p.id \in Nat
    PROVE  MediaInv'
<1>1. Numbered' BY DEF MediaInv, Numbered
<1>2. FramesInOrder' BY DEF MediaInv, FramesInOrder
<1>3. Pivot' BY DEF MediaInv, Pivot, Covered
<1> QED BY <1>1, <1>2, <1>3 DEF MediaInv

\* A frame is complete: it is queued behind all others, and becomes the pivot.
LEMMA HandsOver ==
    ASSUME MediaInv, NEW id \in Nat, ~Stale(id), NEW job, job.id = id,
           UNCHANGED <<net, frameId, shown>>,
           noticed' = noticed \cup Gap(id), seen' = id, queue' = Append(queue, job)
    PROVE  MediaInv' /\ \A b \in Nat : b <= seen /\ Covered(b) => Covered(b)'
<1> USE DEF MediaInv
<1>1. seen < id /\ (seen # NoFrame => Gap(id) = (seen + 1)..(id - 1)) BY Fresh
<1>2. seen \in Int /\ shown.id \in Int BY DEF Numbered, NoFrame
<1>3. /\ Len(queue) \in Nat /\ Len(queue') = Len(queue) + 1
      /\ \A i \in 1..Len(queue) : queue'[i] = queue[i]
      /\ queue'[Len(queue) + 1] = job
      /\ \E S : queue' \in Seq(S)
  <2>1. PICK S : queue \in Seq(S) BY DEF Numbered
  <2>2. queue \in Seq(S \cup {job}) BY <2>1
  <2>3. queue' \in Seq(S \cup {job}) BY <2>2
  <2> QED BY <2>2, <2>3
<1>4. Numbered'
  <2>1. \A i \in 1..Len(queue') : queue'[i].id \in Nat BY <1>3 DEF Numbered
  <2> QED BY <1>3, <2>1 DEF Numbered
<1>5. ASSUME NEW b \in Nat, b <= seen, Covered(b) PROVE Covered(b)'
  <2> SUFFICES ASSUME NEW k \in (b + 1)..id
               PROVE  k \in noticed' \/ \E i \in 1..Len(queue') : queue'[i].id = k
    BY DEF Covered
  <2>1. CASE k = id
    <3>1. Len(queue) + 1 \in 1..Len(queue') BY <1>3
    <3> QED BY <1>3, <2>1, <3>1
  <2>2. CASE k <= seen
    <3>1. k \in (b + 1)..seen BY <1>2, <2>2
    <3>2. k \in noticed \/ \E i \in 1..Len(queue) : queue[i].id = k BY <1>5, <3>1 DEF Covered
    <3> QED BY <1>3, <3>2
  <2>3. CASE seen < k /\ k < id
    <3>1. seen # NoFrame BY <1>2, <1>5 DEF NoFrame
    <3> QED BY <1>1, <1>2, <2>3, <3>1
  <2> QED BY <1>2, <2>1, <2>2, <2>3
<1>6. FramesInOrder'
  <2>1. ASSUME NEW i \in 1..Len(queue'), NEW j \in 1..Len(queue'), i < j
        PROVE  queue'[i].id < queue'[j].id
    <3>1. i \in 1..Len(queue) /\ queue'[i] = queue[i] BY <1>3, <2>1
    <3>2. CASE j \in 1..Len(queue)
      BY <1>3, <2>1, <3>1, <3>2 DEF FramesInOrder
    <3>3. CASE j = Len(queue) + 1
      <4>1. queue[i].id <= seen /\ queue[i].id \in Nat BY <3>1 DEF FramesInOrder, Numbered
      <4> QED BY <1>1, <1>2, <1>3, <3>1, <3>3, <4>1
    <3> QED BY <1>3, <3>2, <3>3
  <2>2. ASSUME NEW i \in 1..Len(queue')
        PROVE  shown'.id < queue'[i].id /\ queue'[i].id <= seen'
    <3>1. CASE i \in 1..Len(queue)
      <4>1. shown.id < queue[i].id /\ queue[i].id <= seen /\ queue[i].id \in Nat
        BY <3>1 DEF FramesInOrder, Numbered
      <4> QED BY <1>1, <1>2, <1>3, <3>1, <4>1
    <3>2. CASE i = Len(queue) + 1
      <4>1. shown.id <= seen BY DEF Pivot
      <4> QED BY <1>1, <1>2, <1>3, <3>2, <4>1
    <3> QED BY <1>3, <3>1, <3>2
  <2> QED BY <2>1, <2>2 DEF FramesInOrder
<1>7. Pivot'
  <2>1. shown'.id <= seen' BY <1>1, <1>2 DEF Pivot
  <2>2. ASSUME NEW i \in 1..Len(queue') PROVE Covered(queue[i].id)' 
    <3>1. CASE i \in 1..Len(queue)
      <4>1. /\ queue[i].id \in Nat /\ queue[i].id <= seen /\ Covered(queue[i].id)
            /\ queue'[i].id = queue[i].id
        BY <1>3, <3>1 DEF FramesInOrder, Numbered, Pivot
      <4>2. \A b \in Nat : b <= seen /\ Covered(b) => Covered(b)' BY <1>5
      <4> DEFINE b == queue[i].id
      <4>3. b \in Nat /\ b <= seen /\ Covered(b) /\ queue'[i].id = b BY <4>1
      <4> HIDE DEF b
      <4>4. \A k \in (b + 1)..seen' : k \in noticed' \/ \E n \in 1..Len(queue') : queue'[n].id = k
        BY <4>2, <4>3 DEF Covered
      <4> QED BY <4>3, <4>4 DEF Covered
    <3>2. CASE i = Len(queue) + 1
      <4>1. queue'[i].id = seen' BY <1>3, <3>2
      <4>2. (seen' + 1)..seen' = {} OBVIOUS
      <4> QED BY <4>1, <4>2 DEF Covered
    <3> QED BY <1>3, <3>1, <3>2
  <2> QED BY <2>1, <2>2 DEF Pivot, Covered
<1> QED BY <1>4, <1>5, <1>6, <1>7

\* The decoder takes the first job: those behind it are of later frames.
LEMMA Decodes ==
    ASSUME MediaInv, DecodeFrame
    PROVE  /\ MediaInv' /\ Head(queue) = queue[1] /\ 1 \in 1..Len(queue)
           /\ \A id \in (Head(queue).id + 1)..seen :
                id \in noticed \/ \E i \in 1..Len(queue') : queue'[i].id = id
<1> USE DEF MediaInv
<1> DEFINE job == Head(queue)
<1>1. queue # <<>> /\ queue' = Tail(queue) /\ UNCHANGED <<frameId, net, frames, seen, noticed>>
  BY DEF DecodeFrame
<1>2. PICK S : queue \in Seq(S) BY DEF Numbered
<1>3. /\ Len(queue) \in Nat \ {0} /\ queue' \in Seq(S) /\ Len(queue') = Len(queue) - 1
      /\ \A i \in 1..Len(queue') : queue'[i] = queue[i + 1] /\ i + 1 \in 1..Len(queue)
      /\ job = queue[1] /\ 1 \in 1..Len(queue)
  BY <1>1, <1>2, EmptySeq, HeadTailProperties
<1>4. {"id", "unit", "good", "last"} \subseteq DOMAIN shown' /\ shown'.id \in {shown.id, job.id}
  <2>1. CASE UNCHANGED shown BY <2>1 DEF Numbered
  <2>2. CASE \E u, g, l : shown' = [id |-> job.id, good |-> g, unit |-> u, last |-> l]
    BY <2>2
  <2>3. CASE shown' = [shown EXCEPT !.good = FALSE]
    BY <2>3 DEF Numbered
  <2> QED BY <2>1, <2>2, <2>3 DEF DecodeFrame
<1>5. /\ job.id \in Nat /\ job.id <= seen /\ shown.id < job.id
      /\ \A i \in 1..Len(queue') : job.id < queue'[i].id /\ queue'[i].id <= seen /\ queue'[i].id \in Nat
      /\ \A i, j \in 1..Len(queue') : i < j => queue'[i].id < queue'[j].id
  <2>1. job.id \in Nat /\ job.id <= seen /\ shown.id < job.id
    BY <1>3 DEF FramesInOrder, Numbered
  <2>2. ASSUME NEW i \in 1..Len(queue')
        PROVE  job.id < queue'[i].id /\ queue'[i].id <= seen /\ queue'[i].id \in Nat
    <3>1. queue'[i] = queue[i + 1] /\ i + 1 \in 1..Len(queue) /\ 1 < i + 1 BY <1>3
    <3> QED BY <1>3, <3>1 DEF FramesInOrder, Numbered
  <2>3. ASSUME NEW i \in 1..Len(queue'), NEW j \in 1..Len(queue'), i < j
        PROVE  queue'[i].id < queue'[j].id
    <3>1. i + 1 \in 1..Len(queue) /\ j + 1 \in 1..Len(queue) /\ i + 1 < j + 1 BY <1>3, <2>3
    <3> QED BY <1>3, <3>1 DEF FramesInOrder
  <2> QED BY <2>1, <2>2, <2>3
<1>6. shown.id \in Int /\ seen \in Int BY DEF Numbered, NoFrame
<1>7. Numbered' BY <1>1, <1>3, <1>4, <1>5 DEF Numbered
<1>8. ASSUME NEW b \in Nat, job.id <= b, Covered(b)
      PROVE  \A id \in (b + 1)..seen : id \in noticed \/ \E i \in 1..Len(queue') : queue'[i].id = id
  <2> SUFFICES ASSUME NEW id \in (b + 1)..seen, NEW i \in 1..Len(queue), queue[i].id = id
               PROVE  \E n \in 1..Len(queue') : queue'[n].id = id
    BY <1>8 DEF Covered
  <2>1. i # 1 BY <1>3, <1>5, <1>8
  <2>2. i - 1 \in 1..Len(queue') /\ (i - 1) + 1 = i BY <1>3, <2>1
  <2>3. queue'[i - 1] = queue[i] BY <1>3, <2>2
  <2> QED BY <2>2, <2>3
<1>9. Pivot'
  <2>1. shown'.id <= seen' BY <1>1, <1>4, <1>5 DEF Pivot
  <2>2. ASSUME NEW i \in 1..Len(queue') PROVE Covered(queue[i].id)'
    <3>1. queue'[i] = queue[i + 1] /\ i + 1 \in 1..Len(queue) BY <1>3
    <3> DEFINE b == queue[i + 1].id
    <3>2. b \in Nat /\ job.id <= b /\ Covered(b) /\ queue'[i].id = b
      BY <1>5, <3>1 DEF Pivot
    <3> HIDE DEF b
    <3>3. \A id \in (b + 1)..seen : id \in noticed \/ \E n \in 1..Len(queue') : queue'[n].id = id
      BY <1>8, <3>2
    <3> QED BY <1>1, <3>2, <3>3 DEF Covered
  <2> QED BY <2>1, <2>2 DEF Pivot, Covered
<1>10. FramesInOrder'
  <2>1. ASSUME NEW i \in 1..Len(queue') PROVE shown'.id < queue'[i].id
    <3>1. shown.id < job.id /\ job.id < queue'[i].id /\ queue'[i].id \in Nat /\ job.id \in Nat BY <1>5
    <3> QED BY <1>4, <1>6, <3>1
  <2> QED BY <1>1, <1>5, <2>1 DEF FramesInOrder
<1>11. Covered(job.id) BY <1>3 DEF Pivot
<1>12. \A id \in (job.id + 1)..seen : id \in noticed \/ \E i \in 1..Len(queue') : queue'[i].id = id
  BY <1>5, <1>8, <1>11
<1>13. Head(queue) = queue[1] /\ 1 \in 1..Len(queue) BY <1>3
<1> QED BY <1>7, <1>9, <1>10, <1>12, <1>13

LEMMA MediaSteps == MediaInv /\ [MediaNext]_mediaVars => MediaInv'
<1> SUFFICES ASSUME MediaInv, [MediaNext]_mediaVars PROVE MediaInv' OBVIOUS
<1>0. frameId \in Nat /\ \A p \in net : p.id \in Nat BY DEF MediaInv, Numbered
<1>1. CASE UNCHANGED <<frameId, net, seen, queue, noticed, shown>>
  BY <1>0, <1>1, OrderStays
<1>2. ASSUME NEW data \in Sizes, NEW idr \in BOOLEAN, SendFrame(data, idr) PROVE MediaInv'
  <2>1. UNCHANGED <<seen, queue, noticed, shown>> BY <1>2 DEF SendFrame, receiver, decoding
  <2>2. frameId' \in Nat BY <1>0, <1>2 DEF SendFrame
  <2>3. \A p \in net' : p.id \in Nat BY <1>0, <1>2 DEF SendFrame
  <2> QED BY <2>1, <2>2, <2>3, OrderStays
<1>3. ASSUME NEW p \in net, ReceiveShard(p) PROVE MediaInv'
  <2> DEFINE a == AddChunk(IF p.id \in DOMAIN frames THEN frames[p.id] ELSE NewAssembly(p), p)
  <2>1. p.id \in Nat /\ ~Stale(p.id) /\ UNCHANGED <<frameId, net, shown>>
    BY <1>0, <1>3 DEF ReceiveShard, decoding
  <2>2. CASE IsComplete(a)
    <3> DEFINE job == Reassemble(p.id, a)
    <3>1. noticed' = noticed \cup Gap(p.id) /\ seen' = p.id /\ queue' = Append(queue, job)
      BY <1>3, <2>2 DEF ReceiveShard, NoticeLoss
    <3>2. job.id = p.id BY DEF Reassemble
    <3> HIDE DEF job
    <3> QED BY <2>1, <3>1, <3>2, HandsOver
  <2>3. CASE ~IsComplete(a)
    <3>1. UNCHANGED <<seen, queue, noticed>> BY <1>3, <2>3 DEF ReceiveShard
    <3> QED BY <1>0, <2>1, <3>1, OrderStays
  <2> QED BY <2>2, <2>3
<1>4. CASE FramesAge
  BY <1>1, <1>4 DEF FramesAge, videoDaemon, decoding
<1>5. CASE Prune
  <2>1. UNCHANGED <<frameId, net, seen, queue, shown>> /\ noticed \subseteq noticed'
    BY <1>5 DEF Prune, NoticeLoss, decoding
  <2> QED BY <1>0, <2>1, OrderStays
<1>6. CASE DecodeFrame BY <1>6, Decodes
<1>7. CASE PliIntervalPasses
  BY <1>1, <1>7 DEF PliIntervalPasses, videoDaemon
<1>8. CASE AudioNext
  BY <1>1, <1>8 DEF AudioNext, SendAudio, ReceiveAudio, AudioAges, PruneAudio, video, videoDaemon,
                    receiver, decoding
<1>9. CASE CameraNext
  <2>1. CASE \E total \in Sizes : SendCameraFrame(total)
    BY <1>1, <2>1 DEF SendCameraFrame, videoDaemon, receiver, decoding
  <2>2. CASE \E p \in camNet : FeedCamera(p)
    <3>1. UNCHANGED video BY <2>2, Zenon DEF FeedCamera
    <3> QED BY <1>1, <3>1 DEF video, videoDaemon, receiver, decoding
  <2> QED BY <1>9, <2>1, <2>2 DEF CameraNext
<1>10. CASE UNCHANGED mediaVars
  BY <1>1, <1>10 DEF mediaVars, video, videoDaemon, receiver, decoding
<1> QED BY <1>2, <1>3, <1>4, <1>5, <1>6, <1>7, <1>8, <1>9, <1>10 DEF MediaNext, VideoNext

LEMMA MediaInvHolds == MediaSpec => []MediaInv
BY MediaStarts, MediaSteps, PTL DEF MediaSpec

\* However the network reorders and repeats shards, the decoder is given frames in
\* the order of their ids and none twice (last_completed_frame_id).
THEOREM FramesOrdered == MediaSpec => []FramesInOrder
BY MediaInvHolds, PTL DEF MediaInv

-----------------------------------------------------------------------------
(* Frames are whole. *)

\* An assembly counts the shards that it has, and has none beyond its shape.
Parts(a) ==
    /\ a = [data |-> a.data, parity |-> a.parity, idr |-> a.idr,
            got |-> a.got, count |-> a.count, old |-> a.old]
    /\ a.data \in Nat \ {0} /\ a.parity \in Nat
    /\ DOMAIN a.got \subseteq 0..(a.data + a.parity - 1)
    /\ a.count = Cardinality(DOMAIN a.got)

\* What it has was sent under its id.
UnitsOf(id)  == {p.unit : p \in {q \in net : q.id = id}}
Sent(id, a)  == \A i \in DOMAIN a.got : a.got[i] \in UnitsOf(id)

\* Chunks of frame id alone.
ChunksOf(id, got) == got = [i \in DOMAIN got |-> id]

Sound(id, a) ==
    /\ a = [data |-> a.data, got |-> a.got, count |-> a.count, old |-> a.old]
    /\ a.data \in Nat \ {0} /\ DOMAIN a.got \subseteq 0..(a.data - 1)
    /\ a.count = Cardinality(DOMAIN a.got) /\ ChunksOf(id, a.got)

Picture(c) ==
    /\ c = [id |-> c.id, total |-> c.total, got |-> c.got, count |-> c.count]
    /\ c.total \in Nat /\ DOMAIN c.got \subseteq 0..(c.total - 1)
    /\ c.count = Cardinality(DOMAIN c.got) /\ ChunksOf(c.id, c.got)

Packets ==
    /\ \A p \in net : p.idx \in Nat /\ p.data \in Nat \ {0} /\ p.parity \in Nat
    /\ \A p \in audioNet : p.idx \in Nat /\ p.data \in Nat \ {0}
    /\ \A p \in camNet : p.total \in Nat \ {0} /\ p.idx \in 0..(p.total - 1)

WholeInv ==
    /\ Packets /\ \E S : queue \in Seq(S)
    /\ \A id \in DOMAIN frames : Parts(frames[id]) /\ Sent(id, frames[id])
    /\ \A id \in DOMAIN audioFrames : Sound(id, audioFrames[id])
    /\ \A i \in 1..Len(queue) : queue[i].units # {}
    /\ Picture(cam) /\ WholeAndPrompt

LEMMA Full ==
    ASSUME NEW n \in Nat, NEW S \in SUBSET (0..(n - 1))
    PROVE  /\ IsFiniteSet(S) /\ Cardinality(S) \in 0..n
           /\ Cardinality(S) >= n => S = 0..(n - 1)
<1>1. IsFiniteSet(0..(n - 1)) /\ Cardinality(0..(n - 1)) = n
  BY FS_Interval
<1>2. IsFiniteSet(S) /\ Cardinality(S) <= n /\ (Cardinality(S) = n => S = 0..(n - 1))
  BY <1>1, FS_Subset
<1>3. Cardinality(S) \in Nat BY <1>2, FS_CardinalityType
<1> QED BY <1>2, <1>3

\* A shard more, or a duplicate.
LEMMA PartsGrow ==
    ASSUME NEW a, Parts(a), NEW p, p.idx \in Nat
    PROVE  Parts(AddChunk(a, p))
<1>1. CASE p.idx >= a.data + a.parity \/ p.idx \in DOMAIN a.got
  BY <1>1 DEF AddChunk
<1>2. CASE ~(p.idx >= a.data + a.parity \/ p.idx \in DOMAIN a.got)
  <2> DEFINE g == With(a.got, p.idx, p.unit)
             b == AddChunk(a, p)
  <2>1. DOMAIN g = DOMAIN a.got \cup {p.idx} BY DEF With
  <2> HIDE DEF g
  <2>2. b = [a EXCEPT !.got = g, !.count = a.count + 1]
    BY <1>2 DEF AddChunk, g
  <2>3. b = [data |-> a.data, parity |-> a.parity, idr |-> a.idr,
             got |-> g, count |-> a.count + 1, old |-> a.old]
    BY <2>2 DEF Parts
  <2> HIDE DEF b
  <2>4. p.idx \in 0..(a.data + a.parity - 1) BY <1>2 DEF Parts
  <2>5. DOMAIN a.got \in SUBSET (0..((a.data + a.parity) - 1)) /\ a.data + a.parity \in Nat
    BY DEF Parts
  <2>6. IsFiniteSet(DOMAIN a.got) BY <2>5, Full
  <2>7. Cardinality(DOMAIN g) = a.count + 1 BY <1>2, <2>1, <2>6, FS_AddElement DEF Parts
  <2>8. Parts(b)
    <3>1. /\ b.data = a.data /\ b.parity = a.parity /\ b.idr = a.idr
          /\ b.got = g /\ b.count = a.count + 1 /\ b.old = a.old
      BY <2>3
    <3> QED BY <2>1, <2>3, <2>4, <2>5, <2>7, <3>1 DEF Parts
  <2> QED BY <2>8 DEF b
<1> QED BY <1>1, <1>2

LEMMA PartsStart ==
    ASSUME NEW p, p.data \in Nat \ {0}, p.parity \in Nat PROVE Parts(NewAssembly(p))
<1>1. DOMAIN Empty = {} BY DEF Empty
<1> QED BY <1>1, FS_EmptySet DEF NewAssembly, Parts

\* Complete is with enough shards, and not complete without.
LEMMA PartsComplete ==
    ASSUME NEW a, Parts(a)
    PROVE  /\ IsComplete(a) => Cardinality(DOMAIN a.got) >= a.data
           /\ ~IsComplete(a) => ~CanRecover(a)
<1>1. a.data \in Nat /\ a.parity \in Nat /\ a.count = Cardinality(DOMAIN a.got) BY DEF Parts
<1>2. CASE a.parity = 0
  <2>1. DOMAIN a.got \in SUBSET (0..(a.data - 1)) BY <1>1, <1>2 DEF Parts
  <2>2. /\ Cardinality(DOMAIN a.got) \in 0..a.data
        /\ Cardinality(DOMAIN a.got) >= a.data => DOMAIN a.got = 0..(a.data - 1)
    BY <1>1, <2>1, Full
  <2>3. Cardinality(0..(a.data - 1)) = a.data BY <1>1, FS_Interval
  <2>4. 0..(a.data - 1) \subseteq DOMAIN a.got => DOMAIN a.got = 0..(a.data - 1) BY <2>1
  <2> QED BY <1>1, <1>2, <2>2, <2>3, <2>4 DEF IsComplete, CanRecover
<1>3. CASE a.parity # 0
  BY <1>1, <1>3 DEF IsComplete, CanRecover
<1> QED BY <1>2, <1>3

LEMMA SentGrows ==
    ASSUME NEW id, NEW a, Sent(id, a), NEW p \in net, p.id = id, Parts(a)
    PROVE  Sent(id, AddChunk(a, p))
<1>1. CASE AddChunk(a, p) = a BY <1>1
<1>2. CASE AddChunk(a, p) = [a EXCEPT !.got = With(a.got, p.idx, p.unit), !.count = a.count + 1]
  <2> DEFINE g == With(a.got, p.idx, p.unit)
  <2>1. /\ DOMAIN g = DOMAIN a.got \cup {p.idx}
        /\ \A i \in DOMAIN g : g[i] = p.unit \/ (i \in DOMAIN a.got /\ g[i] = a.got[i])
    BY DEF With
  <2>2. p.unit \in UnitsOf(id) BY DEF UnitsOf
  <2> HIDE DEF g
  <2>3. AddChunk(a, p).got = g BY <1>2 DEF g, Parts
  <2> QED BY <2>1, <2>2, <2>3 DEF Sent
<1> QED BY <1>1, <1>2 DEF AddChunk

\* One chunk more of the same frame.
LEMMA ChunksGrow ==
    ASSUME NEW id, NEW got, ChunksOf(id, got), NEW idx
    PROVE  DOMAIN With(got, idx, id) = DOMAIN got \cup {idx} /\ ChunksOf(id, With(got, idx, id))
BY DEF ChunksOf, With

LEMMA NoChunks == \A id : DOMAIN Empty = {} /\ ChunksOf(id, Empty)
BY DEF ChunksOf, Empty

LEMMA SoundGrows ==
    ASSUME NEW a, NEW p, Sound(p.id, a), p.idx \in Nat
    PROVE  Sound(p.id, AddAudio(a, p))
<1>1. CASE p.idx >= a.data \/ p.idx \in DOMAIN a.got
  BY <1>1 DEF AddAudio
<1>2. CASE ~(p.idx >= a.data \/ p.idx \in DOMAIN a.got)
  <2> DEFINE b == AddAudio(a, p)
             g == With(a.got, p.idx, p.id)
  <2>1. b = [a EXCEPT !.got = g, !.count = a.count + 1]
    BY <1>2 DEF AddAudio
  <2>7. DOMAIN g = DOMAIN a.got \cup {p.idx} /\ ChunksOf(p.id, g) BY ChunksGrow DEF Sound
  <2> HIDE DEF g
  <2>2. b = [data |-> a.data, got |-> g, count |-> a.count + 1, old |-> a.old]
    BY <2>1 DEF Sound
  <2> HIDE DEF b
  <2>3. p.idx \in 0..(a.data - 1) BY <1>2 DEF Sound
  <2>4. IsFiniteSet(DOMAIN a.got) BY Full DEF Sound
  <2>5. Cardinality(DOMAIN g) = a.count + 1 BY <1>2, <2>4, <2>7, FS_AddElement DEF Sound
  <2>6. Sound(p.id, b)
    <3>1. /\ b.data = a.data /\ b.got = g
          /\ b.count = a.count + 1 /\ b.old = a.old
      BY <2>2
    <3> QED BY <2>2, <2>3, <2>5, <2>7, <3>1 DEF Sound
  <2> QED BY <2>6 DEF b
<1> QED BY <1>1, <1>2

\* The numbers of a frame's shards.
LEMMA Parities ==
    ASSUME NEW data \in Sizes, NEW percent \in Nat
    PROVE  data \in Nat \ {0} /\ ActualParity(data, percent) \in Nat
<1>1. data \in Nat \ {0} /\ MaxFecShards \in Nat BY MediaAssumption
<1>2. data * percent \in Nat BY <1>1
<1>3. Up(data * percent, 100) \in Int BY <1>2 DEF Up
<1>4. ParityCount(data, percent) \in Nat BY <1>1, <1>3 DEF ParityCount, Least, Most
<1> QED BY <1>1, <1>4 DEF ActualParity

LEMMA WholeStarts == MediaInit => WholeInv
<1> SUFFICES ASSUME MediaInit PROVE WholeInv OBVIOUS
<1>1. /\ net = {} /\ audioNet = {} /\ camNet = {} /\ queue = <<>>
      /\ frames = Empty /\ audioFrames = Empty
      /\ played = [id |-> 0, total |-> 0, got |-> Empty] /\ jpeg = [id |-> 0, total |-> 0, got |-> Empty]
      /\ cam = [id |-> 0, total |-> 0, got |-> Empty, count |-> 0]
  BY DEF MediaInit, NoJpeg, NoCam
<1>2. queue \in Seq({}) /\ Len(queue) = 0 BY <1>1, EmptySeq
<1>3. DOMAIN frames = {} /\ DOMAIN audioFrames = {} BY <1>1 DEF Empty
<1>4. Packets BY <1>1 DEF Packets
<1>5. Picture(cam) BY <1>1, FS_EmptySet, NoChunks DEF Picture
<1>6. /\ played.got = [n \in 0..(played.total - 1) |-> played.id]
      /\ jpeg.got = [n \in 0..(jpeg.total - 1) |-> jpeg.id]
  <2>1. Empty = [n \in 0..(0 - 1) |-> 0]
    <3>1. 0..(0 - 1) = {} OBVIOUS
    <3> QED BY <3>1 DEF Empty
  <2> QED BY <1>1, <2>1
<1> QED BY <1>2, <1>3, <1>4, <1>5, <1>6 DEF WholeInv, WholeAndPrompt

\* A shard is received: the frame is queued with enough of them, or waits.
LEMMA WholeReceives ==
    ASSUME WholeInv, NEW p \in net, ReceiveShard(p) PROVE WholeInv'
<1> USE DEF WholeInv
<1> DEFINE a == AddChunk(IF p.id \in DOMAIN frames THEN frames[p.id] ELSE NewAssembly(p), p)
<1>1. UNCHANGED <<net, audio, camera>> BY DEF ReceiveShard
<1>2. Packets' BY <1>1 DEF Packets, audio, camera
<1>3. Parts(a) /\ Sent(p.id, a)
  <2> DEFINE b == IF p.id \in DOMAIN frames THEN frames[p.id] ELSE NewAssembly(p)
  <2>1. p.idx \in Nat /\ p.data \in Nat \ {0} /\ p.parity \in Nat BY DEF Packets
  <2>2. Parts(NewAssembly(p)) BY <2>1, PartsStart
  <2>3. Sent(p.id, NewAssembly(p)) BY NoChunks DEF NewAssembly, Sent
  <2>4. Parts(b) /\ Sent(p.id, b) BY <2>2, <2>3
  <2> HIDE DEF b
  <2>5. Parts(AddChunk(b, p)) BY <2>1, <2>4, PartsGrow
  <2>6. Sent(p.id, AddChunk(b, p)) BY <2>4, SentGrows
  <2> QED BY <2>5, <2>6 DEF b
<1>31. \A id : UnitsOf(id)' = UnitsOf(id) BY <1>1 DEF UnitsOf
<1>4. CASE IsComplete(a)
  <2> DEFINE job == Reassemble(p.id, a)
  <2>1. queue' = Append(queue, job) /\ frames' = Without(frames, {p.id})
    BY <1>4 DEF ReceiveShard
  <2>2. job.shards >= job.data BY <1>3, <1>4, PartsComplete DEF Reassemble
  <2>21. job.units \subseteq UnitsOf(job.id) BY <1>3 DEF Reassemble, Sent
  <2>22. job.units # {}
    <3>1. DOMAIN a.got # {}
      <4>1. Cardinality(DOMAIN a.got) >= a.data /\ a.data \in Nat \ {0}
        BY <1>3, <1>4, PartsComplete DEF Parts
      <4>2. Cardinality({}) = 0 BY FS_EmptySet
      <4> DEFINE D == DOMAIN a.got
                 n == Cardinality(D)
                 m == a.data
      <4>3. n >= m /\ m \in Nat \ {0} BY <4>1
      <4>4. D = {} => n = 0 BY <4>2
      <4> HIDE DEF n, m
      <4>5. n # 0 BY ONLY <4>3
      <4> QED BY <4>4, <4>5
    <3> HIDE DEF a
    <3> QED BY <3>1 DEF Reassemble
  <2> HIDE DEF job
  <2>3. /\ Len(queue) \in Nat /\ Len(queue') = Len(queue) + 1
        /\ \A i \in 1..Len(queue) : queue'[i] = queue[i]
        /\ queue'[Len(queue) + 1] = job /\ \E S : queue' \in Seq(S)
    <3>1. PICK S : queue \in Seq(S) OBVIOUS
    <3>2. queue \in Seq(S \cup {job}) BY <3>1
    <3>3. queue' \in Seq(S \cup {job}) BY <2>1, <3>2
    <3> QED BY <2>1, <3>2, <3>3
  <2>4. \A i \in 1..Len(queue') :
          /\ queue'[i].shards >= queue'[i].data /\ queue'[i].units # {}
          /\ queue'[i].units \subseteq UnitsOf(queue'[i].id)
    <3>1. \A i \in 1..Len(queue) :
            /\ queue[i].shards >= queue[i].data /\ queue[i].units # {}
            /\ queue[i].units \subseteq UnitsOf(queue[i].id)
      BY DEF WholeAndPrompt, UnitsOf
    <3> QED BY <2>2, <2>21, <2>22, <2>3, <3>1
  <2>5. \A id \in DOMAIN frames' : id \in DOMAIN frames /\ frames'[id] = frames[id]
    BY <2>1 DEF Without
  <2>6. WholeAndPrompt' BY <1>1, <2>4, <2>5 DEF WholeAndPrompt, CanRecover, audio, camera, UnitsOf
  <2>7. \A id \in DOMAIN frames' : Parts(frames'[id]) BY <2>5
  <2>8. \A id \in DOMAIN frames' : Sent(id, frames[id])' BY <1>31, <2>5 DEF Sent
  <2>9. UNCHANGED <<audioFrames, cam>> BY <1>1 DEF audio, camera
  <2> QED BY <1>2, <2>3, <2>4, <2>6, <2>7, <2>8, <2>9 DEF Parts, Sound, Picture, ChunksOf
<1>5. CASE ~IsComplete(a)
  <2>1. frames' = With(frames, p.id, a) /\ UNCHANGED queue BY <1>5 DEF ReceiveShard
  <2>2. ~CanRecover(a) BY <1>3, <1>5, PartsComplete
  <2> HIDE DEF a
  <2>3. \A id \in DOMAIN frames' :
          frames'[id] = a \/ (id \in DOMAIN frames /\ frames'[id] = frames[id])
    BY <2>1 DEF With
  <2>4. \A id \in DOMAIN frames' : Parts(frames'[id]) BY <1>3, <2>3
  <2>7. \A id \in DOMAIN frames' : Sent(id, frames[id])'
    <3>1. \A id \in DOMAIN frames' : Sent(id, frames'[id])
      <4>1. \A id \in DOMAIN frames' \ {p.id} : id \in DOMAIN frames /\ frames'[id] = frames[id]
        BY <2>1 DEF With
      <4>2. p.id \in DOMAIN frames' /\ frames'[p.id] = a BY <2>1 DEF With
      <4> QED BY <1>3, <4>1, <4>2
    <3> QED BY <1>31, <3>1 DEF Sent
  <2>5. \A id \in DOMAIN frames' : ~CanRecover(frames'[id])
    BY <2>2, <2>3 DEF WholeAndPrompt
  <2>6. WholeAndPrompt' BY <1>1, <2>1, <2>5 DEF WholeAndPrompt, CanRecover, audio, camera
  <2>8. UNCHANGED <<audioFrames, cam, queue>> BY <1>1, <2>1 DEF audio, camera
  <2> QED BY <1>2, <2>4, <2>6, <2>7, <2>8 DEF Parts, Sound, Picture, ChunksOf
<1> QED BY <1>4, <1>5

\* What it has to do with video stays.
LEMMA VideoStays ==
    ASSUME WholeInv, UNCHANGED video,
           \A id \in DOMAIN audioFrames' : Sound(id, audioFrames'[id]),
           Packets', Picture(cam)',
           played'.got = [n \in 0..(played'.total - 1) |-> played'.id],
           jpeg'.got = [n \in 0..(jpeg'.total - 1) |-> jpeg'.id]
    PROVE  WholeInv'
<1>1. UNCHANGED <<net, frames, queue>> BY DEF video, videoDaemon, receiver
<1>2. \A id : UnitsOf(id)' = UnitsOf(id) BY <1>1 DEF UnitsOf
<1>3. \A id \in DOMAIN frames' : Parts(frames[id])' /\ Sent(id, frames[id])'
  BY <1>1, <1>2 DEF WholeInv, Parts, Sent
<1>4. WholeAndPrompt' BY <1>1 DEF WholeInv, WholeAndPrompt, CanRecover
<1>5. ASSUME NEW id \in DOMAIN audioFrames' PROVE Sound(id, audioFrames[id])'
  <2>1. Sound(id, audioFrames'[id]) OBVIOUS
  <2> QED BY ONLY <2>1 DEF Sound, ChunksOf
<1> QED BY <1>1, <1>3, <1>4, <1>5 DEF WholeInv

\* A chunk of sound.
LEMMA WholePlays ==
    ASSUME WholeInv, NEW p \in audioNet, ReceiveAudio(p) PROVE WholeInv'
<1> USE DEF WholeInv
<1> DEFINE new == [data |-> p.data, got |-> Empty, count |-> 0, old |-> FALSE]
           a   == AddAudio(IF p.id \in DOMAIN audioFrames THEN audioFrames[p.id] ELSE new, p)
<1>1. UNCHANGED <<video, audioNet, camera>> BY DEF ReceiveAudio
<1>2. Packets' BY <1>1 DEF Packets, video, videoDaemon, camera
<1>3. Sound(p.id, a)
  <2>1. p.idx \in Nat /\ p.data \in Nat \ {0} BY DEF Packets
  <2>2. Sound(p.id, new) BY <2>1, FS_EmptySet, NoChunks DEF Sound
  <2> QED BY <2>1, <2>2, SoundGrows
<1>5. /\ IF a.count >= a.data
         THEN played' = [id |-> p.id, total |-> a.data, got |-> a.got] /\ audioFrames' = Without(audioFrames, {p.id})
         ELSE audioFrames' = With(audioFrames, p.id, a) /\ UNCHANGED played
  BY DEF ReceiveAudio
<1> HIDE DEF a
<1>4. a.data \in Nat /\ (a.count >= a.data => a.got = [n \in 0..(a.data - 1) |-> p.id])
  <2>1. a.count >= a.data => DOMAIN a.got = 0..(a.data - 1) BY <1>3, Full DEF Sound
  <2> QED BY <1>3, <2>1 DEF Sound, ChunksOf
<1>6. \A id \in DOMAIN audioFrames' :
        (id = p.id /\ audioFrames'[id] = a) \/ (id \in DOMAIN audioFrames /\ audioFrames'[id] = audioFrames[id])
  BY <1>5 DEF With, Without
<1>7. \A id \in DOMAIN audioFrames' : Sound(id, audioFrames'[id]) BY <1>3, <1>6
<1>8. played'.got = [n \in 0..(played'.total - 1) |-> played'.id]
  <2>1. CASE a.count >= a.data BY <1>4, <1>5, <2>1
  <2>2. CASE ~(a.count >= a.data) BY <1>5, <2>2 DEF WholeAndPrompt
  <2> QED BY <2>1, <2>2
<1>9. jpeg'.got = [n \in 0..(jpeg'.total - 1) |-> jpeg'.id] BY <1>1 DEF camera, WholeAndPrompt
<1>10. Picture(cam)' BY <1>1 DEF camera, Picture, ChunksOf
<1> QED BY <1>1, <1>2, <1>7, <1>8, <1>9, <1>10, VideoStays

\* A chunk of a picture: of the one at hand, or of another, which it begins.
LEMMA WholeFeeds ==
    ASSUME WholeInv, NEW p \in camNet, FeedCamera(p) PROVE WholeInv'
<1> USE DEF WholeInv
<1> DEFINE c    == IF OtherFrame(p) THEN [id |-> p.id, total |-> p.total, got |-> Empty, count |-> 0] ELSE cam
           room == OtherFrame(p) \/ ~(cam.total > 0 /\ cam.count = 0)
           d    == IF room /\ p.idx \notin DOMAIN c.got
                   THEN [c EXCEPT !.got = With(c.got, p.idx, p.id), !.count = c.count + 1] ELSE c
<1>1. UNCHANGED <<video, audio, camNet>> BY Zenon DEF FeedCamera
<1>2. Packets' BY <1>1 DEF Packets, video, videoDaemon, audio
<1>3. p.total \in Nat \ {0} /\ p.idx \in 0..(p.total - 1) BY DEF Packets
<1>7. IF d.count = d.total
      THEN /\ jpeg' = [id |-> d.id, total |-> d.total, got |-> d.got]
           /\ cam' = [d EXCEPT !.got = Empty, !.count = 0]
      ELSE cam' = d /\ UNCHANGED jpeg
  BY Zenon DEF FeedCamera
<1>4. Picture(c) /\ c.total = p.total /\ c.id = p.id
  <2>1. CASE OtherFrame(p) BY <1>3, <2>1, FS_EmptySet, NoChunks DEF Picture
  <2>2. CASE ~OtherFrame(p) BY <2>2 DEF OtherFrame
  <2> QED BY <2>1, <2>2
<1> HIDE DEF c
<1>5. Picture(d) /\ d.total = p.total
  <2>1. CASE room /\ p.idx \notin DOMAIN c.got
    <3> DEFINE g == With(c.got, p.idx, p.id)
    <3>0. DOMAIN g = DOMAIN c.got \cup {p.idx} /\ ChunksOf(c.id, g)
      <4>1. ChunksOf(p.id, c.got) /\ c.id = p.id BY <1>4 DEF Picture
      <4>2. DOMAIN g = DOMAIN c.got \cup {p.idx} /\ ChunksOf(p.id, g) BY <4>1, ChunksGrow
      <4> QED BY <4>1, <4>2
    <3>01. d = [c EXCEPT !.got = g, !.count = c.count + 1] BY <2>1
    <3> HIDE DEF g
    <3>1. d = [id |-> c.id, total |-> c.total, got |-> g, count |-> c.count + 1]
      BY <1>4, <3>01 DEF Picture
    <3>2. IsFiniteSet(DOMAIN c.got) BY <1>4, Full DEF Picture
    <3>3. Cardinality(DOMAIN g) = c.count + 1
      BY <1>4, <2>1, <3>0, <3>2, FS_AddElement DEF Picture
    <3> HIDE DEF d
    <3>4. /\ d.id = c.id /\ d.total = c.total
          /\ d.got = g /\ d.count = c.count + 1
      BY <3>1
    <3> QED BY <1>3, <1>4, <3>0, <3>1, <3>3, <3>4 DEF Picture
  <2>2. CASE ~(room /\ p.idx \notin DOMAIN c.got) BY <1>4, <2>2
  <2> QED BY <2>1, <2>2
<1> HIDE DEF d
<1>6. d.count = d.total => d.got = [n \in 0..(d.total - 1) |-> d.id]
  <2>1. d.count = d.total => DOMAIN d.got = 0..(d.total - 1) BY <1>5, Full DEF Picture
  <2> QED BY <1>5, <2>1 DEF Picture, ChunksOf
<1>8. Picture(cam')
  <2>1. CASE d.count = d.total
    <3>1. cam' = [id |-> d.id, total |-> d.total, got |-> Empty, count |-> 0]
      BY <1>5, <1>7, <2>1 DEF Picture
    <3> QED BY <1>5, <3>1, FS_EmptySet, NoChunks DEF Picture
  <2>2. CASE d.count # d.total BY <1>5, <1>7, <2>2
  <2> QED BY <2>1, <2>2
<1>9. jpeg'.got = [n \in 0..(jpeg'.total - 1) |-> jpeg'.id]
  <2>1. CASE d.count = d.total BY <1>6, <1>7, <2>1
  <2>2. CASE d.count # d.total BY <1>7, <2>2 DEF WholeAndPrompt
  <2> QED BY <2>1, <2>2
<1>10. played'.got = [n \in 0..(played'.total - 1) |-> played'.id] BY <1>1 DEF audio, WholeAndPrompt
<1>11. \A id \in DOMAIN audioFrames' : Sound(id, audioFrames'[id]) BY <1>1 DEF audio
<1>12. Picture(cam)' BY <1>8 DEF Picture, ChunksOf
<1> QED BY <1>1, <1>2, <1>9, <1>10, <1>11, <1>12, VideoStays

\* What takes no packet away, nor changes what is assembled.
LEMMA WholeStays ==
    ASSUME WholeInv, UNCHANGED <<frames, audioFrames, cam, queue, played, jpeg>>, Packets', net \subseteq net'
    PROVE  WholeInv'
<1> USE DEF WholeInv
<1>1. \A id : UnitsOf(id) \subseteq UnitsOf(id)' BY DEF UnitsOf
<1>2. \A id \in DOMAIN frames' : Parts(frames[id])' /\ Sent(id, frames[id])'
  BY <1>1 DEF Parts, Sent
<1>3. \A i \in 1..Len(queue) : queue[i].units \subseteq UnitsOf(queue[i].id) BY DEF WholeAndPrompt, UnitsOf
<1>4. \A i \in 1..Len(queue') : queue'[i].units \subseteq UnitsOf(queue[i].id)' BY <1>1, <1>3
<1>5. WholeAndPrompt' BY <1>4 DEF WholeAndPrompt, CanRecover, UnitsOf
<1> QED BY <1>2, <1>5 DEF Sound, Picture, ChunksOf

\* Assemblies that are given up, or are old.
LEMMA WholeAges ==
    ASSUME WholeInv, UNCHANGED <<net, queue, played, camera, audioNet, audioId>>,
           \A id \in DOMAIN frames' :
             id \in DOMAIN frames /\ frames'[id] \in {frames[id], [frames[id] EXCEPT !.old = TRUE]},
           \A id \in DOMAIN audioFrames' :
             /\ id \in DOMAIN audioFrames
             /\ audioFrames'[id] \in {audioFrames[id], [audioFrames[id] EXCEPT !.old = TRUE]}
    PROVE  WholeInv'
<1> USE DEF WholeInv
<1>1. ASSUME NEW a, Parts(a), NEW old
      PROVE  /\ Parts([a EXCEPT !.old = old]) /\ CanRecover([a EXCEPT !.old = old]) = CanRecover(a)
             /\ [a EXCEPT !.old = old].got = a.got
  <2> DEFINE b == [a EXCEPT !.old = old]
  <2>1. b = [data |-> a.data, parity |-> a.parity, idr |-> a.idr,
             got |-> a.got, count |-> a.count, old |-> old]
    BY <1>1 DEF Parts
  <2> HIDE DEF b
  <2>2. /\ b.data = a.data /\ b.parity = a.parity /\ b.idr = a.idr
        /\ b.got = a.got /\ b.count = a.count /\ b.old = old
    BY <2>1
  <2>3. Parts(b) BY <1>1, <2>1, <2>2 DEF Parts
  <2>4. CanRecover(b) = CanRecover(a) BY <2>2 DEF CanRecover
  <2>5. b.got = a.got BY <2>2
  <2> QED BY <2>3, <2>4, <2>5 DEF b
<1>2. ASSUME NEW id, NEW a, Sound(id, a), NEW old PROVE Sound(id, [a EXCEPT !.old = old])
  <2> DEFINE b == [a EXCEPT !.old = old]
  <2>1. b = [data |-> a.data, got |-> a.got, count |-> a.count, old |-> old]
    BY <1>2 DEF Sound
  <2> HIDE DEF b
  <2>2. b.data = a.data /\ b.got = a.got /\ b.count = a.count /\ b.old = old BY <2>1
  <2>3. Sound(id, b) BY <1>2, <2>1, <2>2 DEF Sound
  <2> QED BY <2>3 DEF b
<1>3. Packets' BY DEF Packets, camera
<1>4. ASSUME NEW id \in DOMAIN frames'
      PROVE  Parts(frames'[id]) /\ ~CanRecover(frames'[id]) /\ frames'[id].got = frames[id].got
  <2>1. Parts(frames[id]) /\ ~CanRecover(frames[id]) BY DEF WholeAndPrompt
  <2>2. /\ Parts([frames[id] EXCEPT !.old = TRUE]) /\ ~CanRecover([frames[id] EXCEPT !.old = TRUE])
        /\ [frames[id] EXCEPT !.old = TRUE].got = frames[id].got
    BY <1>1, <2>1
  <2> QED BY <2>1, <2>2
<1>41. \A id \in DOMAIN frames' : Sent(id, frames[id])'
  <2>1. \A id : UnitsOf(id)' = UnitsOf(id) BY DEF UnitsOf
  <2>2. \A id \in DOMAIN frames' : Sent(id, frames[id]) OBVIOUS
  <2> QED BY <1>4, <2>1, <2>2 DEF Sent
<1>5. ASSUME NEW id \in DOMAIN audioFrames' PROVE Sound(id, audioFrames'[id])
  <2>1. Sound(id, audioFrames[id]) OBVIOUS
  <2>2. Sound(id, [audioFrames[id] EXCEPT !.old = TRUE]) BY <1>2, <2>1
  <2> QED BY <2>1, <2>2
<1>6. WholeAndPrompt' BY <1>4 DEF WholeAndPrompt, camera, CanRecover
<1>7. Picture(cam)' BY DEF camera, Picture, ChunksOf
<1>8. (\E S : queue' \in Seq(S)) /\ \A i \in 1..Len(queue') : queue'[i].units # {} OBVIOUS
<1>9. \A id \in DOMAIN frames' : Parts(frames[id])' BY <1>4 DEF Parts
<1>10. ASSUME NEW id \in DOMAIN audioFrames' PROVE Sound(id, audioFrames[id])'
  <2>1. Sound(id, audioFrames'[id]) BY <1>5
  <2> QED BY ONLY <2>1 DEF Sound, ChunksOf
<1> QED BY <1>3, <1>41, <1>6, <1>7, <1>8, <1>9, <1>10

LEMMA WholeSteps == WholeInv /\ [MediaNext]_mediaVars => WholeInv'
<1> SUFFICES ASSUME WholeInv, [MediaNext]_mediaVars PROVE WholeInv' OBVIOUS
<1>0. Packets BY DEF WholeInv
<1>1. ASSUME NEW data \in Sizes, NEW idr \in BOOLEAN, SendFrame(data, idr) PROVE WholeInv'
  <2> DEFINE parity == ActualParity(data, IF idr THEN IdrFec ELSE PFec)
  <2>1. data \in Nat \ {0} /\ parity \in Nat BY Parities, MediaAssumption
  <2> HIDE DEF parity
  <2>2. UNCHANGED <<receiver, audio, camera>> BY <1>1 DEF SendFrame
  <2>3. PICK sent \in 0..(data + parity) :
          net' = net \cup {[id |-> frameId, idx |-> i, unit |-> units', data |-> data,
                            parity |-> parity, idr |-> idr] : i \in 0..(sent - 1)}
    BY <1>1 DEF SendFrame, parity
  <2>4. \A p \in net' : p.idx \in Nat /\ p.data \in Nat \ {0} /\ p.parity \in Nat
    BY <1>0, <2>1, <2>3 DEF Packets
  <2>5. Packets' BY <1>0, <2>2, <2>4 DEF Packets, audio, camera
  <2> QED BY <2>2, <2>3, <2>5, WholeStays DEF receiver, audio, camera
<1>2. ASSUME NEW p \in net, ReceiveShard(p) PROVE WholeInv' BY <1>2, WholeReceives
<1>3. CASE FramesAge
  <2>1. UNCHANGED <<net, queue, played, camera, audioNet, audioId, audioFrames>>
    BY <1>3 DEF FramesAge, videoDaemon, audio
  <2>2. \A id \in DOMAIN frames' :
          id \in DOMAIN frames /\ frames'[id] \in {frames[id], [frames[id] EXCEPT !.old = TRUE]}
    BY <1>3 DEF FramesAge
  <2> QED BY <2>1, <2>2, WholeAges
<1>4. CASE Prune
  <2>1. UNCHANGED <<net, queue, played, camera, audioNet, audioId, audioFrames>>
    BY <1>4 DEF Prune, audio
  <2>2. \A id \in DOMAIN frames' : id \in DOMAIN frames /\ frames'[id] = frames[id]
    BY <1>4 DEF Prune, Without
  <2> QED BY <2>1, <2>2, WholeAges
<1>5. CASE PliIntervalPasses
  BY <1>0, <1>5, WholeStays DEF PliIntervalPasses, videoDaemon, audio, camera, Packets
<1>6. CASE DecodeFrame
  <2>1. queue # <<>> /\ queue' = Tail(queue) /\ UNCHANGED <<net, frames, audio, camera>>
    BY <1>6 DEF DecodeFrame
  <2>2. PICK S : queue \in Seq(S) BY DEF WholeInv
  <2>3. /\ queue' \in Seq(S)
        /\ \A i \in 1..Len(queue') : queue'[i] = queue[i + 1] /\ i + 1 \in 1..Len(queue)
    BY <2>1, <2>2, EmptySeq, HeadTailProperties
  <2>4. Packets' BY <1>0, <2>1 DEF Packets, audio, camera
  <2>5. WholeAndPrompt' BY <2>1, <2>3 DEF WholeInv, WholeAndPrompt, CanRecover, audio, camera
  <2>6. \A i \in 1..Len(queue') : queue'[i].units # {} BY <2>3 DEF WholeInv
  <2>7. \A id : UnitsOf(id)' = UnitsOf(id) BY <2>1 DEF UnitsOf
  <2>8. \A id \in DOMAIN frames' : Parts(frames[id])' /\ Sent(id, frames[id])'
    BY <2>1, <2>7 DEF WholeInv, Parts, Sent
  <2> QED BY <2>1, <2>3, <2>4, <2>5, <2>6, <2>8 DEF WholeInv, Sound, Picture, ChunksOf, audio, camera
<1>7. ASSUME NEW data \in Sizes, SendAudio(data) PROVE WholeInv'
  <2>1. data \in Nat \ {0} BY MediaAssumption
  <2>2. UNCHANGED <<videoDaemon, receiver, audioFrames, played, camera>> BY <1>7 DEF SendAudio
  <2>3. PICK sent \in 0..data :
          audioNet' = audioNet \cup {[id |-> audioId, idx |-> i, data |-> data] : i \in 0..(sent - 1)}
    BY <1>7 DEF SendAudio
  <2>4. \A p \in audioNet' : p.idx \in Nat /\ p.data \in Nat \ {0}
    BY <1>0, <2>1, <2>3 DEF Packets
  <2>5. Packets' BY <1>0, <2>2, <2>4 DEF Packets, videoDaemon, camera
  <2> QED BY <2>2, <2>5, WholeStays DEF videoDaemon, receiver, camera
<1>8. ASSUME NEW p \in audioNet, ReceiveAudio(p) PROVE WholeInv' BY <1>8, WholePlays
<1>9. CASE AudioAges
  <2>1. UNCHANGED <<net, queue, played, camera, audioNet, audioId, frames>>
    BY <1>9 DEF AudioAges, video, videoDaemon, receiver
  <2>2. \A id \in DOMAIN audioFrames' :
          /\ id \in DOMAIN audioFrames
          /\ audioFrames'[id] \in {audioFrames[id], [audioFrames[id] EXCEPT !.old = TRUE]}
    BY <1>9 DEF AudioAges
  <2> QED BY <2>1, <2>2, WholeAges
<1>10. CASE PruneAudio
  <2>1. UNCHANGED <<net, queue, played, camera, audioNet, audioId, frames>>
    BY <1>10 DEF PruneAudio, video, videoDaemon, receiver
  <2>2. \A id \in DOMAIN audioFrames' : id \in DOMAIN audioFrames /\ audioFrames'[id] = audioFrames[id]
    BY <1>10 DEF PruneAudio, Without
  <2> QED BY <2>1, <2>2, WholeAges
<1>11. ASSUME NEW total \in Sizes, SendCameraFrame(total) PROVE WholeInv'
  <2>1. total \in Nat \ {0} BY MediaAssumption
  <2>2. UNCHANGED <<videoDaemon, receiver, audio, cam, jpeg>> BY <1>11 DEF SendCameraFrame
  <2>3. PICK sent \in 0..total :
          camNet' = camNet \cup {[id |-> camId, idx |-> i, total |-> total] : i \in 0..(sent - 1)}
    BY <1>11 DEF SendCameraFrame
  <2>4. \A p \in camNet' : p.total \in Nat \ {0} /\ p.idx \in 0..(p.total - 1)
    BY <1>0, <2>1, <2>3 DEF Packets
  <2>5. Packets' BY <1>0, <2>2, <2>4 DEF Packets, videoDaemon, audio
  <2> QED BY <2>2, <2>5, WholeStays DEF videoDaemon, receiver, audio
<1>12. ASSUME NEW p \in camNet, FeedCamera(p) PROVE WholeInv' BY <1>12, WholeFeeds
<1>13. CASE UNCHANGED mediaVars
  BY <1>0, <1>13, WholeStays DEF mediaVars, video, videoDaemon, receiver, audio, camera, Packets
<1> QED BY <1>1, <1>2, <1>3, <1>4, <1>5, <1>6, <1>7, <1>8, <1>9, <1>10, <1>11, <1>12, <1>13
        DEF MediaNext, VideoNext, AudioNext, CameraNext

\* Frames, sound and pictures are handed on with all their parts, and a frame as
\* soon as its shards allow it, for any sizes and parity (FrameAssembly,
\* CamReassembler).
THEOREM WholeDelivered == MediaSpec => []WholeAndPrompt
<1>1. WholeInv => WholeAndPrompt BY DEF WholeInv
<1> QED BY <1>1, WholeStarts, WholeSteps, PTL DEF MediaSpec

-----------------------------------------------------------------------------
(* The picture does not break in silence.                                   *)

\* The frame found missing is a number.
BreakNoticed ==
    (faults = 0 /\ ~shown.good /\ shown.last # NoFrame)
        => \E id \in noticed \cap Nat : shown.last < id /\ id < seen

\* As long as every send succeeds, frames and units go together; and behind an
\* intact picture everything was found missing or is queued.
SureInv ==
    /\ faults \in Nat
    /\ faults = 0 => frameId = units /\ \A p \in net : p.unit = p.id + 1
    /\ shown.good \in BOOLEAN
    /\ shown.good => shown.last = shown.id /\ shown.id \in Nat
    /\ (faults = 0 /\ shown.good) => shown.unit = shown.id + 1 /\ Covered(shown.id)
    /\ BreakNoticed

LEMMA SureStarts == MediaInit => SureInv
<1> SUFFICES ASSUME MediaInit PROVE SureInv OBVIOUS
<1>1. /\ frameId = 0 /\ units = 0 /\ net = {} /\ faults = 0
      /\ shown = [id |-> NoFrame, unit |-> 0, good |-> FALSE, last |-> NoFrame]
  BY DEF MediaInit
<1>2. shown.good = FALSE /\ shown.last = NoFrame BY <1>1
<1> QED BY <1>1, <1>2 DEF SureInv, BreakNoticed

\* What leaves the queue and what was shown as they are.
LEMMA SureStays ==
    ASSUME SureInv, UNCHANGED <<seen, queue, shown>>, noticed \subseteq noticed',
           faults' \in Nat, faults' = 0 => faults = 0,
           faults' = 0 => frameId' = units' /\ \A p \in net' : p.unit = p.id + 1
    PROVE  SureInv'
<1>1. Covered(shown.id) => Covered(shown.id)' BY DEF Covered
<1>2. BreakNoticed' BY DEF SureInv, BreakNoticed
<1> QED BY <1>1, <1>2 DEF SureInv

\* A frame that its reference is missing for breaks an intact picture, or finds it
\* broken: one before it was missed.
LEMMA BreaksNoticed ==
    ASSUME MediaInv, WholeInv, SureInv, faults = 0, shown.last # NoFrame,
           1 \in 1..Len(queue), ~Intact(queue[1])
    PROVE  \E id \in noticed \cap Nat : shown.last < id /\ id < seen
<1> DEFINE job == queue[1]
<1>0. /\ job.id \in Nat /\ shown.id < job.id /\ job.id <= seen /\ seen \in Int
      /\ shown.id \in Nat \cup {NoFrame}
  BY DEF MediaInv, FramesInOrder, Numbered, NoFrame
<1>1. CASE ~shown.good BY <1>1 DEF SureInv, BreakNoticed
<1>2. CASE shown.good
  <2>1. job.units = {job.id + 1}
    <3>1. job.units # {} /\ job.units \subseteq UnitsOf(job.id)
      BY DEF WholeInv, WholeAndPrompt, UnitsOf
    <3>2. \A u \in UnitsOf(job.id) : u = job.id + 1 BY DEF SureInv, UnitsOf
    <3> QED BY <3>1, <3>2
  <2>2. shown.id \in Nat /\ shown.unit = shown.id + 1 /\ shown.last = shown.id /\ Covered(shown.id)
    BY <1>2 DEF SureInv
  <2>3. ~(shown.good /\ shown.unit = (job.id + 1) - 1) BY <2>1 DEF Intact
  <2>4. shown.id + 1 # job.id BY <1>0, <1>2, <2>2, <2>3
  <2> DEFINE k == job.id - 1
  <2>5. k \in (shown.id + 1)..seen /\ k < job.id /\ shown.id < k BY <1>0, <2>2, <2>4
  <2>6. ASSUME NEW i \in 1..Len(queue), queue[i].id = k PROVE FALSE
    <3>1. i # 1 BY <1>0, <2>6
    <3>2. Len(queue) \in Nat
      <4>1. PICK S : queue \in Seq(S) BY DEF MediaInv, Numbered
      <4> QED BY <4>1
    <3>3. 1 < i BY <3>1, <3>2
    <3>4. job.id < queue[i].id BY <3>3 DEF MediaInv, FramesInOrder
    <3> QED BY <1>0, <2>5, <2>6, <3>4
  <2>7. k \in noticed /\ k \in Nat BY <1>0, <2>2, <2>5, <2>6 DEF Covered
  <2>8. shown.last < k /\ k < seen BY <1>0, <2>2, <2>5
  <2> QED BY <2>7, <2>8
<1>3. shown.good \in BOOLEAN BY DEF SureInv
<1> QED BY <1>1, <1>2, <1>3

\* The decoder shows a frame, refuses it, or is not there.
LEMMA SureDecodes ==
    ASSUME MediaInv, WholeInv, SureInv, DecodeFrame PROVE SureInv'
<1> USE DEF SureInv
<1> DEFINE job == Head(queue)
<1>1. /\ UNCHANGED <<units, frameId, net, seen, noticed>>
      /\ \/ ~decoder /\ faults' = faults + 1 /\ UNCHANGED shown
         \/ /\ UNCHANGED faults
            /\ shown' = [id |-> job.id, good |-> Intact(job),
                         unit |-> CHOOSE u \in job.units : \A v \in job.units : v <= u,
                         last |-> IF Intact(job) THEN job.id ELSE shown.last]
         \/ UNCHANGED faults /\ ~Intact(job) /\ shown' = [shown EXCEPT !.good = FALSE]
  BY DEF DecodeFrame
<1>2. job = queue[1] /\ 1 \in 1..Len(queue) BY Decodes
<1>3. \A id \in (job.id + 1)..seen : id \in noticed \/ \E i \in 1..Len(queue') : queue'[i].id = id
  BY Decodes
<1>4. job.id \in Nat BY <1>2 DEF MediaInv, Numbered
<1>5. \A f \in Nat : f + 1 \in Nat /\ f + 1 # 0 OBVIOUS
<1>6. CASE faults' = faults + 1 /\ UNCHANGED shown
  BY <1>1, <1>5, <1>6 DEF BreakNoticed
<1>7. ASSUME UNCHANGED faults, ~Intact(job), shown'.good = FALSE, shown'.last = shown.last PROVE SureInv'
  <2>1. BreakNoticed'
    <3> SUFFICES ASSUME faults = 0, shown.last # NoFrame
                 PROVE  \E id \in noticed \cap Nat : shown.last < id /\ id < seen
      BY <1>1, <1>7 DEF BreakNoticed
    <3> QED BY <1>2, <1>7, BreaksNoticed
  <2> QED BY <1>1, <1>7, <2>1
<1>8. ASSUME UNCHANGED faults, Intact(job), shown'.good = TRUE, shown'.id = job.id, shown'.last = job.id,
             shown'.unit = CHOOSE u \in job.units : \A v \in job.units : v <= u
      PROVE  SureInv'
  <2>1. ASSUME faults = 0 PROVE shown'.unit = job.id + 1
    <3>1. job.units # {} /\ job.units \subseteq UnitsOf(job.id)
      BY <1>2 DEF WholeInv, WholeAndPrompt, UnitsOf
    <3>2. \A u \in UnitsOf(job.id) : u = job.id + 1 BY <2>1 DEF UnitsOf
    <3> DEFINE n == job.id + 1
    <3>3. job.units = {n} /\ n \in Nat BY <1>4, <3>1, <3>2
    <3>4. shown'.unit = CHOOSE u \in {n} : \A v \in {n} : v <= u BY <1>8, <3>3
    <3> HIDE DEF n
    <3>5. \E u \in {n} : \A v \in {n} : v <= u BY <3>3
    <3>6. (CHOOSE u \in {n} : \A v \in {n} : v <= u) \in {n} BY <3>5
    <3>7. shown'.unit = n BY <3>4, <3>6
    <3> QED BY <3>7 DEF n
  <2>2. Covered(shown.id)' BY <1>1, <1>3, <1>8 DEF Covered
  <2>3. BreakNoticed' BY <1>8 DEF BreakNoticed
  <2> QED BY <1>1, <1>4, <1>8, <2>1, <2>2, <2>3
<1>9. CASE /\ UNCHANGED faults
           /\ shown' = [id |-> job.id, good |-> Intact(job),
                        unit |-> CHOOSE u \in job.units : \A v \in job.units : v <= u,
                        last |-> IF Intact(job) THEN job.id ELSE shown.last]
  <2>1. CASE Intact(job)
    <3>1. /\ shown'.id = job.id /\ shown'.good = Intact(job) /\ shown'.last = job.id
          /\ shown'.unit = CHOOSE u \in job.units : \A v \in job.units : v <= u
      BY <1>9, <2>1
    <3>2. Intact(job) \in BOOLEAN BY Zenon DEF Intact
    <3>3. shown'.good = TRUE BY <2>1, <3>1, <3>2
    <3> QED BY <1>8, <1>9, <2>1, <3>1, <3>3
  <2>2. CASE ~Intact(job)
    <3>1. shown'.good = Intact(job) /\ shown'.last = shown.last BY <1>9, <2>2
    <3>2. Intact(job) \in BOOLEAN BY Zenon DEF Intact
    <3>3. shown'.good = FALSE BY <2>2, <3>1, <3>2
    <3> QED BY <1>7, <1>9, <2>2, <3>1, <3>3
  <2> QED BY <2>1, <2>2
<1>10. CASE UNCHANGED faults /\ ~Intact(job) /\ shown' = [shown EXCEPT !.good = FALSE]
  <2>1. shown'.good = FALSE /\ shown'.last = shown.last BY <1>10 DEF MediaInv, Numbered
  <2> QED BY <1>7, <1>10, <2>1
<1> QED BY <1>1, <1>6, <1>9, <1>10

LEMMA SureSteps == MediaInv /\ WholeInv /\ SureInv /\ [MediaNext]_mediaVars => SureInv'
<1> SUFFICES ASSUME MediaInv, WholeInv, SureInv, [MediaNext]_mediaVars PROVE SureInv' OBVIOUS
<1>0. /\ faults \in Nat /\ \A f \in Nat : f + 1 \in Nat /\ f + 1 # 0
      /\ faults = 0 => frameId = units /\ \A p \in net : p.unit = p.id + 1
  BY DEF SureInv
<1>1. CASE /\ UNCHANGED <<units, frameId, net, seen, queue, shown, noticed>>
           /\ faults' \in {faults, faults + 1}
  BY <1>0, <1>1, SureStays
<1>2. ASSUME NEW data \in Sizes, NEW idr \in BOOLEAN, SendFrame(data, idr) PROVE SureInv'
  <2> DEFINE parity == ActualParity(data, IF idr THEN IdrFec ELSE PFec)
  <2>1. UNCHANGED <<seen, queue, noticed, shown>> /\ units' = units + 1
    BY <1>2 DEF SendFrame, receiver, decoding
  <2>2. PICK sent \in 0..(data + parity) :
          /\ net' = net \cup {[id |-> frameId, idx |-> i, unit |-> units', data |-> data,
                               parity |-> parity, idr |-> idr] : i \in 0..(sent - 1)}
          /\ \/ frameId' = frameId + 1 /\ UNCHANGED faults
             \/ faults' = faults + 1
    BY <1>2 DEF SendFrame
  <2> HIDE DEF parity
  <2>3. faults' \in Nat /\ (faults' = 0 => faults = 0 /\ frameId' = frameId + 1) BY <1>0, <2>2
  <2>4. ASSUME faults' = 0 PROVE frameId' = units' /\ \A p \in net' : p.unit = p.id + 1
    <3>1. frameId = units /\ \A p \in net : p.unit = p.id + 1 BY <1>0, <2>3, <2>4
    <3>2. \A p \in net' : p \in net \/ (p.unit = units' /\ p.id = frameId) BY <2>2
    <3> QED BY <2>1, <2>3, <2>4, <3>1, <3>2
  <2> QED BY <2>1, <2>3, <2>4, SureStays
<1>3. ASSUME NEW p \in net, ReceiveShard(p) PROVE SureInv'
  <2> DEFINE a == AddChunk(IF p.id \in DOMAIN frames THEN frames[p.id] ELSE NewAssembly(p), p)
  <2>1. UNCHANGED <<units, frameId, net, shown, faults>> BY <1>3 DEF ReceiveShard, decoding
  <2>2. CASE IsComplete(a)
    <3> DEFINE job == Reassemble(p.id, a)
    <3>1. noticed' = noticed \cup Gap(p.id) /\ seen' = p.id /\ queue' = Append(queue, job)
      BY <1>3, <2>2 DEF ReceiveShard, NoticeLoss
    <3>2. job.id = p.id BY DEF Reassemble
    <3>3. p.id \in Nat /\ ~Stale(p.id) BY <1>3 DEF ReceiveShard, MediaInv, Numbered
    <3> HIDE DEF job
    <3>4. \A b \in Nat : b <= seen /\ Covered(b) => Covered(b)' BY <2>1, <3>1, <3>2, <3>3, HandsOver
    <3>5. seen < p.id /\ seen \in Int BY <3>3, Fresh DEF MediaInv, Numbered, NoFrame
    <3>6. shown.id <= seen BY DEF MediaInv, Pivot
    <3>7. ASSUME faults = 0, shown.good PROVE Covered(shown.id)'
      <4> DEFINE b == shown.id
      <4>1. b \in Nat /\ b <= seen /\ Covered(b) BY <3>6, <3>7 DEF SureInv
      <4>2. shown'.id = b BY <2>1
      <4> HIDE DEF b
      <4>3. \A k \in (b + 1)..seen' : k \in noticed' \/ \E n \in 1..Len(queue') : queue'[n].id = k
        BY <3>4, <4>1 DEF Covered
      <4> QED BY <4>2, <4>3 DEF Covered
    <3>8. BreakNoticed'
      <4> SUFFICES ASSUME faults = 0, ~shown.good, shown.last # NoFrame
                   PROVE  \E id \in noticed' \cap Nat : shown.last < id /\ id < seen'
        BY <2>1 DEF BreakNoticed
      <4>1. PICK id \in noticed \cap Nat : shown.last < id /\ id < seen BY DEF SureInv, BreakNoticed
      <4>2. id \in noticed' BY <3>1, <4>1
      <4>3. id \in Nat BY <4>1
      <4>4. id < seen' BY <3>1, <3>3, <3>5, <4>1, <4>3
      <4> QED BY <4>1, <4>2, <4>3, <4>4
    <3> QED BY <2>1, <3>7, <3>8 DEF SureInv
  <2>3. CASE ~IsComplete(a)
    <3>1. UNCHANGED <<seen, queue, noticed>> BY <1>3, <2>3 DEF ReceiveShard
    <3> QED BY <1>0, <2>1, <3>1, SureStays
  <2> QED BY <2>2, <2>3
<1>4. CASE FramesAge
  BY <1>1, <1>4 DEF FramesAge, videoDaemon, decoding
<1>5. CASE Prune
  <2>1. UNCHANGED <<units, frameId, net, seen, queue, shown, faults>> /\ noticed \subseteq noticed'
    BY <1>5 DEF Prune, NoticeLoss, decoding
  <2> QED BY <1>0, <2>1, SureStays
<1>6. CASE DecodeFrame BY <1>6, SureDecodes
<1>7. CASE PliIntervalPasses
  BY <1>1, <1>7 DEF PliIntervalPasses, videoDaemon
<1>8. CASE AudioNext
  <2>1. ASSUME NEW data \in Sizes, SendAudio(data) PROVE SureInv'
    <3>1. UNCHANGED <<videoDaemon, receiver, shown>> /\ faults' \in {faults, faults + 1}
      BY <2>1 DEF SendAudio, decoding
    <3> QED BY <1>1, <3>1 DEF videoDaemon, receiver
  <2>2. CASE (\E p \in audioNet : ReceiveAudio(p)) \/ AudioAges \/ PruneAudio
    BY <1>1, <2>2 DEF ReceiveAudio, AudioAges, PruneAudio, video, videoDaemon, receiver, decoding
  <2> QED BY <1>8, <2>1, <2>2 DEF AudioNext
<1>9. CASE CameraNext
  <2>1. ASSUME NEW total \in Sizes, SendCameraFrame(total) PROVE SureInv'
    <3>1. UNCHANGED <<videoDaemon, receiver, shown>> /\ faults' \in {faults, faults + 1}
      BY <2>1 DEF SendCameraFrame, decoding
    <3> QED BY <1>1, <3>1 DEF videoDaemon, receiver
  <2>2. CASE \E p \in camNet : FeedCamera(p)
    <3>1. UNCHANGED video BY <2>2, Zenon DEF FeedCamera
    <3> QED BY <1>1, <3>1 DEF video, videoDaemon, receiver, decoding
  <2> QED BY <1>9, <2>1, <2>2 DEF CameraNext
<1>10. CASE UNCHANGED mediaVars
  BY <1>1, <1>10 DEF mediaVars, video, videoDaemon, receiver, decoding
<1> QED BY <1>2, <1>3, <1>4, <1>5, <1>6, <1>7, <1>8, <1>9, <1>10 DEF MediaNext, VideoNext

\* After an intact picture the network breaks none that the client does not know
\* of: it found a frame missing, and a PLI went or was less than PLI_MIN_INTERVAL
\* ago (the gap check), for any frames, parity and network.
THEOREM BrokenNoticed == MediaSpec => []BrokenIsNoticed
<1>1. SureInv => BrokenIsNoticed BY DEF SureInv, BreakNoticed, BrokenIsNoticed
<1> QED BY <1>1, MediaStarts, MediaSteps, WholeStarts, WholeSteps, SureStarts, SureSteps, PTL DEF MediaSpec

-----------------------------------------------------------------------------
(* The constructors: what each step may find taken.                         *)

LEMMA HwDecoderClean == \A k \in Failing(HwDecoderSteps, FALSE) : Leftover(HwDecoderSteps, k) = {}
<1> DEFINE b == <<{}, {}, {"ctx"}, {"ctx", "opaque"}, {"ctx", "opaque", "device"},
                  {"ctx", "opaque", "device"}, {"ctx", "opaque", "device", "parser"},
                  {"ctx", "opaque", "device", "parser", "buffers"}>>
<1>1. Len(HwDecoderSteps) = 7 BY DEF HwDecoderSteps
<1>2. Bounds(b, HwDecoderSteps) BY <1>1 DEF Bounds, HwDecoderSteps, Take, Allocate
<1>3. Frees(b, HwDecoderSteps, FALSE) BY <1>1 DEF Frees, Failing, HwDecoderSteps, Take, Allocate
<1>4. Len(HwDecoderSteps) \in Nat BY <1>1
<1> HIDE DEF b
<1> QED BY <1>2, <1>3, <1>4, FailureLeavesNothing

LEMMA SwDecoderClean == \A k \in Failing(SwDecoderSteps, FALSE) : Leftover(SwDecoderSteps, k) = {}
<1> DEFINE b == <<{}, {}, {"ctx"}, {"ctx"}, {"ctx", "parser"}, {"ctx", "parser", "buffers"}>>
<1>1. Len(SwDecoderSteps) = 5 BY DEF SwDecoderSteps
<1>2. Bounds(b, SwDecoderSteps) BY <1>1 DEF Bounds, SwDecoderSteps, Take, Allocate
<1>3. Frees(b, SwDecoderSteps, FALSE) BY <1>1 DEF Frees, Failing, SwDecoderSteps, Take, Allocate
<1>4. Len(SwDecoderSteps) \in Nat BY <1>1
<1> HIDE DEF b
<1> QED BY <1>2, <1>3, <1>4, FailureLeavesNothing

\* Drop frees all that a decoder is built with.
LEMMA DecoderDropsAll == \A kind : Built(DecoderSteps(kind)) \subseteq DecoderDropped(kind)
<1>1. Built(SwDecoderSteps) \subseteq {"buffers", "parser", "ctx"}
  <2>1. Len(SwDecoderSteps) = 5 /\ Len(SwDecoderSteps) \in Nat BY DEF SwDecoderSteps
  <2>2. \A k \in 1..5 : SwDecoderSteps[k].takes \subseteq {"buffers", "parser", "ctx"}
    BY DEF SwDecoderSteps, Take, Allocate
  <2> QED BY <2>1, <2>2, HeldAmong
<1>2. Built(HwDecoderSteps) \subseteq {"buffers", "parser", "ctx", "device", "opaque"}
  <2>1. Len(HwDecoderSteps) = 7 /\ Len(HwDecoderSteps) \in Nat BY DEF HwDecoderSteps
  <2>2. \A k \in 1..7 : HwDecoderSteps[k].takes \subseteq {"buffers", "parser", "ctx", "device", "opaque"}
    BY DEF HwDecoderSteps, Take, Allocate
  <2> QED BY <2>1, <2>2, HeldAmong
<1> QED BY <1>1, <1>2 DEF DecoderSteps, DecoderDropped

LEMMA RefusedIsClean == \A kind \in DecoderKinds : \A left \in RefusedDecoder[kind] : left = {}
<1>1. ASSUME NEW kind PROVE \A k \in Failing(DecoderSteps(kind), FALSE) : Leftover(DecoderSteps(kind), k) = {}
  BY HwDecoderClean, SwDecoderClean DEF DecoderSteps
<1>2. ASSUME NEW kind \in DecoderKinds, NEW o \in Outcomes(DecoderSteps(kind), FALSE), ~o.ok
      PROVE o.left = {}
  BY <1>1, <1>2, OutcomesClean
<1> QED BY <1>2 DEF RefusedDecoder

\* The surface: objects of the first frame, of a size, of each frame.
GpuKinds == {"vaapi", "videotoolbox", "d3d11va"}

LEMMA OnceLeaves ==
    \A kind \in GpuKinds : \A row \in OnceRows(kind) : \A o \in Outcomes(row, FALSE) :
        o.left \subseteq Lost /\ o.has \subseteq Lost
<1>1. ASSUME NEW row \in VaapiOnce
      PROVE  Len(row) = 4 /\ \A k \in 1..4 : row[k].takes \subseteq Lost
  BY DEF VaapiOnce, Take, LetGo, Lost
<1>2. ASSUME NEW row \in MetalOnce
      PROVE  Len(row) = 4 /\ \A k \in 1..4 : row[k].takes \subseteq Lost
  BY DEF MetalOnce, Take, Lost
<1>3. ASSUME NEW row \in D3dOnce
      PROVE  /\ Len(row) \in Nat /\ Built(row) \subseteq Lost
             /\ \A k \in Failing(row, FALSE) : Leftover(row, k) \subseteq Lost
  <2> DEFINE b == <<{}, {"device"}, {"device"}, {}>>
  <2>1. row = <<Take({"device"}, {}), Take({}, {"device"}), LetGo({"device"})>> /\ Len(row) = 3
    BY DEF D3dOnce
  <2>2. Bounds(b, row) BY <2>1 DEF Bounds, Take, LetGo
  <2>3. Frees(b, row, FALSE) BY <2>1 DEF Frees, Failing, Take, LetGo
  <2>4. Len(row) \in Nat BY <2>1
  <2>5. b[Len(row) + 1] = {} BY <2>1
  <2> HIDE DEF b
  <2>6. \A k \in Failing(row, FALSE) : Leftover(row, k) = {} BY <2>2, <2>3, <2>4, FailureLeavesNothing
  <2>7. Built(row) \subseteq b[Len(row) + 1] BY <2>2, <2>4, HeldWithin DEF Built
  <2> QED BY <2>4, <2>5, <2>6, <2>7
<1>4. ASSUME NEW row, Len(row) = 4, \A k \in 1..4 : row[k].takes \subseteq Lost
      PROVE  /\ Len(row) \in Nat /\ Built(row) \subseteq Lost
             /\ \A k \in Failing(row, FALSE) : Leftover(row, k) \subseteq Lost
  <2>1. Len(row) \in Nat /\ \A k \in 1..Len(row) : row[k].takes \subseteq Lost BY <1>4
  <2> DEFINE L == Lost
  <2>2. \A k \in 1..Len(row) : row[k].takes \subseteq L BY <2>1
  <2> HIDE DEF L
  <2>3. Built(row) \subseteq L BY <2>1, <2>2, HeldAmong
  <2>4. \A k \in Failing(row, FALSE) : Leftover(row, k) \subseteq L BY <2>1, <2>2, LeftAmong
  <2> QED BY <2>1, <2>3, <2>4 DEF L
<1>5. ASSUME NEW kind \in GpuKinds, NEW row \in OnceRows(kind)
      PROVE  /\ Len(row) \in Nat /\ Built(row) \subseteq Lost
             /\ \A k \in Failing(row, FALSE) : Leftover(row, k) \subseteq Lost
  <2>1. CASE kind = "vaapi" BY <1>1, <1>4, <2>1 DEF OnceRows
  <2>2. CASE kind = "videotoolbox" BY <1>2, <1>4, <2>2 DEF OnceRows
  <2>3. CASE kind = "d3d11va" BY <1>3, <2>3 DEF OnceRows
  <2> QED BY <2>1, <2>2, <2>3 DEF GpuKinds
<1> QED BY <1>5, OutcomesWithin

LEMMA SizeLeaves ==
    \A two \in BOOLEAN : \A o \in Outcomes(SizeSteps(two), FALSE) :
        o.has \subseteq ReleasedFirst /\ o.left \subseteq ReleasedFirst
<1>1. ASSUME NEW two \in BOOLEAN
      PROVE  /\ Len(SizeSteps(two)) \in Nat
             /\ \A k \in 1..Len(SizeSteps(two)) : SizeSteps(two)[k].takes \subseteq ReleasedFirst
  <2>1. CASE two
    <3>1. Len(SizeSteps(two)) = 9 BY <2>1 DEF SizeSteps, SharedSteps
    <3>2. \A k \in 1..9 : SizeSteps(two)[k].takes \subseteq ReleasedFirst
      BY <2>1 DEF SizeSteps, SharedSteps, Take, ReleasedFirst
    <3> QED BY <3>1, <3>2
  <2>2. CASE ~two
    <3>1. Len(SizeSteps(two)) = 6 BY <2>2 DEF SizeSteps, SharedSteps
    <3>2. \A k \in 1..6 : SizeSteps(two)[k].takes \subseteq ReleasedFirst
      BY <2>2 DEF SizeSteps, SharedSteps, Take, ReleasedFirst
    <3> QED BY <3>1, <3>2
  <2> QED BY <2>1, <2>2
<1>2. ASSUME NEW two \in BOOLEAN
      PROVE  /\ Built(SizeSteps(two)) \subseteq ReleasedFirst
             /\ \A k \in Failing(SizeSteps(two), FALSE) : Leftover(SizeSteps(two), k) \subseteq ReleasedFirst
  BY <1>1, HeldAmong, LeftAmong
<1> QED BY <1>2, OutcomesWithin

FrameObjects == {"fds", "y", "uv", "inputView"}

LEMMA FrameLeaves ==
    \A kind \in GpuKinds : \A o \in Outcomes(FrameSteps(kind), FALSE) :
        o.left = {} /\ o.has \subseteq FrameObjects
<1>1. ASSUME NEW kind \in GpuKinds
      PROVE  /\ Len(FrameSteps(kind)) \in Nat
             /\ \A k \in 1..Len(FrameSteps(kind)) : FrameSteps(kind)[k].takes \subseteq FrameObjects
             /\ \A k \in Failing(FrameSteps(kind), FALSE) : Leftover(FrameSteps(kind), k) = {}
  <2>1. CASE kind = "vaapi"
    <3> DEFINE b == <<{}, {"fds"}, {"fds"}, {"fds", "y"}, {"fds", "y", "uv"}>>
    <3>1. FrameSteps(kind) = VaapiFrame BY <2>1 DEF FrameSteps
    <3>2. Len(VaapiFrame) = 4 /\ Len(VaapiFrame) \in Nat BY DEF VaapiFrame
    <3>3. \A k \in 1..4 : VaapiFrame[k].takes \subseteq FrameObjects BY DEF VaapiFrame, Take, FrameObjects
    <3>4. Bounds(b, VaapiFrame) BY <3>2 DEF Bounds, VaapiFrame, Take
    <3>5. Frees(b, VaapiFrame, FALSE) BY <3>2 DEF Frees, Failing, VaapiFrame, Take
    <3> HIDE DEF b
    <3> QED BY <3>1, <3>2, <3>3, <3>4, <3>5, FailureLeavesNothing
  <2>2. CASE kind = "videotoolbox"
    <3> DEFINE b == <<{}, {"y"}, {"y", "uv"}>>
    <3>1. FrameSteps(kind) = MetalFrame BY <2>2 DEF FrameSteps
    <3>2. Len(MetalFrame) = 2 /\ Len(MetalFrame) \in Nat BY DEF MetalFrame
    <3>3. \A k \in 1..2 : MetalFrame[k].takes \subseteq FrameObjects BY DEF MetalFrame, Take, FrameObjects
    <3>4. Bounds(b, MetalFrame) BY <3>2 DEF Bounds, MetalFrame, Take
    <3>5. Frees(b, MetalFrame, FALSE) BY <3>2 DEF Frees, Failing, MetalFrame, Take
    <3> HIDE DEF b
    <3> QED BY <3>1, <3>2, <3>3, <3>4, <3>5, FailureLeavesNothing
  <2>3. CASE kind = "d3d11va"
    <3> DEFINE b == <<{}, {"inputView"}, {}, {}>>
    <3>1. FrameSteps(kind) = D3dFrame BY <2>3 DEF FrameSteps
    <3>2. Len(D3dFrame) = 3 /\ Len(D3dFrame) \in Nat BY DEF D3dFrame
    <3>3. \A k \in 1..3 : D3dFrame[k].takes \subseteq FrameObjects BY DEF D3dFrame, Take, LetGo, FrameObjects
    <3>4. Bounds(b, D3dFrame) BY <3>2 DEF Bounds, D3dFrame, Take, LetGo
    <3>5. Frees(b, D3dFrame, FALSE) BY <3>2 DEF Frees, Failing, D3dFrame, Take, LetGo
    <3> HIDE DEF b
    <3> QED BY <3>1, <3>2, <3>3, <3>4, <3>5, FailureLeavesNothing
  <2> QED BY <2>1, <2>2, <2>3 DEF GpuKinds
<1>2. ASSUME NEW kind \in GpuKinds PROVE Built(FrameSteps(kind)) \subseteq FrameObjects
  BY <1>1, HeldAmong
<1> QED
  <2> SUFFICES ASSUME NEW kind \in GpuKinds, NEW o \in Outcomes(FrameSteps(kind), FALSE)
               PROVE  o.left = {} /\ o.has \subseteq FrameObjects
    OBVIOUS
  <2>1. o.left = {} BY <1>1, OutcomesClean
  <2>2. \A k \in Failing(FrameSteps(kind), FALSE) : Leftover(FrameSteps(kind), k) \subseteq FrameObjects BY <1>1
  <2> QED BY <1>2, <2>1, <2>2, OutcomesWithin

-----------------------------------------------------------------------------
(* The inductive invariant of the decoder thread and the QML item.          *)

DecoderParts == {"buffers", "parser", "ctx", "device", "opaque"}
SizesSeen    == FrameSizes \cup {0}
Shots        == [size : SizesSeen, hw : BOOLEAN, sound : BOOLEAN]
Decoders     == [kind : DecoderKinds \cup {"none"}, codec : Codecs \cup {0}, has : SUBSET DecoderParts,
                 sws : SizesSeen, buf : SizesSeen, pix : SizesSeen]
KeptFor(kind)  == IF kind = "videotoolbox" THEN {"output"} ELSE ReleasedFirst
Surfaces(kind) == [once : BOOLEAN, size : SizesSeen, has : SUBSET KeptFor(kind),
                   ring : [1..2 -> SUBSET FrameObjects], turn : {1, 2}]

\* The decoder at hand is one that Drop frees, and keeps its frames on the GPU
\* only if the first that is tried does; the RGBA frame is as large as its buffer,
\* as long as memory lasts.
DecoderWell(d, oom) ==
    /\ d \in Decoders
    /\ d.has \subseteq DecoderDropped(d.kind)
    /\ d = NoDecoder \/ d.has = DecoderBuilt[d.kind]
    /\ d.kind \in ZeroCopy => d.kind = probes[1]
    /\ oom \/ d.buf = d.pix

ShotWell(p, oom) == p \in Shots /\ (p.hw => probes[1] \in ZeroCopy) /\ (oom \/ p.sound)

DecInv ==
    /\ probes \in Probes /\ shared \in BOOLEAN
    /\ DecoderWell(dec, decOom)
    /\ ShotWell(out, decOom) /\ ShotWell(slot, decOom) /\ ShotWell(current, decOom)
    /\ at \in {"idle", "publish", "flag"} /\ (at # "publish" <=> out = NoPicture)
    /\ hasNew \in BOOLEAN /\ dirty \in BOOLEAN /\ decOom \in BOOLEAN
    /\ surface \in Surfaces(probes[1])
    /\ decFaults \in 0..MaxDecFaults
    /\ OnlySetUpIsLost

LEMMA ProbesKnown ==
    ASSUME NEW p \in Probes, NEW i \in 1..Len(p) PROVE p[i] \in DecoderKinds
BY DEF DecoderKinds

LEMMA BuiltKnown ==
    ASSUME NEW kind \in DecoderKinds
    PROVE  DecoderBuilt[kind] \subseteq DecoderDropped(kind) /\ DecoderBuilt[kind] \subseteq DecoderParts
<1>1. DecoderBuilt[kind] = Built(DecoderSteps(kind)) BY DEF DecoderBuilt
<1>2. Built(DecoderSteps(kind)) \subseteq DecoderDropped(kind) BY DecoderDropsAll
<1>3. DecoderDropped(kind) \subseteq DecoderParts BY DEF DecoderDropped, DecoderParts
<1> QED BY <1>1, <1>2, <1>3

LEMMA NoneOpened == \A oom \in BOOLEAN : DecoderWell(NoDecoder, oom)
<1>1. NoDecoder.kind = "none" /\ NoDecoder.has = {} /\ NoDecoder.buf = NoDecoder.pix BY DEF NoDecoder
<1>2. NoDecoder \in Decoders BY DEF NoDecoder, Decoders, SizesSeen
<1>3. "none" \notin ZeroCopy BY DecodingAssumption
<1> QED BY <1>1, <1>2, <1>3 DEF DecoderWell

\* Whichever decoder opens, those before it leave nothing, nor does the old one.
LEMMA OpenedWell ==
    ASSUME DecInv, NEW codec \in Codecs, NEW opened \in OpenDecoder(codec)
    PROVE  /\ opened.left = {} /\ DecoderWell(opened.d, decOom)
           /\ opened.d # NoDecoder => opened.d.codec \in Codecs
<1> DEFINE Lefts(i) == {f \in [1..(i - 1) -> Leavings] : \A j \in 1..(i - 1) : f[j] \in RefusedDecoder[probes[j]]}
           Opens(i) == {[d    |-> OpenedAt(codec, i),
                         left |-> UNION {left[j] : j \in 1..(i - 1)} \cup (dec.has \ DecoderDropped(dec.kind))] :
                        left \in Lefts(i)}
<1>0. opened \in UNION {Opens(i) : i \in 1..(Len(probes) + 1)} BY DEF OpenDecoder
<1> HIDE DEF Opens
<1>1. PICK i \in 1..(Len(probes) + 1) : opened \in Opens(i) BY <1>0
<1>9. PICK left : /\ \A j \in 1..(i - 1) : left[j] \in RefusedDecoder[probes[j]]
                  /\ opened = [d    |-> OpenedAt(codec, i),
                               left |-> UNION {left[j] : j \in 1..(i - 1)}
                                           \cup (dec.has \ DecoderDropped(dec.kind))]
  BY <1>1 DEF Opens
<1>2. probes \in Probes /\ Len(probes) \in Nat \ {0} BY DecodingAssumption DEF DecInv
<1>3. ASSUME NEW j \in 1..(i - 1) PROVE left[j] = {}
  <2>1. j \in 1..Len(probes) BY <1>2
  <2>2. probes[j] \in DecoderKinds BY <1>2, <2>1, ProbesKnown
  <2>3. left[j] \in RefusedDecoder[probes[j]] BY <1>9
  <2> QED BY <2>2, <2>3, RefusedIsClean
<1>4. dec.has \subseteq DecoderDropped(dec.kind) BY DEF DecInv, DecoderWell
<1>5. opened.left = {} BY <1>3, <1>4, <1>9
<1>6. opened.d = OpenedAt(codec, i) BY <1>9
<1>7. CASE i > Len(probes)
  <2>1. opened.d = NoDecoder BY <1>6, <1>7 DEF OpenedAt
  <2>2. decOom \in BOOLEAN BY DEF DecInv
  <2> QED BY <1>5, <2>1, <2>2, NoneOpened
<1>8. CASE ~(i > Len(probes))
  <2> DEFINE d == opened.d
  <2>1. i \in 1..Len(probes) BY <1>2, <1>8
  <2>2. d = [kind |-> probes[i], codec |-> codec, has |-> DecoderBuilt[probes[i]],
             sws |-> 0, buf |-> 0, pix |-> 0]
    BY <1>6, <1>8 DEF OpenedAt, NoDecoder
  <2> HIDE DEF d
  <2>3. probes[i] \in DecoderKinds BY <1>2, <2>1, ProbesKnown
  <2>4. probes[i] \in ZeroCopy => i = 1 BY <1>2, <2>1, DecodingAssumption
  <2>5. /\ DecoderBuilt[probes[i]] \subseteq DecoderDropped(probes[i])
        /\ DecoderBuilt[probes[i]] \subseteq DecoderParts
    BY <2>3, BuiltKnown
  <2>6. /\ d.kind = probes[i] /\ d.codec = codec /\ d.has = DecoderBuilt[probes[i]]
        /\ d.buf = 0 /\ d.pix = 0
    BY <2>2
  <2>7. d \in Decoders BY <2>2, <2>3, <2>5 DEF Decoders, SizesSeen
  <2>8. DecoderWell(d, decOom) BY <2>4, <2>5, <2>6, <2>7 DEF DecoderWell
  <2> QED BY <1>5, <2>6, <2>8 DEF d
<1> QED BY <1>7, <1>8

LEMMA SwsKept ==
    ASSUME NEW d \in Decoders, NEW v \in SizesSeen
    PROVE  LET e == [d EXCEPT !.sws = v] IN
           /\ e \in Decoders /\ e.sws = v /\ e.kind = d.kind /\ e.codec = d.codec
           /\ e.has = d.has /\ e.buf = d.buf /\ e.pix = d.pix
BY DEF Decoders

LEMMA BufferKept ==
    ASSUME NEW d \in Decoders, NEW v \in SizesSeen
    PROVE  LET e == [d EXCEPT !.buf = v, !.pix = v] IN
           /\ e \in Decoders /\ e.sws = d.sws /\ e.kind = d.kind /\ e.codec = d.codec
           /\ e.has = d.has /\ e.buf = v /\ e.pix = v
BY DEF Decoders

LEMMA PixKept ==
    ASSUME NEW d \in Decoders, NEW v \in SizesSeen
    PROVE  LET e == [d EXCEPT !.pix = v] IN
           /\ e \in Decoders /\ e.sws = d.sws /\ e.kind = d.kind /\ e.codec = d.codec
           /\ e.has = d.has /\ e.buf = d.buf /\ e.pix = v
BY DEF Decoders

\* A decoder that is open, and stays so.
Open(d, oom) == DecoderWell(d, oom) /\ d.has = DecoderBuilt[d.kind] /\ d.codec \in Codecs

LEMMA SwsWell ==
    ASSUME NEW oom \in BOOLEAN, NEW d, Open(d, oom), NEW size \in FrameSizes, NEW s \in EnsureSws(d, size)
    PROVE  Open(s.d, oom) /\ s.failed \in BOOLEAN /\ (~s.failed => s.d.sws = size)
<1>1. size \in SizesSeen /\ 0 \in SizesSeen /\ d \in Decoders BY DEF SizesSeen, Open, DecoderWell
<1>2. CASE s = [d |-> d, failed |-> FALSE] /\ d.sws = size BY <1>2
<1>3. CASE s = [d |-> [d EXCEPT !.sws = size], failed |-> FALSE]
  <2> DEFINE e == [d EXCEPT !.sws = size]
  <2>1. /\ e \in Decoders /\ e.sws = size /\ e.kind = d.kind /\ e.codec = d.codec
        /\ e.has = d.has /\ e.buf = d.buf /\ e.pix = d.pix
    BY <1>1, SwsKept
  <2> HIDE DEF e
  <2>2. Open(e, oom) BY <2>1 DEF Open, DecoderWell
  <2>3. s.d = e /\ s.failed = FALSE BY <1>3 DEF e
  <2> QED BY <2>1, <2>2, <2>3
<1>4. CASE s = [d |-> [d EXCEPT !.sws = 0], failed |-> TRUE]
  <2> DEFINE e == [d EXCEPT !.sws = 0]
  <2>1. /\ e \in Decoders /\ e.kind = d.kind /\ e.codec = d.codec
        /\ e.has = d.has /\ e.buf = d.buf /\ e.pix = d.pix
    BY <1>1, SwsKept
  <2> HIDE DEF e
  <2>2. Open(e, oom) BY <2>1 DEF Open, DecoderWell
  <2>3. s.d = e /\ s.failed = TRUE BY <1>4 DEF e
  <2> QED BY <2>2, <2>3
<1> QED BY <1>2, <1>3, <1>4 DEF EnsureSws

LEMMA BufferWell ==
    ASSUME NEW oom \in BOOLEAN, NEW d, Open(d, oom), NEW size \in FrameSizes, NEW b \in EnsureBuffer(d, size)
    PROVE  /\ b.failed \in BOOLEAN /\ Open(b.d, oom \/ b.failed)
           /\ ~b.failed => b.d.sws = d.sws /\ (oom \/ b.d.pix = size)
<1>1. size \in SizesSeen /\ 0 \in SizesSeen /\ d \in Decoders BY DEF SizesSeen, Open, DecoderWell
<1>2. CASE b = [d |-> d, failed |-> FALSE] /\ d.buf = size
  <2>1. b.d = d /\ b.failed = FALSE BY <1>2
  <2> QED BY <1>2, <2>1 DEF Open, DecoderWell
<1>3. CASE b = [d |-> [d EXCEPT !.buf = size, !.pix = size], failed |-> FALSE]
  <2> DEFINE e == [d EXCEPT !.buf = size, !.pix = size]
  <2>1. /\ e \in Decoders /\ e.sws = d.sws /\ e.kind = d.kind /\ e.codec = d.codec
        /\ e.has = d.has /\ e.buf = size /\ e.pix = size
    BY <1>1, BufferKept
  <2>2. b.d = e /\ b.failed = FALSE BY <1>3
  <2> HIDE DEF e
  <2>3. Open(e, oom) BY <2>1 DEF Open, DecoderWell
  <2> QED BY <2>1, <2>2, <2>3
<1>4. CASE b = [d |-> [d EXCEPT !.pix = 0], failed |-> TRUE]
  <2> DEFINE e == [d EXCEPT !.pix = 0]
  <2>1. /\ e \in Decoders /\ e.kind = d.kind /\ e.codec = d.codec /\ e.has = d.has
    BY <1>1, PixKept
  <2>2. b.d = e /\ b.failed = TRUE BY <1>4
  <2> HIDE DEF e
  <2>3. Open(e, TRUE) BY <2>1 DEF Open, DecoderWell
  <2> QED BY <2>2, <2>3
<1> QED BY <1>2, <1>3, <1>4 DEF EnsureBuffer

\* What the decoder thread leaves to the QML item.
Shown == <<probes, shared, slot, hasNew, gui>>

\* An error, or no frame: the decoder may be another, no more memory may be had.
LEMMA NothingDecoded ==
    ASSUME DecInv, NEW oom \in BOOLEAN, decOom' = (decOom \/ oom), DecoderWell(dec', decOom'),
           UNCHANGED <<at, out, Shown>>, decFaults' \in 0..MaxDecFaults, decLeaked' = {}
    PROVE  DecInv'
<1>1. decOom \in BOOLEAN /\ decOom' \in BOOLEAN BY DEF DecInv
<1>2. ShotWell(out, decOom)' /\ ShotWell(slot, decOom)' /\ ShotWell(current, decOom)'
  BY DEF DecInv, ShotWell, Shown, gui
<1>3. DecoderWell(dec, decOom)' BY DEF DecoderWell, Shown
<1> QED BY <1>1, <1>2, <1>3 DEF DecInv, OnlySetUpIsLost, Shown, gui

LEMMA PictureDecoded ==
    ASSUME DecInv, UNCHANGED <<decOom, Shown>>, DecoderWell(dec', decOom), at' = "publish",
           ShotWell(out', decOom), out'.size # 0, decFaults' \in 0..MaxDecFaults, decLeaked' = {}
    PROVE  DecInv'
<1>1. decOom' \in BOOLEAN BY DEF DecInv
<1>2. ShotWell(out, decOom)' /\ ShotWell(slot, decOom)' /\ ShotWell(current, decOom)'
  BY DEF DecInv, ShotWell, Shown, gui
<1>3. DecoderWell(dec, decOom)' BY DEF DecoderWell, Shown
<1>4. out' # NoPicture BY DEF NoPicture
<1> QED BY <1>1, <1>2, <1>3, <1>4 DEF DecInv, OnlySetUpIsLost, Shown, gui

LEMMA DecodeKeeps ==
    ASSUME DecInv, NEW d, Open(d, decOom), NEW size \in FrameSizes, Decode(d, size),
           UNCHANGED Shown, decLeaked' = {}
    PROVE  DecInv'
<1>1. decOom \in BOOLEAN /\ decFaults \in 0..MaxDecFaults /\ MaxDecFaults \in Nat
  BY DecodingAssumption DEF DecInv
<1>2. size \in SizesSeen /\ size # 0 BY DecodingAssumption DEF SizesSeen
<1>3. DecoderWell(d, decOom) BY DEF Open
<1>4. CASE UNCHANGED <<at, out, decOom, decFaults>> /\ dec' = d
  BY <1>1, <1>3, <1>4, NothingDecoded
<1>5. CASE decFaults < MaxDecFaults /\ decFaults' = decFaults + 1 /\ UNCHANGED <<at, out, decOom>> /\ dec' = d
  <2>1. decFaults' \in 0..MaxDecFaults BY <1>1, <1>5
  <2> QED BY <1>1, <1>3, <1>5, <2>1, NothingDecoded
<1>6. CASE /\ d.kind \in ZeroCopy /\ at' = "publish" /\ out' = [size |-> size, hw |-> TRUE, sound |-> TRUE]
           /\ UNCHANGED <<decOom, decFaults>> /\ dec' = d
  <2>1. probes[1] \in ZeroCopy BY <1>3, <1>6 DEF DecoderWell
  <2>2. ShotWell(out', decOom) BY <1>2, <1>6, <2>1 DEF ShotWell, Shots
  <2>3. out'.size # 0 BY <1>2, <1>6
  <2> QED BY <1>1, <1>3, <1>6, <2>2, <2>3, PictureDecoded
<1>7. ASSUME NEW s \in EnsureSws(d, size), NEW b \in IF s.failed THEN {s} ELSE EnsureBuffer(s.d, size),
             dec' = b.d, decOom' = (decOom \/ (b.failed /\ ~s.failed)),
             b.failed => decFaults < MaxDecFaults,
             decFaults' = IF b.failed THEN decFaults + 1 ELSE decFaults,
             IF b.failed THEN UNCHANGED <<at, out>>
             ELSE at' = "publish"
                  /\ out' = [size |-> size, hw |-> FALSE, sound |-> b.d.sws = size /\ b.d.pix = size]
      PROVE  DecInv'
  <2>1. Open(s.d, decOom) /\ s.failed \in BOOLEAN /\ (~s.failed => s.d.sws = size) BY <1>1, SwsWell
  <2>2. CASE s.failed
    <3>1. b = s BY <2>2
    <3>2. UNCHANGED <<at, out>> /\ dec' = s.d BY <1>7, <2>2, <3>1
    <3>5. UNCHANGED decOom
      <4>1. decOom' = (decOom \/ (b.failed /\ ~s.failed)) BY <1>7
      <4> QED BY <1>1, <2>2, <4>1
    <3>3. decFaults' \in 0..MaxDecFaults BY <1>1, <1>7, <2>2, <3>1
    <3>4. DecoderWell(s.d, decOom) BY <2>1 DEF Open
    <3> QED BY <1>1, <3>2, <3>3, <3>4, <3>5, NothingDecoded
  <2>3. CASE ~s.failed
    <3>1. b \in EnsureBuffer(s.d, size) BY <2>3
    <3>2. /\ b.failed \in BOOLEAN /\ Open(b.d, decOom \/ b.failed)
          /\ ~b.failed => b.d.sws = s.d.sws /\ (decOom \/ b.d.pix = size)
      BY <1>1, <2>1, <3>1, BufferWell
    <3>3. decOom' = (decOom \/ b.failed) /\ dec' = b.d BY <1>7, <2>3
    <3>4. DecoderWell(dec', decOom') BY <3>2, <3>3 DEF Open
    <3>5. decFaults' \in 0..MaxDecFaults BY <1>1, <1>7, <3>2
    <3>6. CASE b.failed
      <4>1. UNCHANGED <<at, out>> BY <1>7, <3>6
      <4> QED BY <3>2, <3>3, <3>4, <3>5, <4>1, NothingDecoded
    <3>7. CASE ~b.failed
      <4>1. UNCHANGED decOom BY <1>1, <3>3, <3>7
      <4>2. /\ at' = "publish"
            /\ out' = [size |-> size, hw |-> FALSE, sound |-> b.d.sws = size /\ b.d.pix = size]
        BY <1>7, <3>7
      <4>3. b.d.sws = size BY <2>1, <2>3, <3>2, <3>7
      <4>4. decOom \/ b.d.pix = size BY <3>2, <3>7
      <4>5. out'.size = size /\ out'.hw = FALSE /\ out' \in Shots BY <1>2, <4>2 DEF Shots
      <4>6. decOom \/ out'.sound BY <4>2, <4>3, <4>4
      <4>7. ShotWell(out', decOom) BY <4>5, <4>6 DEF ShotWell
      <4> QED BY <1>2, <3>4, <3>5, <4>1, <4>2, <4>5, <4>7, PictureDecoded
    <3> QED BY <3>2, <3>6, <3>7
  <2> QED BY <2>1, <2>2, <2>3
<1> QED BY <1>4, <1>5, <1>6, <1>7 DEF Decode

LEMMA JobKeeps ==
    ASSUME DecInv, NEW codec \in Codecs, NEW size \in FrameSizes, DecodeJob(codec, size)
    PROVE  DecInv'
<1>1. UNCHANGED Shown BY DEF DecodeJob, Shown
<1>2. decLeaked = {} BY DEF DecInv, OnlySetUpIsLost
<1>3. 0 \notin Codecs BY DecodingAssumption
<1>4. NoDecoder.codec = 0 BY DEF NoDecoder
<1>5. CASE dec.codec = codec
  <2>1. Decode(dec, size) /\ decLeaked' = {} BY <1>2, <1>5 DEF DecodeJob
  <2>2. dec # NoDecoder BY <1>3, <1>4, <1>5
  <2>3. Open(dec, decOom) BY <1>5, <2>2 DEF DecInv, Open, DecoderWell
  <2> QED BY <1>1, <2>1, <2>3, DecodeKeeps
<1>6. CASE dec.codec # codec
  <2>1. PICK opened \in OpenDecoder(codec) :
          /\ decLeaked' = decLeaked \cup opened.left
          /\ IF opened.d = NoDecoder
             THEN dec' = NoDecoder /\ UNCHANGED <<at, out, decOom, decFaults>>
             ELSE Decode(opened.d, size)
    BY <1>6 DEF DecodeJob
  <2>2. /\ opened.left = {} /\ DecoderWell(opened.d, decOom)
        /\ opened.d # NoDecoder => opened.d.codec \in Codecs
    BY OpenedWell
  <2>3. decLeaked' = {} BY <1>2, <2>1, <2>2
  <2>4. CASE opened.d = NoDecoder
    <3>1. dec' = opened.d /\ UNCHANGED <<at, out, decOom, decFaults>> BY <2>1, <2>4
    <3>2. decOom \in BOOLEAN /\ decFaults \in 0..MaxDecFaults BY DEF DecInv
    <3> QED BY <1>1, <2>2, <2>3, <3>1, <3>2, NothingDecoded
  <2>5. CASE opened.d # NoDecoder
    <3>1. Decode(opened.d, size) BY <2>1, <2>5
    <3>2. Open(opened.d, decOom) BY <2>2, <2>5 DEF Open, DecoderWell
    <3> QED BY <1>1, <2>3, <3>1, <3>2, DecodeKeeps
  <2> QED BY <2>4, <2>5
<1> QED BY <1>5, <1>6

\* The surface.
LEMMA GpuFirst == probes \in Probes /\ probes[1] \in ZeroCopy => probes[1] \in HwKinds /\ probes[1] \in GpuKinds
<1> SUFFICES ASSUME probes \in Probes, probes[1] \in ZeroCopy PROVE probes[1] \in HwKinds /\ probes[1] \in GpuKinds
  OBVIOUS
<1>1. 1 \in 1..Len(probes) BY DecodingAssumption
<1>2. probes[1] \in DecoderKinds BY <1>1, ProbesKnown
<1> QED BY <1>2, DecodingAssumption DEF HwKinds, GpuKinds

LEMMA OnceWell ==
    ASSUME NEW kind \in HwKinds, kind \in GpuKinds, NEW s \in Surfaces(kind), NEW one \in RenderOnce(kind, s)
    PROVE  one.s \in Surfaces(kind) /\ one.left \subseteq Lost /\ one.failed \in BOOLEAN
<1>1. CASE one = Stage(s, {}, FALSE) BY <1>1 DEF Stage
<1>2. ASSUME NEW o \in OnceOf[kind], one = Stage([s EXCEPT !.once = o.ok], o.left \cup o.has, ~o.ok)
      PROVE  one.s \in Surfaces(kind) /\ one.left \subseteq Lost /\ one.failed \in BOOLEAN
  <2>1. PICK row \in OnceRows(kind) : o \in Outcomes(row, FALSE) BY DEF OnceOf
  <2>2. o.left \subseteq Lost /\ o.has \subseteq Lost BY <2>1, OnceLeaves
  <2>3. o.ok \in BOOLEAN BY <2>1, OutcomesDecided
  <2>4. \A v \in BOOLEAN : [s EXCEPT !.once = v] \in Surfaces(kind) BY DEF Surfaces
  <2>5. one.s = [s EXCEPT !.once = o.ok] /\ one.left = o.left \cup o.has /\ one.failed = ~o.ok
    BY <1>2 DEF Stage
  <2> QED BY <2>2, <2>3, <2>4, <2>5
<1> QED BY <1>1, <1>2 DEF RenderOnce

LEMMA SizeWell ==
    ASSUME NEW kind \in GpuKinds, shared \in BOOLEAN, NEW s \in Surfaces(kind), NEW size \in SizesSeen,
           NEW two \in RenderSize(kind, s, size)
    PROVE  two.s \in Surfaces(kind) /\ two.left \subseteq Lost /\ two.failed \in BOOLEAN
<1> DEFINE Well == two.s \in Surfaces(kind) /\ two.left \subseteq Lost /\ two.failed \in BOOLEAN
<1>0. [s EXCEPT !.size = size] \in Surfaces(kind) BY DEF Surfaces
<1>1. CASE two = Stage(s, {}, FALSE) \/ two = Stage(s, {}, TRUE) \/ two = Stage([s EXCEPT !.size = size], {}, FALSE)
  <2>1. two.s \in {s, [s EXCEPT !.size = size]} /\ two.left = {} BY <1>1 DEF Stage
  <2>2. two.failed \in BOOLEAN
    <3>1. CASE two = Stage(s, {}, FALSE) BY <3>1 DEF Stage
    <3>2. CASE two = Stage(s, {}, TRUE) BY <3>2 DEF Stage
    <3>3. CASE two = Stage([s EXCEPT !.size = size], {}, FALSE) BY <3>3 DEF Stage
    <3> QED BY <1>1, <3>1, <3>2, <3>3
  <2> QED BY <1>0, <2>1, <2>2
<1>2. ASSUME kind = "d3d11va", NEW o \in SizeOf[shared],
             two = Stage([s EXCEPT !.size = IF o.ok THEN size ELSE @, !.has = IF o.ok THEN o.has ELSE o.left],
                         s.has \ ReleasedFirst, ~o.ok)
      PROVE  Well
  <2>0. KeptFor(kind) = ReleasedFirst BY <1>2 DEF KeptFor
  <2>1. o \in Outcomes(SizeSteps(shared), FALSE) BY DEF SizeOf
  <2>2. o.has \subseteq ReleasedFirst /\ o.left \subseteq ReleasedFirst BY <2>1, SizeLeaves
  <2>3. o.ok \in BOOLEAN BY <2>1, OutcomesDecided
  <2>5. s.size \in SizesSeen /\ s.has \subseteq ReleasedFirst BY <2>0 DEF Surfaces
  <2>6. CASE o.ok
    <3>1. two.s = [s EXCEPT !.size = size, !.has = o.has] BY <1>2, <2>6 DEF Stage
    <3>2. two.left = s.has \ ReleasedFirst BY <1>2 DEF Stage
    <3>3. two.s \in Surfaces(kind) BY <2>0, <2>2, <2>5, <3>1 DEF Surfaces
    <3>4. two.left = {} BY <2>5, <3>2
    <3>5. two.failed = FALSE BY <1>2, <2>6 DEF Stage
    <3> QED BY <3>3, <3>4, <3>5
  <2>7. CASE ~o.ok
    <3>1. two.s = [s EXCEPT !.size = s.size, !.has = o.left] BY <1>2, <2>7 DEF Stage
    <3>2. two.left = s.has \ ReleasedFirst BY <1>2 DEF Stage
    <3>3. two.s \in Surfaces(kind) BY <2>0, <2>2, <2>5, <3>1 DEF Surfaces
    <3>4. two.left = {} BY <2>5, <3>2
    <3>5. two.failed = TRUE BY <1>2, <2>7 DEF Stage
    <3> QED BY <3>3, <3>4, <3>5
  <2> QED BY <2>6, <2>7
<1>3. ASSUME kind = "videotoolbox", NEW made \in {{"output"}, {}},
             two = Stage([s EXCEPT !.size = size, !.has = made], s.has, FALSE)
      PROVE  Well
  <2>1. KeptFor(kind) = {"output"} BY <1>3 DEF KeptFor
  <2>2. s.has \subseteq {"output"} BY <2>1 DEF Surfaces
  <2>3. [s EXCEPT !.size = size, !.has = made] \in Surfaces(kind) BY <2>1 DEF Surfaces
  <2> QED BY <1>3, <2>2, <2>3 DEF Stage, Lost
<1>4. CASE kind = "d3d11va" BY <1>1, <1>2, <1>4 DEF RenderSize
<1>5. CASE kind = "vaapi" BY <1>1, <1>5 DEF RenderSize
<1>6. CASE kind = "videotoolbox" BY <1>1, <1>3, <1>6 DEF RenderSize
<1> QED BY <1>4, <1>5, <1>6 DEF GpuKinds

LEMMA FrameWell ==
    ASSUME NEW kind \in HwKinds, kind \in GpuKinds, NEW s \in Surfaces(kind), NEW three \in RenderFrame(kind, s)
    PROVE  three.s \in Surfaces(kind) /\ three.left = {} /\ three.failed \in BOOLEAN
<1> DEFINE emptied == [s EXCEPT !.ring[s.turn] = {}]
<1>1. PICK o \in FrameOf[kind] :
        three = IF o.ok THEN Stage([emptied EXCEPT !.ring[s.turn] = o.has, !.turn = 3 - @], {}, FALSE)
                ELSE Stage(emptied, o.left, TRUE)
  BY DEF RenderFrame
<1>2. o \in Outcomes(FrameSteps(kind), FALSE) BY DEF FrameOf
<1>3. o.left = {} /\ o.has \subseteq FrameObjects BY <1>2, FrameLeaves
<1>4. s.turn \in 1..2 /\ emptied \in Surfaces(kind) /\ emptied.turn = s.turn BY DEF Surfaces
<1> HIDE DEF emptied
<1>5. [emptied EXCEPT !.ring[s.turn] = o.has, !.turn = 3 - @] \in Surfaces(kind)
  <2> DEFINE e == [emptied EXCEPT !.ring[s.turn] = o.has]
  <2>1. e \in Surfaces(kind) /\ e.turn = s.turn BY <1>3, <1>4 DEF Surfaces
  <2>2. [emptied EXCEPT !.ring[s.turn] = o.has, !.turn = 3 - @] = [e EXCEPT !.turn = 3 - s.turn]
    BY <1>4 DEF Surfaces
  <2> HIDE DEF e
  <2>3. 3 - s.turn \in {1, 2} BY <1>4
  <2>4. [e EXCEPT !.turn = 3 - s.turn] \in Surfaces(kind) BY <2>1, <2>3 DEF Surfaces
  <2> QED BY <2>2, <2>4
<1>6. CASE o.ok BY <1>1, <1>5, <1>6 DEF Stage
<1>7. CASE ~o.ok BY <1>1, <1>3, <1>4, <1>7 DEF Stage
<1> QED BY <1>6, <1>7

\* Whichever comes first, the size or the frame.
LEMMA StageWell ==
    ASSUME NEW kind \in HwKinds, kind \in GpuKinds, shared \in BOOLEAN, NEW s \in Surfaces(kind),
           NEW size \in SizesSeen, NEW stage \in RenderFirst(kind, s, size) \cup RenderThen(kind, s, size)
    PROVE  stage.s \in Surfaces(kind) /\ stage.left \subseteq Lost /\ stage.failed \in BOOLEAN
<1>1. CASE stage \in RenderSize(kind, s, size) BY <1>1, SizeWell
<1>2. CASE stage \in RenderFrame(kind, s) BY <1>2, FrameWell
<1> QED BY <1>1, <1>2 DEF RenderFirst, RenderThen

LEMMA PaintKeeps == ASSUME DecInv, Paint PROVE DecInv'
<1>1. /\ UNCHANGED <<probes, shared, dec, at, out, hasNew, decLeaked, decOom>>
      /\ current' = (IF slot = NoPicture THEN current ELSE slot) /\ slot' = NoPicture /\ dirty' = FALSE
  BY DEF Paint, decoderThread
<1>2. NoPicture \in Shots /\ NoPicture.hw = FALSE /\ NoPicture.sound = TRUE
  BY DEF NoPicture, Shots, SizesSeen
<1>3. ShotWell(out, decOom)' /\ ShotWell(slot, decOom)' /\ ShotWell(current, decOom)'
  <2>1. ShotWell(out, decOom)' BY <1>1 DEF DecInv, ShotWell
  <2>2. ShotWell(slot, decOom)' BY <1>1, <1>2 DEF ShotWell
  <2>3. ShotWell(current, decOom)' BY <1>1 DEF DecInv, ShotWell
  <2> QED BY <2>1, <2>2, <2>3
<1>4. DecoderWell(dec, decOom)' BY <1>1 DEF DecInv, DecoderWell
<1>5. CASE ~current'.hw
  <2>1. UNCHANGED <<surface, stray, decFaults>> BY <1>5 DEF Paint
  <2> QED BY <1>1, <1>3, <1>4, <2>1 DEF DecInv, OnlySetUpIsLost
<1>6. CASE current'.hw
  <2> DEFINE kind == probes[1]
  <2>1. PICK one \in RenderOnce(kind, surface) :
        \E two \in IF one.failed THEN {one} ELSE RenderFirst(kind, one.s, current'.size) :
        \E three \in IF two.failed THEN {two} ELSE RenderThen(kind, two.s, current'.size) :
          /\ surface' = three.s
          /\ stray' = stray \cup one.left \cup two.left \cup three.left
          /\ three.failed => decFaults < MaxDecFaults
          /\ decFaults' = IF three.failed THEN decFaults + 1 ELSE decFaults
    BY <1>6 DEF Paint
  <2>2. PICK two \in IF one.failed THEN {one} ELSE RenderFirst(kind, one.s, current'.size) :
        \E three \in IF two.failed THEN {two} ELSE RenderThen(kind, two.s, current'.size) :
          /\ surface' = three.s
          /\ stray' = stray \cup one.left \cup two.left \cup three.left
          /\ three.failed => decFaults < MaxDecFaults
          /\ decFaults' = IF three.failed THEN decFaults + 1 ELSE decFaults
    BY <2>1
  <2>3. PICK three \in IF two.failed THEN {two} ELSE RenderThen(kind, two.s, current'.size) :
          /\ surface' = three.s
          /\ stray' = stray \cup one.left \cup two.left \cup three.left
          /\ three.failed => decFaults < MaxDecFaults
          /\ decFaults' = IF three.failed THEN decFaults + 1 ELSE decFaults
    BY <2>2
  <2>4. probes \in Probes /\ probes[1] \in ZeroCopy BY <1>1, <1>3, <1>6 DEF DecInv, ShotWell
  <2>5. kind \in HwKinds /\ kind \in GpuKinds BY <2>4, GpuFirst
  <2>6. surface \in Surfaces(kind) /\ shared \in BOOLEAN /\ stray \subseteq Lost BY DEF DecInv, OnlySetUpIsLost
  <2>7. current'.size \in SizesSeen BY <1>3 DEF ShotWell, Shots
  <2>71. probes'[1] = kind BY <1>1
  <2> HIDE DEF kind
  <2>8. one.s \in Surfaces(kind) /\ one.left \subseteq Lost /\ one.failed \in BOOLEAN
    BY <2>5, <2>6, OnceWell
  <2>9. two.s \in Surfaces(kind) /\ two.left \subseteq Lost /\ two.failed \in BOOLEAN
    <3>1. CASE one.failed BY <2>8, <3>1
    <3>2. CASE ~one.failed
      <4>1. two \in RenderFirst(kind, one.s, current'.size) BY <3>2
      <4> QED BY <2>5, <2>6, <2>7, <2>8, <4>1, StageWell
    <3> QED BY <3>1, <3>2
  <2>10. three.s \in Surfaces(kind) /\ three.left \subseteq Lost /\ three.failed \in BOOLEAN
    <3>1. CASE two.failed BY <2>9, <3>1
    <3>2. CASE ~two.failed
      <4>1. three \in RenderThen(kind, two.s, current'.size) BY <3>2
      <4> QED BY <2>5, <2>6, <2>7, <2>9, <4>1, StageWell
    <3> QED BY <3>1, <3>2
  <2>11. surface' \in Surfaces(probes'[1]) /\ stray' \subseteq Lost BY <2>3, <2>6, <2>71, <2>8, <2>9, <2>10
  <2>12. decFaults' \in 0..MaxDecFaults
    BY <2>3, <2>10, DecodingAssumption DEF DecInv
  <2> QED BY <1>1, <1>3, <1>4, <2>11, <2>12 DEF DecInv, OnlySetUpIsLost
<1> QED BY <1>5, <1>6

LEMMA DecStarts == DecInit => DecInv
<1> SUFFICES ASSUME DecInit PROVE DecInv OBVIOUS
<1>1. /\ probes \in Probes /\ shared \in BOOLEAN /\ dec = NoDecoder /\ at = "idle"
      /\ out = NoPicture /\ slot = NoPicture /\ current = NoPicture /\ hasNew = FALSE /\ dirty = FALSE
      /\ surface = [once |-> FALSE, size |-> 0, has |-> {}, ring |-> <<{}, {}>>, turn |-> 1]
      /\ decLeaked = {} /\ decOom = FALSE /\ stray = {} /\ decFaults = 0
  BY DEF DecInit
<1>2. DecoderWell(dec, decOom) BY <1>1, NoneOpened
<1>3. NoPicture \in Shots /\ NoPicture.hw = FALSE /\ NoPicture.sound = TRUE
  BY DEF NoPicture, Shots, SizesSeen
<1>4. ShotWell(out, decOom) /\ ShotWell(slot, decOom) /\ ShotWell(current, decOom)
  BY <1>1, <1>3 DEF ShotWell
<1>5. surface \in Surfaces(probes[1])
  <2>1. <<{}, {}>> \in [1..2 -> SUBSET FrameObjects] OBVIOUS
  <2> QED BY <1>1, <2>1 DEF Surfaces, SizesSeen
<1>6. decFaults \in 0..MaxDecFaults BY <1>1, DecodingAssumption
<1> QED BY <1>1, <1>2, <1>4, <1>5, <1>6 DEF DecInv, OnlySetUpIsLost

LEMMA DecKept == DecInv /\ [DecNext]_decVars => DecInv'
<1> SUFFICES ASSUME DecInv, [DecNext]_decVars PROVE DecInv' OBVIOUS
<1>0. /\ ShotWell(NoPicture, decOom)
      /\ decOom \in BOOLEAN
  BY DEF DecInv, ShotWell, NoPicture, Shots, SizesSeen
<1>1. ASSUME NEW codec \in Codecs, NEW size \in FrameSizes, DecodeJob(codec, size) PROVE DecInv'
  BY <1>1, JobKeeps
<1>2. CASE Publish
  <2>1. /\ UNCHANGED <<probes, shared, dec, hasNew, dirty, current, surface, stray, decLeaked, decOom, decFaults>>
        /\ at' = "flag" /\ slot' = out /\ out' = NoPicture
    BY <1>2 DEF Publish, gui
  <2>2. ShotWell(out, decOom)' /\ ShotWell(slot, decOom)' /\ ShotWell(current, decOom)'
    BY <1>0, <2>1 DEF DecInv, ShotWell
  <2>3. DecoderWell(dec, decOom)' BY <2>1 DEF DecInv, DecoderWell
  <2> QED BY <2>1, <2>2, <2>3 DEF DecInv, OnlySetUpIsLost
<1>3. CASE RaiseFlag
  <2>1. /\ UNCHANGED <<probes, shared, dec, out, slot, dirty, current, surface, stray, decLeaked, decOom, decFaults>>
        /\ at = "flag" /\ at' = "idle" /\ hasNew' = TRUE
    BY <1>3 DEF RaiseFlag, gui
  <2>2. ShotWell(out, decOom)' /\ ShotWell(slot, decOom)' /\ ShotWell(current, decOom)'
    BY <2>1 DEF DecInv, ShotWell
  <2>3. DecoderWell(dec, decOom)' BY <2>1 DEF DecInv, DecoderWell
  <2> QED BY <2>1, <2>2, <2>3 DEF DecInv, OnlySetUpIsLost
<1>4. CASE PollFrame
  <2>1. /\ UNCHANGED <<probes, shared, dec, at, out, slot, current, surface, stray, decLeaked, decOom, decFaults>>
        /\ hasNew' = FALSE /\ dirty' = TRUE
    BY <1>4 DEF PollFrame, decoderThread
  <2>2. ShotWell(out, decOom)' /\ ShotWell(slot, decOom)' /\ ShotWell(current, decOom)'
    BY <2>1 DEF DecInv, ShotWell
  <2>3. DecoderWell(dec, decOom)' BY <2>1 DEF DecInv, DecoderWell
  <2> QED BY <2>1, <2>2, <2>3 DEF DecInv, OnlySetUpIsLost
<1>5. CASE Paint BY <1>5, PaintKeeps
<1>6. CASE UNCHANGED decVars
  BY <1>6 DEF decVars, DecInv, OnlySetUpIsLost, ShotWell, DecoderWell
<1> QED BY <1>1, <1>2, <1>3, <1>4, <1>5, <1>6 DEF DecNext, DecSteps

LEMMA DecInvHolds == DecSpec => []DecInv
BY DecStarts, DecKept, PTL DEF DecSpec

\* Decoders that the platform refuses and frames that cannot be set up leave
\* nothing behind, but for what the surface loses of its own set-up, for any row
\* of decoders and any sequence of frame sizes, codecs and failures (new_hw,
\* SwDecoder::new, render_hw_frame_*).
THEOREM OnlyLostRemains == DecSpec => []OnlySetUpIsLost
<1>1. DecInv => OnlySetUpIsLost BY DEF DecInv
<1> QED BY <1>1, DecInvHolds, PTL

\* A frame is converted at its own size, whatever came before (ensure_sws).
THEOREM FramesScaled == DecSpec => []ScalesOwnFrame
<1>1. DecInv => ScalesOwnFrame BY DEF DecInv, ShotWell, ScalesOwnFrame
<1> QED BY <1>1, DecInvHolds, PTL

-----------------------------------------------------------------------------
(* Types of the transport, and of the two parts together.                   *)

\* The client knows nothing that was not sent: ids in the network, in assembly
\* and noticed are at most the sender's.
Known ==
    /\ units \in 0..MaxUnits /\ frameId \in 0..units /\ seen \in NoFrame..frameId
    /\ forceIdr \in BOOLEAN /\ mayPli \in BOOLEAN /\ decoder \in BOOLEAN /\ decoderMayPli \in BOOLEAN
    /\ \A p \in net : p.id \in 0..frameId
    /\ \A id \in DOMAIN frames : id \in 0..frameId
    /\ noticed \subseteq 0..frameId

LEMMA KnownStarts == MediaInit => Known
<1> SUFFICES ASSUME MediaInit PROVE Known OBVIOUS
<1>1. /\ units = 0 /\ frameId = 0 /\ forceIdr = FALSE /\ net = {} /\ frames = Empty /\ seen = NoFrame
      /\ mayPli = TRUE /\ noticed = {} /\ decoder = FALSE /\ decoderMayPli = TRUE
  BY DEF MediaInit
<1>2. DOMAIN frames = {} BY <1>1 DEF Empty
<1>3. units \in 0..MaxUnits /\ frameId \in 0..units /\ seen \in NoFrame..frameId
  BY <1>1, MediaAssumption DEF NoFrame
<1> QED BY <1>1, <1>2, <1>3 DEF Known

\* The client's knowledge stays within what was sent.
LEMMA KnownStays ==
    ASSUME Known, UNCHANGED <<units, frameId, net, decoder>>, seen' \in NoFrame..frameId,
           DOMAIN frames' \subseteq 0..frameId, noticed' \subseteq 0..frameId,
           forceIdr' \in BOOLEAN, mayPli' \in BOOLEAN, decoderMayPli' \in BOOLEAN
    PROVE  Known'
BY DEF Known

LEMMA NoticeKnown ==
    ASSUME Known, NEW lost, lost \subseteq 0..frameId, NoticeLoss(lost)
    PROVE  noticed' \subseteq 0..frameId /\ forceIdr' \in BOOLEAN /\ mayPli' \in BOOLEAN
BY DEF Known, NoticeLoss

LEMMA KnownSteps == Known /\ [MediaNext]_mediaVars => Known'
<1> SUFFICES ASSUME Known, [MediaNext]_mediaVars PROVE Known' OBVIOUS
<1>0. /\ units \in Nat /\ frameId \in Nat /\ MaxUnits \in Nat /\ seen \in NoFrame..frameId
      /\ DOMAIN frames \subseteq 0..frameId /\ noticed \subseteq 0..frameId
  BY MediaAssumption DEF Known
<1>01. forceIdr \in BOOLEAN /\ mayPli \in BOOLEAN /\ decoder \in BOOLEAN /\ decoderMayPli \in BOOLEAN
  BY DEF Known
<1>1. CASE UNCHANGED <<units, frameId, forceIdr, net, frames, seen, mayPli, noticed, decoder, decoderMayPli>>
  BY <1>1 DEF Known
<1>2. ASSUME NEW data \in Sizes, NEW idr \in BOOLEAN, SendFrame(data, idr) PROVE Known'
  <2> DEFINE parity == ActualParity(data, IF idr THEN IdrFec ELSE PFec)
  <2>1. /\ units < MaxUnits /\ units' = units + 1 /\ forceIdr' = FALSE
        /\ UNCHANGED <<frames, seen, mayPli, noticed, decoder, decoderMayPli>>
    BY <1>2 DEF SendFrame, receiver, decoding
  <2>2. PICK sent \in 0..(data + parity) :
          /\ net' = net \cup {[id |-> frameId, idx |-> i, unit |-> units', data |-> data,
                               parity |-> parity, idr |-> idr] : i \in 0..(sent - 1)}
          /\ frameId' = frameId + 1 \/ frameId' = frameId
    BY <1>2 DEF SendFrame
  <2> HIDE DEF parity
  <2>3. \A p \in net' : p.id \in 0..frameId
    <3>1. \A p \in net : p.id \in 0..frameId BY DEF Known
    <3>2. frameId \in 0..frameId BY <1>0
    <3> QED BY <2>2, <3>1, <3>2
  <2>4. 0..frameId \subseteq 0..frameId' /\ NoFrame..frameId \subseteq NoFrame..frameId'
    BY <1>0, <2>2 DEF NoFrame
  <2>5. units' \in 0..MaxUnits /\ frameId' \in 0..units' BY <1>0, <2>1, <2>2 DEF Known
  <2>6. \A p \in net' : p.id \in 0..frameId' BY <2>3, <2>4
  <2>7. /\ seen' \in NoFrame..frameId' /\ DOMAIN frames' \subseteq 0..frameId'
        /\ noticed' \subseteq 0..frameId'
    BY <1>0, <2>1, <2>4
  <2> QED BY <1>01, <2>1, <2>5, <2>6, <2>7 DEF Known
<1>3. ASSUME NEW p \in net, ReceiveShard(p) PROVE Known'
  <2> DEFINE a == AddChunk(IF p.id \in DOMAIN frames THEN frames[p.id] ELSE NewAssembly(p), p)
  <2>1. p.id \in 0..frameId BY DEF Known
  <2>2. UNCHANGED <<units, frameId, net, decoder, decoderMayPli>> BY <1>3 DEF ReceiveShard, decoding
  <2>3. CASE IsComplete(a)
    <3>1. NoticeLoss(Gap(p.id)) /\ seen' = p.id /\ frames' = Without(frames, {p.id})
      BY <1>3, <2>3 DEF ReceiveShard
    <3>2. Gap(p.id) \subseteq 0..frameId BY <1>0, <2>1 DEF Gap, NoFrame
    <3>3. seen' \in NoFrame..frameId BY <1>0, <2>1, <3>1 DEF NoFrame
    <3>4. DOMAIN frames' \subseteq 0..frameId BY <1>0, <3>1 DEF Without
    <3>5. noticed' \subseteq 0..frameId /\ forceIdr' \in BOOLEAN /\ mayPli' \in BOOLEAN
      BY <3>1, <3>2, NoticeKnown
    <3> QED BY <1>01, <2>2, <3>3, <3>4, <3>5, KnownStays
  <2>4. CASE ~IsComplete(a)
    <3>1. frames' = With(frames, p.id, a) /\ UNCHANGED <<seen, mayPli, noticed, forceIdr>>
      BY <1>3, <2>4 DEF ReceiveShard
    <3> HIDE DEF a
    <3>2. DOMAIN frames' \subseteq 0..frameId BY <1>0, <2>1, <3>1 DEF With
    <3> QED BY <1>0, <1>01, <2>2, <3>1, <3>2, KnownStays
  <2> QED BY <2>3, <2>4
<1>4. CASE FramesAge
  <2>1. /\ UNCHANGED <<units, frameId, forceIdr, net, seen, mayPli, noticed, decoder, decoderMayPli>>
        /\ DOMAIN frames' = DOMAIN frames
    BY <1>4 DEF FramesAge, videoDaemon, decoding
  <2> QED BY <1>0, <1>01, <2>1, KnownStays
<1>5. CASE Prune
  <2> DEFINE expired == {id \in DOMAIN frames : frames[id].old}
  <2>1. /\ UNCHANGED <<units, frameId, net, seen, decoder, decoderMayPli>>
        /\ frames' = Without(frames, expired) /\ NoticeLoss(expired)
    BY <1>5 DEF Prune, decoding
  <2>2. expired \subseteq 0..frameId BY <1>0
  <2> HIDE DEF expired
  <2>3. DOMAIN frames' \subseteq 0..frameId BY <1>0, <2>1 DEF Without
  <2>4. noticed' \subseteq 0..frameId /\ forceIdr' \in BOOLEAN /\ mayPli' \in BOOLEAN
    BY <2>1, <2>2, NoticeKnown
  <2> QED BY <1>0, <1>01, <2>1, <2>3, <2>4, KnownStays
<1>6. CASE PliIntervalPasses
  <2>1. /\ UNCHANGED <<units, frameId, forceIdr, net, frames, seen, noticed, decoder>>
        /\ mayPli' = TRUE /\ decoderMayPli' = TRUE
    BY <1>6 DEF PliIntervalPasses, videoDaemon
  <2> QED BY <1>0, <1>01, <2>1, KnownStays
<1>7. CASE DecodeFrame
  <2>1. /\ UNCHANGED <<units, frameId, net, frames, seen, mayPli, noticed>>
        /\ decoder' = TRUE \/ UNCHANGED decoder
    BY <1>7 DEF DecodeFrame
  <2>2. UNCHANGED <<decoderMayPli, forceIdr>> \/ (decoderMayPli' = FALSE /\ forceIdr' = TRUE)
    BY <1>7 DEF DecodeFrame
  <2>3. decoder' \in BOOLEAN /\ decoderMayPli' \in BOOLEAN /\ forceIdr' \in BOOLEAN
    BY <1>01, <2>1, <2>2
  <2> QED BY <2>1, <2>3 DEF Known
<1>8. CASE AudioNext
  BY <1>1, <1>8 DEF AudioNext, SendAudio, ReceiveAudio, AudioAges, PruneAudio, video, videoDaemon,
                    receiver, decoding
<1>9. CASE CameraNext
  BY <1>1, <1>9 DEF CameraNext, SendCameraFrame, FeedCamera, video, videoDaemon, receiver, decoding
<1>10. CASE UNCHANGED mediaVars
  BY <1>1, <1>10 DEF mediaVars, video, videoDaemon, receiver, decoding
<1> QED BY <1>2, <1>3, <1>4, <1>5, <1>6, <1>7, <1>8, <1>9, <1>10 DEF MediaNext, VideoNext

PipelineInv == MediaInv /\ WholeInv /\ Known /\ DecInv

LEMMA PipelineStarts == PipelineInit => PipelineInv
BY MediaStarts, WholeStarts, KnownStarts, DecStarts DEF PipelineInit, PipelineInv

LEMMA PipelineSteps == PipelineInv /\ [PipelineNext]_pipelineVars => PipelineInv'
<1> SUFFICES ASSUME PipelineInv, [PipelineNext]_pipelineVars PROVE PipelineInv' OBVIOUS
<1>1. [MediaNext]_mediaVars BY DEF PipelineNext, MediaNext, pipelineVars
<1>2. [DecNext]_decVars BY DEF PipelineNext, pipelineVars
<1> QED BY <1>1, <1>2, MediaSteps, WholeSteps, KnownSteps, DecKept DEF PipelineInv

LEMMA PipelineInvHolds == PipelineSpec => []PipelineInv
BY PipelineStarts, PipelineSteps, PTL DEF PipelineSpec

\* The client's transport and decoder hold only what they can: ids that were
\* sent, assemblies with no more shards than their frame, a decoder of the row.
THEOREM PipelineTyped == PipelineSpec => []PipelineTypeOK
<1>1. PipelineInv => MediaTypeOK
  <2> SUFFICES ASSUME PipelineInv PROVE MediaTypeOK OBVIOUS
  <2>1. Known BY DEF PipelineInv
  <2>2. \A id \in DOMAIN frames : Parts(frames[id]) BY DEF PipelineInv, WholeInv
  <2>3. \A id \in DOMAIN frames :
          /\ frames[id].count = Cardinality(DOMAIN frames[id].got)
          /\ DOMAIN frames[id].got \subseteq 0..(frames[id].data + frames[id].parity - 1)
    BY <2>2 DEF Parts
  <2> QED BY <2>1, <2>3 DEF Known, MediaTypeOK
<1>2. PipelineInv => DecTypeOK
  <2> SUFFICES ASSUME DecInv PROVE DecTypeOK BY DEF PipelineInv
  <2>1. surface.turn \in {1, 2} /\ surface.size \in FrameSizes \cup {0}
    BY DEF DecInv, Surfaces, SizesSeen
  <2>2. dec = NoDecoder \/ dec.has = DecoderBuilt[dec.kind] BY DEF DecInv, DecoderWell
  <2> QED BY <2>1, <2>2 DEF DecInv, DecTypeOK
<1> QED BY <1>1, <1>2, PipelineInvHolds, PTL DEF PipelineTypeOK
===============================================================================
