----------------------------- MODULE PairingProofs -----------------------------
(***************************************************************************)
(* Proofs about Pairing, for any number of clients, endpoints, pairings,    *)
(* crashes and unpairings.                                                  *)
(***************************************************************************)
EXTENDS Pairing, SequenceTheorems, TLAPS

Answers == {Unread, <<"busy">>, <<"reject">>, <<"pin">>}
Cuts == {"no", "soon", "yes"}

\* The daemon is in a handshake or in a session, never in both; a session is
\* open only while it is there; a client that it hears is not cut off; and a
\* stopped daemon is in neither.
OneAtATime ==
    /\ hs.who # Nobody => sess.who = Nobody
    /\ hs.who = Nobody => hs.phase = "none"
    /\ hs.who # Nobody /\ ~hs.gone => cut[hs.who] = "no"
    /\ sess.who = Nobody => ~sess.open
    /\ ~up => hs = NoHandshake /\ sess = NoSession /\ mem = Empty

\* An OK on its way, and a client that is up, are those of the open session, or of
\* one that the daemon has dropped.
Backed ==
    \A c \in Clients :
        /\ box[c] \in Oks =>
             /\ at[c] \in {"hello", "answered"}
             /\ cut[c] = "no" => sess.open /\ sess.who = c /\ box[c] = Ok(sess.key)
        /\ at[c] = "up" /\ cut[c] = "no" =>
             sess.open /\ sess.who = c /\ sess.key = key[c][ep[c]]

\* Whom the daemon is about to confirm has a key and waits for it, unless it has
\* left.
AnswerWaits ==
    hs.phase \in {"save", "write", "confirm"} =>
        /\ mem[hs.who] # NoKey
        /\ ~hs.gone => at[hs.who] = "answered"

\* Who was told OK is in the daemon's memory, and on the disk but while that is
\* written or stale; so is who is about to be told; and the tool's copy is what it
\* loaded for as long as no daemon has run.
Kept ==
    /\ ~torn /\ ~stale => \A c \in Clients : told[c] # NoKey => file[c] = told[c]
    /\ up => \A c \in Clients : told[c] # NoKey => mem[c] = told[c]
    /\ ~up => ~stale
    /\ ~up /\ torn => told = Empty
    /\ hs.phase = "confirm" /\ ~torn /\ ~stale => file[hs.who] = mem[hs.who]
    /\ tool.phase = "loaded" => ~up /\ tool.copy = Loaded

\* No copy of the paired devices holds one that is banned, and none is being
\* confirmed.
Out ==
    \A c \in banned :
        /\ mem[c] = NoKey /\ sess.who # c
        /\ torn \/ file[c] = NoKey
        /\ tool.phase # "none" => tool.copy[c] = NoKey
        /\ hs.who = c => hs.phase \notin {"save", "write", "confirm"}

PairInv == PairTypeOK /\ OneAtATime /\ Backed /\ AnswerWaits /\ Kept /\ Out

-----------------------------------------------------------------------------

\* Answers other than OK are not mistaken for one.
LEMMA OnlyOkIsOk == \A a \in Answers : a \notin Oks
<1>1. \A k \in Keys : Ok(k)[1] = "ok" /\ DOMAIN Ok(k) = 1..2 BY DEF Ok
<1>2. Unread \notin Oks
  <2>1. Unread \in Seq({}) /\ Len(Unread) = 0 BY EmptySeq DEF Unread
  <2>2. DOMAIN Unread = {} BY <2>1, LenProperties
  <2> QED BY <1>1, <2>2 DEF Oks
<1>3. \A w \in {"busy", "reject", "pin"} : <<w>> \notin Oks
  <2>1. \A w \in {"busy", "reject", "pin"} : <<w>>[1] # "ok" OBVIOUS
  <2> QED BY <1>1, <2>1 DEF Oks
<1> QED BY <1>2, <1>3 DEF Answers

LEMMA OkIsOk == \A k \in Keys : Ok(k) \in Oks /\ Ok(k)[2] = k
BY DEF Oks, Ok

LEMMA PairInit1 == PairInit => PairInv
<1> SUFFICES ASSUME PairInit PROVE PairInv OBVIOUS
<1> USE PairingAssumption DEF PairInit, NoHandshake, NoSession, Empty, NoKey, Nobody, Keys
<1>1. PairTypeOK
  <2>1. /\ mem \in [Clients -> Keys \cup {NoKey}] /\ file \in [Clients -> Keys \cup {NoKey}]
        /\ told \in [Clients -> Keys \cup {NoKey}] /\ torn \in BOOLEAN /\ up \in BOOLEAN
        /\ prompt \in BOOLEAN /\ stale \in BOOLEAN /\ banned \subseteq Clients
    OBVIOUS
  <2>2. /\ hs \in [who : Clients \cup {Nobody}, gone : BOOLEAN,
                   phase : {"none", "read", "answer", "save", "write", "confirm"}]
        /\ sess \in [who : Clients \cup {Nobody}, key : Keys \cup {NoKey}, open : BOOLEAN]
    OBVIOUS
  <2>3. tool \in [phase : {"none", "loaded", "raced"}, copy : [Clients -> Keys \cup {NoKey}]]
    OBVIOUS
  <2>4. /\ at \in [Clients -> {"idle", "hello", "pair", "pin", "answered", "up"}]
        /\ ep \in [Clients -> Endpoints]
        /\ key \in [Clients -> [Endpoints -> Keys \cup {NoKey}]]
    OBVIOUS
  <2>5. box \in [Clients -> Oks \cup Answers] /\ cut \in [Clients -> Cuts]
    BY DEF Answers, Cuts
  <2>6. used \in 0..MaxPairings /\ faults \in 0..MaxFaults OBVIOUS
  <2> QED BY <2>1, <2>2, <2>3, <2>4, <2>5, <2>6, Zenon DEF PairTypeOK, Answers, Cuts
<1>2. Backed
  <2>1. \A c \in Clients : box[c] \in Answers BY DEF Answers
  <2> QED BY <2>1, OnlyOkIsOk DEF Backed
<1> QED BY <1>1, <1>2 DEF PairInv, OneAtATime, AnswerWaits, Kept, Out

-----------------------------------------------------------------------------
(* The clients.  None of their steps touches the devices that are stored.    *)

others == <<mem, disk, up, prompt, tool, used, faults, history>>

LEMMA StoredStays ==
    ASSUME PairInv, UNCHANGED others, hs'.who = hs.who, hs'.phase = hs.phase,
           sess'.who = sess.who
    PROVE  Kept' /\ Out'
BY DEF PairInv, others, disk, history, Kept, Out, Loaded

\* A client moves, reads its box or stores a key, with no part in a session.
LEMMA Moving ==
    ASSUME PairInv, NEW c \in Clients, UNCHANGED <<others, hs, sess, cut>>,
           at' \in [Clients -> {"idle", "hello", "pair", "pin", "answered", "up"}],
           ep' \in [Clients -> Endpoints],
           key' \in [Clients -> [Endpoints -> Keys \cup {NoKey}]],
           box' \in [Clients -> Oks \cup Answers],
           \A d \in Clients : d # c => at'[d] = at[d] /\ ep'[d] = ep[d] /\ key'[d] = key[d]
                                       /\ box'[d] = box[d],
           box'[c] \notin Oks,
           at'[c] = "up" /\ cut[c] = "no" => sess.open /\ sess.who = c /\ sess.key = key'[c][ep'[c]],
           hs.who = c /\ hs.phase \in {"save", "write", "confirm"} /\ ~hs.gone => at'[c] = "answered"
    PROVE  PairInv'
<1>1. PairTypeOK' BY DEF PairInv, PairTypeOK, Answers, others, disk, history
<1>2. OneAtATime' BY DEF PairInv, OneAtATime, others, NoHandshake, NoSession, Empty
<1>3. Backed' BY DEF PairInv, Backed
<1>4. AnswerWaits'
  <2>1. hs.phase \in {"save", "write", "confirm"} => hs.who \in Clients
    BY DEF PairInv, PairTypeOK, OneAtATime
  <2> QED BY <2>1 DEF PairInv, AnswerWaits, others
<1>5. Kept' /\ Out' BY StoredStays
<1> QED BY <1>1, <1>2, <1>3, <1>4, <1>5 DEF PairInv

LEMMA Leaving ==
    ASSUME PairInv, NEW c \in Clients, Leave(c), UNCHANGED <<others, ep, key>>
    PROVE  PairInv'
<1> USE PairingAssumption DEF Leave
<1>1. c # Nobody /\ Unread \notin Oks /\ Unread \in Answers
  BY OnlyOkIsOk DEF Nobody, Answers
<1>2. PairTypeOK'
  <2>1. hs' \in [who : Clients \cup {Nobody}, gone : BOOLEAN,
                 phase : {"none", "read", "answer", "save", "write", "confirm"}]
    BY DEF PairInv, PairTypeOK
  <2>2. sess' \in [who : Clients \cup {Nobody}, key : Keys \cup {NoKey}, open : BOOLEAN]
    BY DEF PairInv, PairTypeOK
  <2>3. box' \in [Clients -> Oks \cup Answers] /\ cut' \in [Clients -> Cuts]
    BY <1>1 DEF PairInv, PairTypeOK, Answers, Cuts
  <2>4. at' \in [Clients -> {"idle", "hello", "pair", "pin", "answered", "up"}]
    BY DEF PairInv, PairTypeOK
  <2> QED BY <2>1, <2>2, <2>3, <2>4 DEF PairInv, PairTypeOK, Answers, Cuts, others, disk, history
<1>3. /\ hs'.who = hs.who /\ hs'.phase = hs.phase /\ sess'.who = sess.who
      /\ sess'.open => sess.open /\ sess.who # c
      /\ sess.who # c => sess' = sess
      /\ hs.who # c => hs' = hs
      /\ hs.who = c => hs'.gone
  <2>1. /\ hs \in [who : Clients \cup {Nobody}, gone : BOOLEAN,
                   phase : {"none", "read", "answer", "save", "write", "confirm"}]
        /\ sess \in [who : Clients \cup {Nobody}, key : Keys \cup {NoKey}, open : BOOLEAN]
    BY DEF PairInv, PairTypeOK
  <2>2. hs'.who = hs.who /\ hs'.phase = hs.phase /\ (hs.who = c => hs'.gone) BY <2>1
  <2>3. sess'.who = sess.who BY <2>1
  <2>4. (sess.who = c => sess'.open = FALSE) /\ (sess.who # c => sess' = sess) BY <2>1
  <2>5. hs.who # c => hs' = hs BY <2>1
  <2>6. sess'.open => sess.open /\ sess.who # c BY <2>4, Zenon
  <2> QED BY <2>2, <2>3, <2>4, <2>5, <2>6, Zenon
<1>4. OneAtATime'
  <2>1. ~up => hs.who = Nobody /\ sess.who = Nobody
    BY DEF PairInv, OneAtATime, NoHandshake, NoSession
  <2>2. ~up' => hs' = NoHandshake /\ sess' = NoSession /\ mem' = Empty
    BY <1>1, <1>3, <2>1, Zenon DEF PairInv, OneAtATime, others
  <2>3. sess'.who = Nobody => ~sess'.open BY <1>3 DEF PairInv, OneAtATime
  <2>4. \A d \in Clients : d # c => cut'[d] = cut[d] BY DEF PairInv, PairTypeOK
  <2>5. hs'.who # Nobody /\ ~hs'.gone => cut'[hs'.who] = "no"
    BY <1>3, <2>4 DEF PairInv, OneAtATime
  <2> QED BY <1>3, <2>2, <2>3, <2>5 DEF PairInv, OneAtATime
<1>5. /\ at'[c] = "idle" /\ box'[c] = Unread
      /\ \A d \in Clients : d # c => at'[d] = at[d] /\ box'[d] = box[d] /\ cut'[d] = cut[d]
  BY DEF PairInv, PairTypeOK
<1>6. Backed' BY <1>1, <1>3, <1>5 DEF PairInv, Backed
<1>7. AnswerWaits'
  <2>1. hs.phase \in {"save", "write", "confirm"} => hs.who \in Clients
    BY DEF PairInv, PairTypeOK, OneAtATime
  <2> QED BY <1>3, <1>5, <2>1 DEF PairInv, AnswerWaits, others
<1>8. Kept' /\ Out' BY <1>3, StoredStays
<1> QED BY <1>2, <1>4, <1>6, <1>7, <1>8 DEF PairInv

LEMMA ClientStep ==
    ASSUME PairInv, NEW c \in Clients,
           \/ Dial(c) \/ ClientLeaves(c) \/ ClientIsRefused(c) \/ RetriesAsPair(c)
           \/ AsksForPin(c) \/ SendsAnswer(c) \/ EndsPairing(c) \/ EndsHello(c)
           \/ ReadsEnd(c) \/ DeletesConnection(c)
    PROVE  PairInv'
<1> USE DEF Move
<1>1. /\ at \in [Clients -> {"idle", "hello", "pair", "pin", "answered", "up"}]
      /\ ep \in [Clients -> Endpoints]
      /\ key \in [Clients -> [Endpoints -> Keys \cup {NoKey}]]
      /\ box \in [Clients -> Oks \cup Answers]
  BY DEF PairInv, PairTypeOK, Answers
<1>2. Unread \in Answers /\ Unread \notin Oks BY OnlyOkIsOk DEF Answers
<1>3. /\ box[c] \in Oks => at[c] \in {"hello", "answered"}
      /\ box[c] \in Oks /\ cut[c] = "no" => sess.open /\ sess.who = c
                                          /\ box[c] = Ok(sess.key)
      /\ hs.who = c /\ hs.phase \in {"save", "write", "confirm"} /\ ~hs.gone => at[c] = "answered"
      /\ hs.who # Nobody => sess.who = Nobody
      /\ sess.key \in Keys \cup {NoKey}
      /\ c # Nobody
      /\ box[c] \in Oks /\ hs.who = c => hs.gone
  BY PairingAssumption DEF PairInv, Backed, AnswerWaits, OneAtATime, PairTypeOK, Nobody
<1>4. CASE Dial(c)
  <2>1. at[c] = "idle" /\ at'[c] \in {"hello", "pair"} BY <1>1, <1>4 DEF Dial
  <2>2. /\ at' \in [Clients -> {"idle", "hello", "pair", "pin", "answered", "up"}]
        /\ ep' \in [Clients -> Endpoints]
        /\ \A d \in Clients : d # c => at'[d] = at[d] /\ ep'[d] = ep[d]
    BY <1>1, <1>4 DEF Dial
  <2>3. UNCHANGED <<others, hs, sess, cut, key, box>> BY <1>4 DEF Dial, others, handshake, mail
  <2> QED BY <1>1, <1>3, <2>1, <2>2, <2>3, Moving
<1>5. CASE ClientLeaves(c)
  BY <1>5, Leaving DEF ClientLeaves, others
<1>6. CASE ClientIsRefused(c)
  BY <1>6, Leaving DEF ClientIsRefused, others
<1>7. CASE RetriesAsPair(c) \/ AsksForPin(c)
  <2>1. at[c] \in {"hello", "pair"} /\ at'[c] \in {"pair", "pin"} /\ box'[c] = Unread
    BY <1>1, <1>7 DEF RetriesAsPair, AsksForPin
  <2>2. /\ at' \in [Clients -> {"idle", "hello", "pair", "pin", "answered", "up"}]
        /\ box' \in [Clients -> Oks \cup Answers]
        /\ \A d \in Clients : d # c => at'[d] = at[d] /\ box'[d] = box[d]
    BY <1>1, <1>2, <1>7 DEF RetriesAsPair, AsksForPin
  <2>3. UNCHANGED <<others, hs, sess, cut, key, ep>>
    BY <1>7 DEF RetriesAsPair, AsksForPin, others, handshake
  <2> QED BY <1>1, <1>2, <1>3, <2>1, <2>2, <2>3, Moving
<1>8. CASE SendsAnswer(c)
  <2>1. at[c] = "pin" /\ at'[c] = "answered" BY <1>1, <1>8 DEF SendsAnswer
  <2>2. /\ at' \in [Clients -> {"idle", "hello", "pair", "pin", "answered", "up"}]
        /\ \A d \in Clients : d # c => at'[d] = at[d]
    BY <1>1, <1>8 DEF SendsAnswer
  <2>3. UNCHANGED <<others, hs, sess, cut, key, ep, box>>
    BY <1>8 DEF SendsAnswer, others, handshake, mail
  <2> QED BY <1>1, <1>3, <2>1, <2>2, <2>3, Moving
<1>9. CASE EndsPairing(c)
  <2>1. box[c] \in Oks /\ at'[c] = "up" /\ box'[c] = Unread
    BY <1>1, <1>9 DEF EndsPairing
  <2>2. PICK k \in Keys : box[c] = Ok(k) BY <2>1 DEF Oks
  <2>3. box[c][2] = k /\ (cut[c] = "no" => k = sess.key)
    BY <1>3, <2>1, <2>2 DEF Ok
  <2>4. key' = [key EXCEPT ![c] = [e \in Endpoints |-> IF e \in Names(c) THEN k
                                                     ELSE key[c][e]]]
    BY <1>9, <2>3 DEF EndsPairing
  <2>5. ep[c] \in Names(c) /\ ep[c] \in Endpoints BY <1>1 DEF Names
  <2>6. /\ key' \in [Clients -> [Endpoints -> Keys \cup {NoKey}]]
        /\ key'[c][ep[c]] = k /\ \A d \in Clients : d # c => key'[d] = key[d]
    BY <1>1, <2>4, <2>5
  <2>7. /\ at' \in [Clients -> {"idle", "hello", "pair", "pin", "answered", "up"}]
        /\ box' \in [Clients -> Oks \cup Answers]
        /\ \A d \in Clients : d # c => at'[d] = at[d] /\ box'[d] = box[d]
    BY <1>1, <1>2, <1>9 DEF EndsPairing
  <2>8. UNCHANGED <<others, hs, sess, cut, ep>>
    BY <1>9 DEF EndsPairing, others, handshake
  <2> QED BY <1>1, <1>2, <1>3, <2>1, <2>3, <2>6, <2>7, <2>8, Moving
<1>10. CASE EndsHello(c)
  <2>1. CASE Leave(c) BY <1>10, <2>1, Leaving DEF EndsHello, others
  <2>2. CASE /\ box[c] = Ok(key[c][ep[c]])
             /\ at' = [at EXCEPT ![c] = "up"] /\ box' = [box EXCEPT ![c] = Unread]
             /\ UNCHANGED <<hs, sess, cut>>
    <3>1. box[c] \in Oks BY <1>10 DEF EndsHello
    <3>2. cut[c] = "no" => sess.key = key[c][ep[c]] BY <1>3, <2>2, <3>1 DEF Ok
    <3>3. at'[c] = "up" /\ box'[c] = Unread BY <1>1, <2>2
    <3>4. /\ at' \in [Clients -> {"idle", "hello", "pair", "pin", "answered", "up"}]
          /\ box' \in [Clients -> Oks \cup Answers]
          /\ \A d \in Clients : d # c => at'[d] = at[d] /\ box'[d] = box[d]
      BY <1>1, <1>2, <2>2
    <3>5. UNCHANGED <<others, hs, sess, cut, ep, key>> BY <1>10, <2>2 DEF EndsHello, others
    <3> QED BY <1>1, <1>2, <1>3, <3>1, <3>2, <3>3, <3>4, <3>5, Moving
  <2> QED BY <1>10, <2>1, <2>2 DEF EndsHello
<1>12. CASE ReadsEnd(c)
  BY <1>12, Leaving DEF ReadsEnd, others
<1>11. CASE DeletesConnection(c)
  <2>1. at[c] = "idle" BY <1>11 DEF DeletesConnection
  <2>2. PICK e \in Endpoints : key' = [key EXCEPT ![c][e] = NoKey]
    BY <1>11 DEF DeletesConnection
  <2>3. /\ key' \in [Clients -> [Endpoints -> Keys \cup {NoKey}]]
        /\ \A d \in Clients : d # c => key'[d] = key[d]
    BY <1>1, <2>2
  <2>4. UNCHANGED <<others, hs, sess, cut, at, ep, box>>
    BY <1>11 DEF DeletesConnection, others, handshake, mail
  <2> QED BY <1>1, <1>3, <2>1, <2>3, <2>4, Moving
<1> QED BY <1>4, <1>5, <1>6, <1>7, <1>8, <1>9, <1>10, <1>11, <1>12

-----------------------------------------------------------------------------
(* The daemon. *)

HsType == [who : Clients \cup {Nobody}, gone : BOOLEAN,
           phase : {"none", "read", "answer", "save", "write", "confirm"}]
SessType == [who : Clients \cup {Nobody}, key : Keys \cup {NoKey}, open : BOOLEAN]

\* A handshake begins, goes on or ends, without a device being stored.
LEMMA Shaking ==
    ASSUME PairInv, up, UNCHANGED <<mem, disk, up, sess, tool, client, used, faults, history>>,
           prompt' \in BOOLEAN, hs' \in HsType, box' \in [Clients -> Oks \cup Answers],
           \A d \in Clients : box'[d] = box[d] \/ box'[d] \notin Oks,
           cut' \in [Clients -> Cuts],
           \A d \in Clients : cut'[d] = cut[d] \/ cut'[d] # "no",
           hs'.who # Nobody /\ ~hs'.gone => cut'[hs'.who] = "no",
           hs'.who # Nobody => sess.who = Nobody, hs'.who = Nobody => hs'.phase = "none",
           hs'.phase \notin {"save", "write", "confirm"}
    PROVE  PairInv'
<1> USE DEF disk, history, client
<1>1. PairTypeOK' BY DEF PairInv, PairTypeOK, Answers, Cuts, HsType
<1>2. OneAtATime' BY DEF PairInv, OneAtATime
<1>3. Backed' BY DEF PairInv, Backed
<1>4. AnswerWaits' BY DEF AnswerWaits
<1>5. Kept' /\ Out' BY DEF PairInv, Kept, Out, Loaded
<1> QED BY <1>1, <1>2, <1>3, <1>4, <1>5 DEF PairInv

\* A handshake ends in a session and an OK.
LEMMA Opening ==
    ASSUME PairInv, up, NEW c \in Clients, hs.who = c, c \notin banned,
           at[c] \in {"hello", "answered"}, mem[c] # NoKey,
           UNCHANGED <<mem, disk, up, tool, client, cut, used, faults, stale, banned>>,
           told' \in {told, [told EXCEPT ![c] = mem[c]]},
           told' # told /\ ~torn /\ ~stale => file[c] = mem[c],
           prompt' \in BOOLEAN, hs' = NoHandshake, box' = [box EXCEPT ![c] = Ok(mem[c])],
           sess' = [who |-> c, key |-> mem[c], open |-> TRUE]
    PROVE  PairInv'
<1> USE PairingAssumption DEF disk, client
<1>1. mem[c] \in Keys /\ sess.who = Nobody /\ c # Nobody
  BY DEF PairInv, PairTypeOK, OneAtATime, Nobody
<1>2. Ok(mem[c]) \in Oks BY <1>1, OkIsOk
<1>3. box \in [Clients -> Oks \cup Answers] BY DEF PairInv, PairTypeOK, Answers
<1>4. PairTypeOK'
  <2>1. box' \in [Clients -> Oks \cup Answers] BY <1>2, <1>3
  <2>2. sess' \in SessType BY <1>1 DEF SessType
  <2>3. hs' \in HsType BY DEF HsType, NoHandshake
  <2>4. told' \in [Clients -> Keys \cup {NoKey}] BY <1>1 DEF PairInv, PairTypeOK
  <2> QED BY <2>1, <2>2, <2>3, <2>4 DEF PairInv, PairTypeOK, Answers, HsType, SessType
<1>5. /\ hs'.who = Nobody /\ hs'.phase = "none"
      /\ sess'.who = c /\ sess'.open = TRUE /\ sess'.key = mem[c]
  BY DEF NoHandshake
<1>6. OneAtATime' BY <1>1, <1>5 DEF PairInv, OneAtATime
<1>7. Backed'
  <2>1. \A d \in Clients : /\ at[d] = "up" => cut[d] # "no"
                           /\ box[d] \in Oks => cut[d] # "no" /\ at[d] \in {"hello", "answered"}
    BY <1>1 DEF PairInv, Backed, OneAtATime
  <2>2. box'[c] = Ok(mem[c]) /\ \A d \in Clients : d # c => box'[d] = box[d] BY <1>3
  <2> QED BY <1>5, <2>1, <2>2 DEF Backed
<1>8. AnswerWaits' BY <1>5 DEF AnswerWaits
<1>9. Kept'
  <2>1. told' = told \/ (told' # told /\ \A d \in Clients :
                            told'[d] = IF d = c THEN mem[c] ELSE told[d])
    BY DEF PairInv, PairTypeOK
  <2> QED BY <1>5, <2>1 DEF PairInv, Kept, Loaded
<1>10. Out' BY <1>5 DEF PairInv, Out
<1> QED BY <1>4, <1>6, <1>7, <1>8, <1>9, <1>10 DEF PairInv

LEMMA ServeStep ==
    ASSUME PairInv, NEW c \in Clients, Serve(c) PROVE PairInv'
<1> USE DEF Reply
<1>1. /\ box \in [Clients -> Oks \cup Answers] /\ hs \in HsType /\ prompt \in BOOLEAN
      /\ mem \in [Clients -> Keys \cup {NoKey}]
      /\ cut \in [Clients -> Cuts]
      /\ \A d \in Clients : [cut EXCEPT ![d] = "yes"] \in [Clients -> Cuts]
  BY DEF PairInv, PairTypeOK, Answers, Cuts, HsType
<1>2. /\ \A a \in Answers : a \notin Oks
      /\ {<<"busy">>, <<"reject">>, <<"pin">>} \subseteq Answers
  BY OnlyOkIsOk DEF Answers
<1>3. NoHandshake \in HsType /\ NoHandshake.who = Nobody /\ NoHandshake.phase = "none"
  BY DEF NoHandshake, HsType
<1>4. c # Nobody BY PairingAssumption DEF Nobody
<1>5. hs.who = c => sess.who = Nobody /\ (~hs.gone => cut[c] = "no")
  BY <1>4 DEF PairInv, OneAtATime
<1>6. CASE Accept(c)
  <2>1. CASE /\ sess.who # Nobody /\ Reply(c, <<"busy">>) /\ UNCHANGED hs
             /\ cut' = [cut EXCEPT ![c] = "yes"]
    <3>1. /\ box' \in [Clients -> Oks \cup Answers] /\ cut' \in [Clients -> Cuts]
          /\ \A d \in Clients : box'[d] = box[d] \/ box'[d] \notin Oks
          /\ \A d \in Clients : cut'[d] = cut[d] \/ cut'[d] # "no"
      BY <1>1, <1>2, <2>1
    <3>2. hs.who = Nobody /\ hs.phase = "none" BY <1>6 DEF Accept, PairInv, OneAtATime
    <3>3. hs'.who = Nobody BY <2>1, <3>2
    <3> QED BY <1>1, <3>3, <1>6, <2>1, <3>1, <3>2, Shaking DEF Accept
  <2>2. CASE /\ sess.who = Nobody /\ UNCHANGED <<box, cut>>
             /\ hs' = [NoHandshake EXCEPT !.who = c, !.phase = "read"]
    <3>1. hs' \in HsType /\ hs'.who = c /\ hs'.phase = "read"
      BY <2>2 DEF NoHandshake, HsType
    <3> QED BY <1>1, <1>4, <1>6, <2>2, <3>1, Shaking DEF Accept
  <2> QED BY <1>6, <2>1, <2>2 DEF Accept, mail
<1>7. CASE ReadsHello(c)
  <2>1. /\ up /\ hs.who = c /\ hs.phase = "read" /\ at[c] = "hello" /\ prompt' \in BOOLEAN
        /\ UNCHANGED <<mem, disk, up, tool, client, cut, used, faults, history>>
    BY <1>1, <1>7 DEF ReadsHello, Reads
  <2>2. CASE mem[c] = NoKey /\ Reply(c, <<"reject">>) /\ UNCHANGED <<hs, sess>>
    <3>1. /\ box' \in [Clients -> Oks \cup Answers]
          /\ \A d \in Clients : box'[d] = box[d] \/ box'[d] \notin Oks
      BY <1>1, <1>2, <2>2
    <3> QED BY <1>1, <1>4, <1>5, <2>1, <2>2, <3>1, Shaking
  <2>3. CASE /\ mem[c] # NoKey /\ Reply(c, Ok(mem[c])) /\ hs' = NoHandshake
             /\ sess' = [who |-> c, key |-> mem[c], open |-> TRUE]
    <3>1. c \notin banned BY <2>3 DEF PairInv, Out
    <3>2. UNCHANGED <<told, stale, banned>> BY <2>1 DEF history
    <3> QED BY <2>1, <2>3, <3>1, <3>2, Opening
  <2> QED BY <1>7, <2>2, <2>3 DEF ReadsHello
<1>8. CASE ReadsPair(c)
  <2>1. /\ box' \in [Clients -> Oks \cup Answers]
        /\ \A d \in Clients : box'[d] = box[d] \/ box'[d] \notin Oks
    BY <1>1, <1>2, <1>8 DEF ReadsPair
  <2>2. hs.who = c /\ hs' = [hs EXCEPT !.phase = "answer"] /\ up
    BY <1>8 DEF ReadsPair, Reads
  <2>3. hs' \in HsType /\ hs'.who = c /\ hs'.phase = "answer" BY <1>1, <2>2 DEF HsType
  <2>4. hs'.gone = hs.gone BY <1>1, <2>2 DEF HsType
  <2>5. cut' = cut BY <1>8 DEF ReadsPair
  <2> QED BY <1>1, <1>4, <1>5, <1>8, <2>1, <2>2, <2>3, <2>4, <2>5, Shaking DEF ReadsPair
<1>9. CASE ReadsAnswer(c)
  <2>1. /\ up /\ hs.who = c /\ hs.phase = "answer" /\ ~hs.gone /\ at[c] = "answered"
        /\ UNCHANGED <<disk, up, sess, tool, client, faults, stale>>
    BY <1>9 DEF ReadsAnswer, ReadsAnswerThen, Reads
  <2>2. CASE /\ Reply(c, <<"reject">>) /\ cut' = [cut EXCEPT ![c] = "yes"]
             /\ hs' = NoHandshake /\ prompt' = FALSE
             /\ UNCHANGED <<mem, used, told, banned>>
    <3>1. /\ box' \in [Clients -> Oks \cup Answers] /\ cut' \in [Clients -> Cuts]
          /\ \A d \in Clients : box'[d] = box[d] \/ box'[d] \notin Oks
          /\ \A d \in Clients : cut'[d] = cut[d] \/ cut'[d] # "no"
      BY <1>1, <1>2, <2>2
    <3> QED BY <1>3, <2>1, <2>2, <3>1, Shaking DEF history
  <2>3. CASE /\ used < MaxPairings /\ used' = used + 1
             /\ mem' = [mem EXCEPT ![c] = used']
             /\ hs' = [hs EXCEPT !.phase = "save"]
             /\ banned' = banned \ {c} /\ told' = [told EXCEPT ![c] = NoKey]
             /\ UNCHANGED <<prompt, mail>>
    <3> USE DEF client, disk, mail
    <3>1. used' \in Keys /\ used' \in 0..MaxPairings /\ used' # NoKey
      BY <2>3, PairingAssumption DEF PairInv, PairTypeOK, Keys, NoKey
    <3>2. hs' \in HsType /\ hs'.who = c /\ hs'.phase = "save" /\ ~hs'.gone
      <4>1. hs' \in HsType /\ hs'.who = c /\ hs'.phase = "save" /\ hs'.gone = hs.gone
        BY <1>1, <2>1, <2>3 DEF HsType
      <4> QED BY <2>1, <4>1, Zenon
    <3>3. /\ mem' \in [Clients -> Keys \cup {NoKey}] /\ mem'[c] = used'
          /\ \A d \in Clients : d # c => mem'[d] = mem[d]
      BY <1>1, <2>3, <3>1
    <3>4. /\ told' \in [Clients -> Keys \cup {NoKey}] /\ told'[c] = NoKey
          /\ \A d \in Clients : d # c => told'[d] = told[d]
      BY <2>3 DEF PairInv, PairTypeOK
    <3>5. PairTypeOK' BY <2>1, <2>3, <3>1, <3>2, <3>3, <3>4 DEF PairInv, PairTypeOK, HsType
    <3>6. OneAtATime' BY <1>4, <1>5, <2>1, <2>3, <3>2 DEF PairInv, OneAtATime
    <3>7. Backed' BY <2>1, <2>3 DEF PairInv, Backed
    <3>8. AnswerWaits' BY <2>1, <3>1, <3>2, <3>3 DEF AnswerWaits
    <3>9. Kept' BY <2>1, <2>3, <3>2, <3>3, <3>4 DEF PairInv, Kept, Loaded
    <3>10. Out' BY <2>1, <2>3, <3>2, <3>3 DEF PairInv, Out, PairTypeOK
    <3> QED BY <3>5, <3>6, <3>7, <3>8, <3>9, <3>10 DEF PairInv
  <2> QED BY <1>9, <2>2, <2>3 DEF ReadsAnswer, ReadsAnswerThen
<1>10. CASE Confirms(c)
  <2>1. /\ up /\ hs.who = c /\ hs.phase = "confirm" /\ hs' = NoHandshake /\ prompt' = FALSE
        /\ UNCHANGED <<mem, disk, up, tool, client, cut, used, faults, stale, banned>>
    BY <1>10 DEF Confirms
  <2>2. CASE UNCHANGED <<box, sess, told>>
    <3>1. UNCHANGED history BY <2>1, <2>2 DEF history
    <3> QED BY <1>1, <1>3, <2>1, <2>2, <3>1, Shaking
  <2>3. CASE /\ ~hs.gone /\ Reply(c, Ok(mem[c]))
             /\ sess' = [who |-> c, key |-> mem[c], open |-> TRUE]
             /\ told' = [told EXCEPT ![c] = mem[c]]
    <3>1. mem[c] # NoKey /\ at[c] = "answered" BY <2>1, <2>3 DEF PairInv, AnswerWaits
    <3>2. c \notin banned BY <2>1 DEF PairInv, Out
    <3>3. ~torn /\ ~stale => file[c] = mem[c] BY <2>1 DEF PairInv, Kept
    <3> QED BY <2>1, <2>3, <3>1, <3>2, <3>3, Opening
  <2> QED BY <1>10, <2>2, <2>3 DEF Confirms
<1> QED BY <1>6, <1>7, <1>8, <1>9, <1>10 DEF Serve

LEMMA SavingStep ==
    ASSUME PairInv, SaveBegins \/ SaveEnds \/ SaveFails PROVE PairInv'
<1> USE DEF client, mail
<1>1. /\ up /\ hs.phase \in {"save", "write"}
      /\ UNCHANGED <<mem, up, prompt, sess, tool, client, mail, used, told, banned>>
      /\ hs' \in {[hs EXCEPT !.phase = "write"], [hs EXCEPT !.phase = "confirm"]}
      /\ faults' \in 0..MaxFaults
  BY PairingAssumption DEF SaveBegins, SaveEnds, SaveFails, history, PairInv, PairTypeOK
<1>2. /\ hs' \in HsType /\ hs'.who = hs.who /\ hs'.phase \in {"write", "confirm"}
      /\ hs'.gone = hs.gone /\ hs.who \in Clients
  BY <1>1 DEF PairInv, PairTypeOK, OneAtATime, HsType
<1>3. /\ file' \in {file, mem} /\ torn' \in BOOLEAN /\ stale' \in BOOLEAN
      /\ \/ torn' = TRUE
         \/ file' = mem /\ torn' = FALSE /\ stale' = FALSE
         \/ stale' = TRUE
  <2> USE DEF disk, history, PairInv, PairTypeOK
  <2>1. CASE SaveBegins BY <2>1 DEF SaveBegins
  <2>2. CASE SaveEnds BY <2>2 DEF SaveEnds
  <2>3. CASE SaveFails BY <2>3 DEF SaveFails
  <2> QED BY <2>1, <2>2, <2>3
<1>4. PairTypeOK' BY <1>1, <1>2, <1>3 DEF PairInv, PairTypeOK, HsType
<1>5. OneAtATime' BY <1>1, <1>2 DEF PairInv, OneAtATime
<1>6. Backed' BY <1>1 DEF PairInv, Backed
<1>7. AnswerWaits' BY <1>1, <1>2, Zenon DEF PairInv, AnswerWaits
<1>8. Kept' BY <1>1, <1>2, <1>3 DEF PairInv, Kept
<1>9. Out'
  <2>1. file' \in {file, mem} /\ (torn' \/ file' = mem \/ torn' = torn)
    BY DEF SaveBegins, SaveEnds, SaveFails, disk
  <2> QED BY <1>1, <1>2, <2>1 DEF PairInv, Out
<1> QED BY <1>4, <1>5, <1>6, <1>7, <1>8, <1>9 DEF PairInv

\* The daemon drops its session, or closes the socket of one that it dropped.
LEMMA SessionEndsStep ==
    ASSUME PairInv, SessionEnds \/ \E c \in Clients : LoopReturns(c) PROVE PairInv'
<1> USE PairingAssumption DEF client, handshake, disk, history
<1>1. /\ up /\ UNCHANGED <<mem, disk, up, handshake, tool, client, box, used, faults, history>>
      /\ cut \in [Clients -> Cuts]
  BY DEF SessionEnds, LoopReturns, PairInv, PairTypeOK, Cuts
<1>2. CASE SessionEnds
  <2>1. sess.who \in Clients /\ hs.who = Nobody /\ sess' = NoSession /\ hs.phase = "none"
    BY <1>2 DEF SessionEnds, PairInv, PairTypeOK, OneAtATime
  <2>2. sess'.who = Nobody /\ sess'.open = FALSE /\ sess' \in SessType
    BY <2>1 DEF NoSession, SessType
  <2>3. /\ cut' \in [Clients -> Cuts]
        /\ sess.open => cut'[sess.who] # "no"
        /\ \A d \in Clients : cut'[d] = cut[d] \/ cut'[d] # "no"
    BY <1>1, <1>2, <2>1 DEF SessionEnds, Cuts
  <2>4. PairTypeOK' BY <1>1, <2>2, <2>3 DEF PairInv, PairTypeOK, SessType, Cuts
  <2>5. OneAtATime' BY <1>1, <2>1, <2>2 DEF PairInv, OneAtATime
  <2>6. Backed' BY <1>1, <2>3 DEF PairInv, Backed
  <2>7. AnswerWaits' BY <1>1, <2>1 DEF AnswerWaits
  <2>8. Kept' BY <1>1 DEF PairInv, Kept, Loaded
  <2>9. Out'
    <3>1. \A c \in banned : c # Nobody BY DEF PairInv, PairTypeOK, Nobody
    <3> QED BY <1>1, <2>2, <3>1 DEF PairInv, Out
  <2> QED BY <2>4, <2>5, <2>6, <2>7, <2>8, <2>9 DEF PairInv
<1>3. CASE \E c \in Clients : LoopReturns(c)
  <2>1. PICK c \in Clients : LoopReturns(c) BY <1>3
  <2>2. /\ sess' = sess /\ cut' \in [Clients -> Cuts]
        /\ \A d \in Clients : cut'[d] = cut[d] \/ cut'[d] # "no"
        /\ cut[c] # "no" /\ \A d \in Clients : d # c => cut'[d] = cut[d]
    BY <1>1, <2>1 DEF LoopReturns, Cuts
  <2>3. PairTypeOK' BY <1>1, <2>2 DEF PairInv, PairTypeOK, Cuts
  <2>4. OneAtATime' BY <1>1, <2>2 DEF PairInv, OneAtATime, PairTypeOK
  <2>7. AnswerWaits' BY <1>1 DEF PairInv, AnswerWaits
  <2>5. Backed' BY <1>1, <2>2 DEF PairInv, Backed
  <2>6. Kept' /\ Out' BY <1>1, <2>2 DEF PairInv, Kept, Out, Loaded
  <2> QED BY <2>3, <2>4, <2>5, <2>6, <2>7 DEF PairInv
<1> QED BY <1>2, <1>3

-----------------------------------------------------------------------------
(* Crashes, restarts, and the other process. *)

LEMMA DiesStep ==
    ASSUME PairInv, DaemonDies PROVE PairInv'
<1> USE PairingAssumption DEF DaemonDies, disk, client
<1>1. /\ cut' \in [Clients -> Cuts]
      /\ \A d \in Clients : at[d] # "idle" => cut'[d] # "no"
  BY DEF Cuts
<1>2. /\ hs'.who = Nobody /\ hs'.phase = "none" /\ hs' \in HsType
      /\ sess'.who = Nobody /\ sess'.open = FALSE /\ sess' \in SessType
  BY DEF NoHandshake, NoSession, HsType, SessType
<1>3. /\ mem' \in [Clients -> Keys \cup {NoKey}] /\ told' \in [Clients -> Keys \cup {NoKey}]
      /\ up' \in BOOLEAN /\ prompt' \in BOOLEAN /\ faults' \in 0..MaxFaults
  <2>1. Empty \in [Clients -> Keys \cup {NoKey}] BY DEF Empty
  <2>2. told' \in {Empty, told} /\ mem' = Empty OBVIOUS
  <2>3. faults' \in 0..MaxFaults BY DEF PairInv, PairTypeOK
  <2> QED BY <2>1, <2>2, <2>3 DEF PairInv, PairTypeOK
<1>4. PairTypeOK' BY <1>1, <1>2, <1>3 DEF PairInv, PairTypeOK, Cuts, HsType, SessType
<1>5. OneAtATime' BY <1>2 DEF OneAtATime
<1>6. Backed' BY <1>1 DEF PairInv, Backed
<1>7. AnswerWaits' BY <1>2 DEF AnswerWaits
<1>8. Kept' BY <1>2 DEF PairInv, Kept, Empty
<1>9. Out'
  <2>1. \A c \in banned : c # Nobody /\ c \in Clients BY DEF PairInv, PairTypeOK, Nobody
  <2> QED BY <1>2, <2>1 DEF PairInv, Out, Empty
<1> QED BY <1>4, <1>5, <1>6, <1>7, <1>8, <1>9 DEF PairInv

LEMMA LoadedIsTyped ==
    ASSUME PairInv
    PROVE  Loaded \in [Clients -> Keys \cup {NoKey}] /\ \A c \in banned : Loaded[c] = NoKey
BY DEF PairInv, PairTypeOK, Out, Loaded, Empty

LEMMA StartsStep ==
    ASSUME PairInv, DaemonStarts PROVE PairInv'
<1> USE DEF DaemonStarts, disk, handshake, client, mail, history
<1>1. hs.phase = "none" /\ ~up /\ up' = TRUE BY DEF PairInv, OneAtATime, NoHandshake
<1>2. /\ tool' \in [phase : {"none", "loaded", "raced"}, copy : [Clients -> Keys \cup {NoKey}]]
      /\ tool'.phase # "loaded"
      /\ tool'.copy = tool.copy /\ (tool'.phase # "none" => tool.phase # "none")
  <2>1. tool \in [phase : {"none", "loaded", "raced"}, copy : [Clients -> Keys \cup {NoKey}]]
    BY DEF PairInv, PairTypeOK
  <2>2. CASE tool.phase = "none" /\ tool' = tool BY <2>1, <2>2
  <2>3. CASE tool.phase # "none" /\ tool' = [tool EXCEPT !.phase = "raced"] BY <2>1, <2>3
  <2> QED BY <2>2, <2>3
<1>3. PairTypeOK'
  <2>1. mem' \in [Clients -> Keys \cup {NoKey}] /\ up' \in BOOLEAN BY LoadedIsTyped
  <2>2. UNCHANGED <<file, torn, prompt, hs, sess, at, ep, key, box, cut, used, faults,
                    told, stale, banned>>
    OBVIOUS
  <2> HIDE DEF DaemonStarts
  <2> QED BY <1>2, <2>1, <2>2 DEF PairInv, PairTypeOK
<1>4. OneAtATime' BY DEF PairInv, OneAtATime
<1>5. Backed' BY DEF PairInv, Backed
<1>6. AnswerWaits' BY <1>1 DEF AnswerWaits
<1>7. Kept' BY <1>1, <1>2 DEF PairInv, Kept, Loaded, Empty
<1>8. Out' BY <1>2, LoadedIsTyped DEF PairInv, Out
<1> QED BY <1>3, <1>4, <1>5, <1>6, <1>7, <1>8 DEF PairInv

LEMMA ToolStep ==
    ASSUME PairInv, UnpairLoads \/ UnpairSaves \/ UnpairFindsNothing PROVE PairInv'
<1> USE PairingAssumption DEF disk, handshake, client, mail, history
<1>1. tool \in [phase : {"none", "loaded", "raced"}, copy : [Clients -> Keys \cup {NoKey}]]
  BY DEF PairInv, PairTypeOK
<1>2. UNCHANGED <<mem, up, hs, prompt, sess, at, ep, key, box, cut, used>>
  BY DEF UnpairLoads, UnpairSaves, UnpairFindsNothing
<1>3. OneAtATime' /\ Backed' /\ AnswerWaits'
  BY <1>2 DEF PairInv, OneAtATime, Backed, AnswerWaits
<1>4. CASE UnpairLoads
  <2>1. tool' = [phase |-> IF up THEN "raced" ELSE "loaded", copy |-> Loaded]
    BY <1>4 DEF UnpairLoads
  <2>2. /\ tool' \in [phase : {"none", "loaded", "raced"}, copy : [Clients -> Keys \cup {NoKey}]]
        /\ \A c \in banned : tool'.copy[c] = NoKey
    BY <2>1, LoadedIsTyped
  <2>3. UNCHANGED <<file, torn, told, stale, banned>> /\ faults' \in 0..MaxFaults
    BY <1>4 DEF UnpairLoads, PairInv, PairTypeOK
  <2>4. PairTypeOK' BY <1>2, <2>2, <2>3 DEF PairInv, PairTypeOK
  <2>5. Kept' BY <1>2, <2>1, <2>3 DEF PairInv, Kept, Loaded
  <2>6. Out' BY <1>2, <2>2, <2>3 DEF PairInv, Out
  <2> QED BY <1>3, <2>4, <2>5, <2>6 DEF PairInv
<1>5. CASE UnpairSaves
  <2>1. PICK gone \in {{c} : c \in {d \in Clients : tool.copy[d] # NoKey}} \cup {Clients} :
          /\ file' = [c \in Clients |-> IF c \in gone THEN NoKey ELSE tool.copy[c]]
          /\ torn' = FALSE
          /\ IF tool.phase = "loaded"
             THEN /\ banned' = banned \cup gone /\ UNCHANGED stale
                  /\ told' = [c \in Clients |-> IF c \in gone THEN NoKey ELSE told[c]]
             ELSE /\ stale' = up /\ told' = IF up THEN told ELSE Empty
                  /\ UNCHANGED banned
    BY <1>5 DEF UnpairSaves
  <2>2. gone \subseteq Clients OBVIOUS
  <2>3. /\ tool.phase # "none" /\ tool'.phase = "none" /\ faults' = faults
        /\ tool' \in [phase : {"none", "loaded", "raced"}, copy : [Clients -> Keys \cup {NoKey}]]
    BY <1>1, <1>5 DEF UnpairSaves
  <2>4. file' \in [Clients -> Keys \cup {NoKey}] BY <1>1, <2>1
  <2>5. /\ told' \in [Clients -> Keys \cup {NoKey}] /\ stale' \in BOOLEAN
        /\ \A c \in Clients : told'[c] \in {told[c], NoKey}
    <3>1. Empty \in [Clients -> Keys \cup {NoKey}] /\ \A c \in Clients : Empty[c] = NoKey
      BY DEF Empty
    <3> QED BY <2>1, <3>1 DEF PairInv, PairTypeOK
  <2>6. PairTypeOK' BY <1>2, <2>1, <2>2, <2>3, <2>4, <2>5 DEF PairInv, PairTypeOK
  <2>7. Kept'
    <3>1. CASE tool.phase = "loaded"
      <4>1. ~up /\ ~stale /\ stale' = FALSE /\ tool.copy = Loaded
        BY <2>1, <3>1 DEF PairInv, Kept
      <4>2. \A c \in Clients : told[c] # NoKey => tool.copy[c] = told[c]
        BY <4>1 DEF PairInv, Kept, Loaded, Empty
      <4>3. \A c \in Clients : told'[c] # NoKey => file'[c] = told'[c]
        BY <2>1, <3>1, <4>2
      <4>4. hs.phase = "none" BY <4>1 DEF PairInv, OneAtATime, NoHandshake
      <4> QED BY <1>2, <2>1, <2>3, <4>1, <4>3, <4>4 DEF Kept
    <3>2. CASE tool.phase # "loaded" /\ up
      BY <1>2, <2>1, <2>3, <3>2 DEF PairInv, Kept
    <3>3. CASE tool.phase # "loaded" /\ ~up
      <4>1. told' = Empty /\ stale' = FALSE /\ torn' = FALSE BY <2>1, <3>3
      <4>2. hs.phase = "none" BY <3>3 DEF PairInv, OneAtATime, NoHandshake
      <4> QED BY <1>2, <2>3, <3>3, <4>1, <4>2 DEF Kept, Empty
    <3> QED BY <3>1, <3>2, <3>3
  <2>8. Out'
    <3> SUFFICES ASSUME NEW c \in banned'
                 PROVE  /\ mem[c] = NoKey /\ sess.who # c /\ file'[c] = NoKey
                        /\ hs.who = c => hs.phase \notin {"save", "write", "confirm"}
      BY <1>2, <2>3 DEF Out
    <3>1. c \in Clients BY <2>1, <2>2 DEF PairInv, PairTypeOK
    <3>2. CASE c \in banned
      BY <2>1, <2>3, <3>1, <3>2 DEF PairInv, Out
    <3>3. CASE tool.phase = "loaded" /\ c \in gone
      <4>0. ~up BY <3>3 DEF PairInv, Kept
      <4>1. mem[c] = NoKey /\ sess.who = Nobody /\ hs.phase = "none"
        BY <3>1, <4>0 DEF PairInv, OneAtATime, NoHandshake, NoSession, Empty
      <4> QED BY <2>1, <3>1, <3>3, <4>1 DEF Nobody
    <3> QED BY <2>1, <3>2, <3>3
  <2> QED BY <1>3, <2>6, <2>7, <2>8 DEF PairInv
<1>6. CASE UnpairFindsNothing
  <2>1. /\ tool'.phase = "none" /\ UNCHANGED <<file, torn, told, stale, banned, faults>>
        /\ tool' \in [phase : {"none", "loaded", "raced"}, copy : [Clients -> Keys \cup {NoKey}]]
    BY <1>1, <1>6 DEF UnpairFindsNothing
  <2>2. PairTypeOK' BY <1>2, <2>1 DEF PairInv, PairTypeOK
  <2>3. Kept' /\ Out' BY <1>2, <2>1 DEF PairInv, Kept, Out, Loaded
  <2> QED BY <1>3, <2>2, <2>3 DEF PairInv
<1> QED BY <1>4, <1>5, <1>6

-----------------------------------------------------------------------------
(* The theorems. *)

LEMMA PairInvKept == PairInv /\ [PairNext]_pairVars => PairInv'
<1> SUFFICES ASSUME PairInv, [PairNext]_pairVars PROVE PairInv' OBVIOUS
<1>1. CASE UNCHANGED pairVars
  <2>1. UNCHANGED <<mem, disk, up, hs, prompt, sess, tool, at, ep, key, box, cut, used, faults, history>>
    BY <1>1 DEF pairVars, handshake, client, mail
  <2>2. PairTypeOK' BY <2>1 DEF PairInv, PairTypeOK, disk, history
  <2>3. OneAtATime' /\ Backed' /\ AnswerWaits'
    BY <2>1 DEF PairInv, OneAtATime, Backed, AnswerWaits
  <2>4. Kept' /\ Out' BY <2>1 DEF PairInv, Kept, Out, Loaded, disk, history
  <2> QED BY <2>2, <2>3, <2>4 DEF PairInv
<1>2. CASE HandshakeFails
  <2>1. /\ hs.phase \in {"read", "answer"} /\ up /\ hs' = NoHandshake /\ prompt' = FALSE
        /\ cut' = IF hs.gone THEN cut ELSE [cut EXCEPT ![hs.who] = "yes"]
        /\ UNCHANGED <<mem, disk, up, sess, tool, client, box, used, faults, history>>
    BY <1>2 DEF HandshakeFails, Fails
  <2>2. hs.who \in Clients /\ box \in [Clients -> Oks \cup Answers] /\ cut \in [Clients -> Cuts]
    BY <2>1 DEF PairInv, PairTypeOK, OneAtATime, Answers, Cuts
  <2>4. /\ cut' \in [Clients -> Cuts]
        /\ \A d \in Clients : cut'[d] = cut[d] \/ cut'[d] # "no"
    BY <2>1, <2>2 DEF Cuts
  <2>5. hs' \in HsType /\ hs'.who = Nobody /\ hs'.phase = "none"
    BY <2>1 DEF NoHandshake, HsType
  <2> QED BY <2>1, <2>2, <2>4, <2>5, Shaking
<1> QED BY <1>1, <1>2, ClientStep, ServeStep, SavingStep, SessionEndsStep, DiesStep,
        StartsStep, ToolStep DEF PairNext

\* The inductive invariant of the two sides, the disk and the tool.
THEOREM PairInvariant == PairSpec => []PairInv
BY PairInit1, PairInvKept, PTL DEF PairSpec

\* A client that is up, and that the daemon has neither dropped nor died on, uses
\* the pairing key of the daemon's session, whatever was re-paired, unpaired,
\* deleted, lost in a crash or left in the middle (run_pairing_server, hello_flow).
THEOREM KeysOfSessionAgree == PairSpec => []SessionKeysAgree
<1>1. PairInv => SessionKeysAgree BY DEF PairInv, Backed, SessionKeysAgree
<1> QED BY <1>1, PairInvariant, PTL

\* A device that was told OK after its PIN is in the daemon's file and memory with
\* that key, unless the file is being written, or is stale because a save failed or
\* the tool wrote over it (store_device before SCREX_OK in handle_pair_request).
THEOREM ConfirmedIsDurable == PairSpec => []OkIsDurable
<1>1. PairInv => OkIsDurable BY DEF PairInv, Kept, OkIsDurable
<1> QED BY <1>1, PairInvariant, PTL

\* A device unpaired while no daemon ran is not served before it pairs again.
THEOREM UnpairedIsRefused == PairSpec => []UnpairedStaysOut
<1>1. PairInv => UnpairedStaysOut BY DEF PairInv, Out, UnpairedStaysOut
<1> QED BY <1>1, PairInvariant, PTL

\* The types of the daemon's, the tool's and the clients' state.
THEOREM PairingTyped == PairSpec => []PairTypeOK
<1>1. PairInv => PairTypeOK BY DEF PairInv
<1> QED BY <1>1, PairInvariant, PTL
=============================================================================
