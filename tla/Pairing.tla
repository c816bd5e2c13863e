------------------------------- MODULE Pairing -------------------------------
(***************************************************************************)
(* Trust between clients and the daemon: the handshakes over TCP (PAIR with *)
(* a PIN, HELLO with a stored key), the paired devices in the daemon's      *)
(* memory and in its file, `screx unpair`, a process of its own that        *)
(* rewrites that file, and the keys that a client stores per endpoint.      *)
(* A key is a number: both sides derive the same session key exactly when   *)
(* they use the same pairing key.  A session is what a handshake ends in;   *)
(* SessionGate models what it does then.                                    *)
(***************************************************************************)
EXTENDS Naturals

CONSTANTS Clients,    \* devices, by their device id
          Retrying,   \* those that answer a REJECT with PAIR on the same socket
          Endpoints,  \* names under which a client reaches the daemon
          MaxPairings,\* bound: keys that are derived
          MaxFaults   \* bound: crashes, failed writes and unpairings

ASSUME PairingAssumption ==
    /\ Retrying \subseteq Clients
    /\ MaxPairings \in Nat /\ MaxFaults \in Nat
    /\ "nobody" \notin Clients

Keys   == 1..MaxPairings
NoKey  == 0
Nobody == "nobody"
Ok(k)  == <<"ok", k>>
Oks    == {Ok(k) : k \in Keys}
Unread == <<>>              \* no answer is waiting
Empty  == [c \in Clients |-> NoKey]

VARIABLES
    mem, file,   \* paired_devices: of the running daemon, on the disk
    torn,        \* the file was truncated and not yet written, or never
    up,          \* the daemon runs
    hs,          \* the handshake it is in: [who, phase, gone]
    prompt,      \* pairing_prompt is shown
    sess,        \* the session: [who, key, open]
    tool,        \* `screx unpair`: [phase, copy]
    at, ep,      \* per client: where it is, the endpoint it dialled
    key,         \* per client and endpoint: the stored pairing key
    box,         \* per client: the daemon's answer it has not read
    cut,         \* per client: the daemon closed its socket, or is about to
    used,        \* keys derived so far
    faults,
    told,        \* history: the key of the last pairing OK sent to a client
    stale,       \* history: since its last save by the daemon, a save failed
                 \* or the tool wrote over the running daemon's file
    banned       \* history: unpaired while no daemon ran, not paired since

disk      == <<file, torn>>
handshake == <<hs, prompt>>
client    == <<at, ep, key>>
mail      == <<box, cut>>
history   == <<told, stale, banned>>
pairVars  == <<mem, disk, up, handshake, sess, tool, client, mail, used, faults, history>>

NoHandshake == [who |-> Nobody, phase |-> "none", gone |-> FALSE]
NoSession   == [who |-> Nobody, key |-> NoKey, open |-> FALSE]

PairInit ==
    /\ mem = Empty /\ file = Empty /\ torn = FALSE /\ up = TRUE
    /\ hs = NoHandshake /\ prompt = FALSE /\ sess = NoSession
    /\ tool = [phase |-> "none", copy |-> Empty]
    /\ at = [c \in Clients |-> "idle"] /\ ep \in [Clients -> Endpoints]
    /\ key = [c \in Clients |-> [e \in Endpoints |-> NoKey]]
    /\ box = [c \in Clients |-> Unread] /\ cut = [c \in Clients |-> "no"]
    /\ used = 0 /\ faults = 0 /\ told = Empty /\ stale = FALSE /\ banned = {}

-----------------------------------------------------------------------------
(* The client: establish_session, pair_flow, complete_pairing, hello_flow.  *)

Move(c, from, to) == at[c] = from /\ at' = [at EXCEPT ![c] = to]

\* A stored key is tried with HELLO; without one the device pairs.
Dial(c) ==
    /\ up
    /\ \E e \in Endpoints :
         /\ ep' = [ep EXCEPT ![c] = e]
         /\ Move(c, "idle", IF key[c][e] # NoKey THEN "hello" ELSE "pair")
    /\ UNCHANGED <<mem, disk, up, handshake, sess, tool, key, mail, used, faults, history>>

Waits(c) == at[c] \in {"hello", "pair", "pin", "answered"}

\* The socket is closed: the daemon learns it when it reads or writes next.
Leave(c) ==
    /\ at' = [at EXCEPT ![c] = "idle"]
    /\ box' = [box EXCEPT ![c] = Unread] /\ cut' = [cut EXCEPT ![c] = "no"]
    /\ hs' = IF hs.who = c THEN [hs EXCEPT !.gone = TRUE] ELSE hs
    /\ sess' = IF sess.who = c THEN [sess EXCEPT !.open = FALSE] ELSE sess

\* The user gives up, quits, or the connection is lost.
ClientLeaves(c) ==
    /\ at[c] # "idle" /\ Leave(c)
    /\ UNCHANGED <<mem, disk, up, prompt, tool, ep, key, used, faults, history>>

\* BUSY, a REJECT that is not retried, or the end of the stream.
ClientIsRefused(c) ==
    /\ Waits(c)
    /\ \/ box[c] = <<"busy">>
       \/ box[c] = Unread /\ cut[c] = "yes"
       \/ box[c] = <<"reject">> /\ ~(c \in Retrying /\ at[c] = "hello")
    /\ Leave(c)
    /\ UNCHANGED <<mem, disk, up, prompt, tool, ep, key, used, faults, history>>

\* The iPad's answer to a REJECT: its key is stale, it pairs on this socket.  It
\* deletes the key stored under the address, not the one under the daemon's id.
RetriesAsPair(c) ==
    /\ c \in Retrying /\ box[c] = <<"reject">> /\ Move(c, "hello", "pair")
    /\ box' = [box EXCEPT ![c] = Unread]
    /\ UNCHANGED <<mem, disk, up, handshake, sess, tool, ep, key, cut, used, faults, history>>

AsksForPin(c) ==
    /\ box[c] = <<"pin">> /\ Move(c, "pair", "pin")
    /\ box' = [box EXCEPT ![c] = Unread]
    /\ UNCHANGED <<mem, disk, up, handshake, sess, tool, ep, key, cut, used, faults, history>>

SendsAnswer(c) ==
    /\ Move(c, "pin", "answered")
    /\ UNCHANGED <<mem, disk, up, handshake, sess, tool, ep, key, mail, used, faults, history>>

\* The names under which a key is stored: the iPad's one is the daemon's id.
Names(c) == IF c \in Retrying THEN Endpoints ELSE {ep[c]}

\* OK after a PIN: the key is stored before the daemon's proof is checked.
EndsPairing(c) ==
    /\ at[c] = "answered" /\ box[c] \in Oks
    /\ key' = [key EXCEPT ![c] = [e \in Endpoints |-> IF e \in Names(c) THEN box[c][2]
                                                      ELSE key[c][e]]]
    /\ at' = [at EXCEPT ![c] = "up"] /\ box' = [box EXCEPT ![c] = Unread]
    /\ UNCHANGED <<mem, disk, up, handshake, sess, tool, ep, cut, used, faults, history>>

\* Mutated EndsHello: the daemon's proof is not checked.
EndsHelloUnproved(c) ==
    /\ at[c] = "hello" /\ box[c] \in Oks
    /\ at' = [at EXCEPT ![c] = "up"] /\ box' = [box EXCEPT ![c] = Unread]
    /\ UNCHANGED <<mem, disk, up, handshake, sess, tool, ep, key, cut, used, faults, history>>

\* OK after HELLO: the daemon must prove that it used the same key.  If it does
\* not, the desktop hangs up; the iPad sends a PAIR that the control loop takes
\* for a malformed frame, and gives up at the frames that the loop has sent.
EndsHello(c) ==
    /\ at[c] = "hello" /\ box[c] \in Oks
    /\ IF box[c] = Ok(key[c][ep[c]])
       THEN /\ at' = [at EXCEPT ![c] = "up"] /\ box' = [box EXCEPT ![c] = Unread]
            /\ UNCHANGED <<hs, sess, cut>>
       ELSE Leave(c)
    /\ UNCHANGED <<mem, disk, up, prompt, tool, ep, key, used, faults, history>>

\* A client that is up reads the end of the stream, after what was sent.
ReadsEnd(c) ==
    /\ at[c] = "up" /\ cut[c] = "yes" /\ Leave(c)
    /\ UNCHANGED <<mem, disk, up, prompt, tool, ep, key, used, faults, history>>

\* delete_connection forgets the key of the endpoint; the iPad's keeps it.
DeletesConnection(c) ==
    /\ at[c] = "idle" /\ c \notin Retrying
    /\ \E e \in Endpoints : /\ key[c][e] # NoKey
                            /\ key' = [key EXCEPT ![c][e] = NoKey]
    /\ UNCHANGED <<mem, disk, up, handshake, sess, tool, at, ep, mail, used, faults, history>>

-----------------------------------------------------------------------------
(* The daemon: run_pairing_server serves one handshake after the other.     *)

Reply(c, answer) == box' = [box EXCEPT ![c] = answer]

\* A connection is accepted, and refused at once while there is a session.
Accept(c) ==
    /\ up /\ hs.who = Nobody /\ at[c] \in {"hello", "pair"} /\ box[c] = Unread
    /\ cut[c] = "no"
    /\ IF sess.who # Nobody
       THEN Reply(c, <<"busy">>) /\ cut' = [cut EXCEPT ![c] = "yes"] /\ UNCHANGED hs
       ELSE hs' = [NoHandshake EXCEPT !.who = c, !.phase = "read"] /\ UNCHANGED mail
    /\ UNCHANGED <<mem, disk, up, prompt, sess, tool, client, used, faults, history>>

\* The handshake returns with an error: the socket is closed.
Fails(c) ==
    /\ hs' = NoHandshake /\ prompt' = FALSE
    /\ cut' = IF hs.gone THEN cut ELSE [cut EXCEPT ![c] = "yes"]
    /\ UNCHANGED <<mem, disk, up, sess, tool, client, box, used, faults, history>>

\* Mutated HandshakeFails: a handshake without the read timeout.
HandshakeBreaks == up /\ hs.phase \in {"read", "answer"} /\ hs.gone /\ Fails(hs.who)

\* The end of the stream, 30 s without what is waited for.
HandshakeFails ==
    /\ up /\ hs.phase \in {"read", "answer"}
    /\ Fails(hs.who)

Reads(c, phase) == up /\ hs.who = c /\ hs.phase = phase /\ ~hs.gone /\ box[c] = Unread

\* handle_hello_request.  A stale key is not noticed here: the client does.
ReadsHello(c) ==
    /\ Reads(c, "read") /\ at[c] = "hello"
    /\ IF mem[c] = NoKey
       THEN Reply(c, <<"reject">>) /\ UNCHANGED <<hs, sess>>
       ELSE /\ Reply(c, Ok(mem[c])) /\ hs' = NoHandshake
            /\ sess' = [who |-> c, key |-> mem[c], open |-> TRUE]
    /\ UNCHANGED <<mem, disk, up, prompt, tool, client, cut, used, faults, history>>

\* handle_pair_request up to the PIN: the device may be paired already.
ReadsPair(c) ==
    /\ Reads(c, "read") /\ at[c] = "pair"
    /\ Reply(c, <<"pin">>) /\ prompt' = TRUE
    /\ hs' = [hs EXCEPT !.phase = "answer"]
    /\ UNCHANGED <<mem, disk, up, sess, tool, client, cut, used, faults, history>>

\* The PIN is right: the device is stored, and then comes `then`; or it is wrong,
\* or cannot be decrypted.
ReadsAnswerThen(c, then) ==
    /\ Reads(c, "answer") /\ at[c] = "answered"
    /\ \/ /\ used < MaxPairings /\ used' = used + 1
          /\ mem' = [mem EXCEPT ![c] = used']
          /\ hs' = [hs EXCEPT !.phase = then]
          /\ banned' = banned \ {c} /\ told' = [told EXCEPT ![c] = NoKey]
          /\ UNCHANGED <<prompt, mail>>
       \/ /\ Reply(c, <<"reject">>) /\ cut' = [cut EXCEPT ![c] = "yes"]
          /\ hs' = NoHandshake /\ prompt' = FALSE
          /\ UNCHANGED <<mem, used, told, banned>>
    /\ UNCHANGED <<disk, up, sess, tool, client, faults, stale>>

\* Mutated ReadsAnswer: the OK is sent before the device is saved.
ReadsAnswerUnsaved(c) == ReadsAnswerThen(c, "confirm")

ReadsAnswer(c) == ReadsAnswerThen(c, "save")

\* fs::write truncates the file, and then writes it.
SaveBegins ==
    /\ up /\ hs.phase = "save" /\ hs' = [hs EXCEPT !.phase = "write"] /\ torn' = TRUE
    /\ UNCHANGED <<mem, file, up, prompt, sess, tool, client, mail, used, faults, history>>

SaveEnds ==
    /\ up /\ hs.phase = "write" /\ hs' = [hs EXCEPT !.phase = "confirm"]
    /\ file' = mem /\ torn' = FALSE /\ stale' = FALSE
    /\ UNCHANGED <<mem, up, prompt, sess, tool, client, mail, used, faults, told, banned>>

\* A save that cannot open the file, or write what it truncated, is only logged.
SaveFails ==
    /\ up /\ hs.phase \in {"save", "write"} /\ hs' = [hs EXCEPT !.phase = "confirm"]
    /\ faults < MaxFaults /\ faults' = faults + 1
    /\ stale' = TRUE
    /\ UNCHANGED <<mem, disk, up, prompt, sess, tool, client, mail, used, told, banned>>

\* OK is sent, whether the device was saved or not; the prompt is taken back.
Confirms(c) ==
    /\ up /\ hs.who = c /\ hs.phase = "confirm"
    /\ hs' = NoHandshake /\ prompt' = FALSE
    /\ IF hs.gone
       THEN UNCHANGED <<box, sess, told>>
       ELSE /\ Reply(c, Ok(mem[c])) /\ sess' = [who |-> c, key |-> mem[c], open |-> TRUE]
            /\ told' = [told EXCEPT ![c] = mem[c]]
    /\ UNCHANGED <<mem, disk, up, tool, client, cut, used, faults, stale, banned>>

\* drop_network_client: the control loop read the end of the stream, a bad frame or
\* DISCONNECT, or the client manager timed the client out.  The next handshake may
\* be served before the client's socket is closed.
SessionEnds ==
    /\ up /\ sess.who # Nobody /\ sess' = NoSession
    /\ cut' = IF sess.open THEN [cut EXCEPT ![sess.who] = "soon"] ELSE cut
    /\ UNCHANGED <<mem, disk, up, handshake, tool, client, box, used, faults, history>>

\* The control loop of a session that ended returns and drops its stream.
LoopReturns(c) ==
    /\ up /\ cut[c] = "soon" /\ cut' = [cut EXCEPT ![c] = "yes"]
    /\ UNCHANGED <<mem, disk, up, handshake, sess, tool, client, box, used, faults, history>>

-----------------------------------------------------------------------------
(* Crashes, restarts, and the other process.                                *)

DaemonDies ==
    /\ up /\ up' = FALSE /\ faults < MaxFaults /\ faults' = faults + 1
    /\ hs' = NoHandshake /\ prompt' = FALSE /\ sess' = NoSession /\ mem' = Empty
    /\ cut' = [c \in Clients |-> IF at[c] = "idle" THEN "no" ELSE "yes"]
    /\ told' = IF torn \/ stale THEN Empty ELSE told
    /\ stale' = FALSE
    /\ UNCHANGED <<disk, tool, client, box, used, banned>>

\* Mutated Loaded: a file that does not parse is not replaced by no device.
LoadedRaw == IF torn THEN <<>> ELSE file

\* PairingState::load: a file that does not parse is no device at all.
Loaded == IF torn THEN Empty ELSE file

DaemonStarts ==
    /\ ~up /\ up' = TRUE /\ mem' = Loaded
    /\ tool' = IF tool.phase = "none" THEN tool ELSE [tool EXCEPT !.phase = "raced"]
    /\ UNCHANGED <<disk, handshake, sess, client, mail, used, faults, history>>

UnpairLoads ==
    /\ tool.phase = "none" /\ faults < MaxFaults /\ faults' = faults + 1
    /\ tool' = [phase |-> IF up THEN "raced" ELSE "loaded", copy |-> Loaded]
    /\ UNCHANGED <<mem, disk, up, handshake, sess, client, mail, used, history>>

\* Mutated UnpairSaves: the devices leave the copy, which is not written.
UnpairForgetsToSave ==
    /\ tool.phase # "none" /\ tool' = [tool EXCEPT !.phase = "none"]
    /\ \E gone \in {{c} : c \in {d \in Clients : tool.copy[d] # NoKey}} \cup {Clients} :
         banned' = IF tool.phase = "loaded" THEN banned \cup gone ELSE banned
    /\ UNCHANGED <<mem, disk, up, handshake, sess, client, mail, used, faults, told, stale>>

\* run_unpair: one device that it found, or --all, found or not.
UnpairSaves ==
    /\ tool.phase # "none" /\ tool' = [tool EXCEPT !.phase = "none"]
    /\ \E gone \in {{c} : c \in {d \in Clients : tool.copy[d] # NoKey}} \cup {Clients} :
         /\ file' = [c \in Clients |-> IF c \in gone THEN NoKey ELSE tool.copy[c]]
         /\ torn' = FALSE
         /\ IF tool.phase = "loaded"
            THEN /\ banned' = banned \cup gone /\ UNCHANGED stale
                 /\ told' = [c \in Clients |-> IF c \in gone THEN NoKey ELSE told[c]]
            ELSE /\ stale' = up /\ told' = IF up THEN told ELSE Empty
                 /\ UNCHANGED banned
    /\ UNCHANGED <<mem, up, handshake, sess, client, mail, used, faults>>

UnpairFindsNothing ==
    /\ tool.phase # "none" /\ tool' = [tool EXCEPT !.phase = "none"]
    /\ UNCHANGED <<mem, disk, up, handshake, sess, client, mail, used, faults, history>>

-----------------------------------------------------------------------------

Serve(c) ==
    \/ Accept(c) \/ ReadsHello(c) \/ ReadsPair(c) \/ ReadsAnswer(c) \/ Confirms(c)

PairNext ==
    \/ \E c \in Clients :
         \/ Dial(c) \/ ClientLeaves(c) \/ ClientIsRefused(c) \/ RetriesAsPair(c)
         \/ AsksForPin(c) \/ SendsAnswer(c) \/ EndsPairing(c) \/ EndsHello(c)
         \/ ReadsEnd(c) \/ DeletesConnection(c) \/ Serve(c) \/ LoopReturns(c)
    \/ HandshakeFails \/ SaveBegins \/ SaveEnds \/ SaveFails \/ SessionEnds
    \/ DaemonDies \/ DaemonStarts
    \/ UnpairLoads \/ UnpairSaves \/ UnpairFindsNothing

\* The accept thread runs and its reads time out; a client that waits reads.
PairFairness ==
    /\ WF_pairVars(HandshakeFails) /\ WF_pairVars(SaveBegins) /\ WF_pairVars(SaveEnds)
    /\ \A c \in Clients : WF_pairVars(Serve(c)) /\ WF_pairVars(ClientIsRefused(c))

PairSpec == PairInit /\ [][PairNext]_pairVars /\ PairFairness

-----------------------------------------------------------------------------
(* Properties. *)

\* The types of both stores of keys, the handshake, the session and the tool.
PairTypeOK ==
    /\ mem \in [Clients -> Keys \cup {NoKey}] /\ file \in [Clients -> Keys \cup {NoKey}]
    /\ torn \in BOOLEAN /\ up \in BOOLEAN /\ prompt \in BOOLEAN
    /\ hs \in [who : Clients \cup {Nobody}, gone : BOOLEAN,
               phase : {"none", "read", "answer", "save", "write", "confirm"}]
    /\ sess \in [who : Clients \cup {Nobody}, key : Keys \cup {NoKey}, open : BOOLEAN]
    /\ tool \in [phase : {"none", "loaded", "raced"}, copy : [Clients -> Keys \cup {NoKey}]]
    /\ at \in [Clients -> {"idle", "hello", "pair", "pin", "answered", "up"}]
    /\ ep \in [Clients -> Endpoints]
    /\ key \in [Clients -> [Endpoints -> Keys \cup {NoKey}]]
    /\ box \in [Clients -> Oks \cup {Unread, <<"busy">>, <<"reject">>, <<"pin">>}]
    /\ cut \in [Clients -> {"no", "soon", "yes"}]
    /\ used \in 0..MaxPairings /\ faults \in 0..MaxFaults
    /\ told \in [Clients -> Keys \cup {NoKey}] /\ stale \in BOOLEAN /\ banned \subseteq Clients

\* A client that is up, and that the daemon has neither dropped nor died on, is
\* the client of the daemon's one session, and both use one pairing key, although
\* either side may have replaced or lost its own.  (One that was dropped stays up
\* until it reads the end of the stream, while another is served.)
SessionKeysAgree ==
    \A c \in Clients : at[c] = "up" /\ cut[c] = "no" =>
        sess.open /\ sess.who = c /\ sess.key = key[c][ep[c]]

\* A client that was told OK after its PIN survives a crash: its key is in the file
\* and in the daemon's memory, until it pairs anew or is unpaired.  (fs::write
\* truncates the file first; a save that fails is logged and the OK is sent all the
\* same; the tool overwrites a running daemon's file.  The next save that succeeds
\* makes good for all three, if the daemon lives to see it.)
OkIsDurable ==
    ~torn /\ ~stale => \A c \in Clients : told[c] # NoKey =>
                           file[c] = told[c] /\ (up => mem[c] = told[c])

\* A device that was unpaired while no daemon ran stays a stranger until it
\* pairs again, across crashes, restarts and the pairings of others.
UnpairedStaysOut == \A c \in banned : mem[c] = NoKey /\ sess.who # c

\* A handshake does not keep the accept thread for ever.
HandshakeEnds == hs.who # Nobody ~> hs.who = Nobody

=============================================================================
