------------------------------- MODULE MCPolicies -------------------------------
(* Instances of the two policies of a stream, its negotiated settings and its  *)
(* adaptive bitrate, each on its own.  Rates of the latter are in units of     *)
(* 100 kbps, so that the product of a rate and a percentage stays within TLC's *)
(* integers; of the former each bound meets values below, at and above it, and *)
(* flags below the protocol's floors and above a field's width.                *)
EXTENDS AdaptiveBitrate, Negotiation

MCU32Max == 42949
\* 1 Mbps, below the floor of 2, 3 and 20, and 60, past saturation at 53.7 Mbps.
MCBases == {10, 30, 200, 600}

MCFlags == {[w |-> s[1], h |-> s[2], fps |-> s[3], net |-> b[1], usb |-> b[2]] :
              s \in {<<320, 240, 60>>, <<1920, 1080, 300>>, <<70000, 70000, 10>>},
              b \in {<<400000, 400000>>, <<20000000, 100000000>>, <<50000000, 8000000>>}}

MCRequests == {[w |-> s[1], h |-> s[2], fps |-> f, codec |-> c, bps |-> b] :
                 s \in {<<Omitted, Omitted>>, <<320, 200>>, <<1920, 1080>>, <<3840, 2160>>},
                 f \in {Omitted, 10, 60, 120},
                 c \in {Omitted, 0, 1},
                 b \in {Omitted, 200000, 8000000, 60000000}}

VARIABLE part
mcVars == <<part, vars, negVars>>

OneOf(S) == CHOOSE x \in S : TRUE

MCInit ==
    \/ /\ part = "bitrate" /\ Init
       /\ flags = OneOf(Flags) /\ request = OneOf(Requests) /\ link = "usb"
       /\ available = {} /\ default = OneOf(Codecs)
       /\ NegInit
    \/ /\ part = "negotiation" /\ NegInit
       /\ base = OneOf(Bases)
       /\ Init

MCNext ==
    \/ part = "bitrate" /\ Next /\ UNCHANGED <<part, negVars>>
    \/ part = "negotiation" /\ NegNext /\ UNCHANGED <<part, vars>>

MCSpec ==
    /\ MCInit /\ [][MCNext]_mcVars
    /\ WF_mcVars(part = "bitrate" /\ Tick /\ UNCHANGED <<part, negVars>>)
    /\ SF_mcVars(part = "bitrate" /\ Adjust /\ UNCHANGED <<part, negVars>>)
=============================================================================
