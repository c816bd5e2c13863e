----------------------------- MODULE Negotiation -----------------------------
(***************************************************************************)
(* Capability negotiation: the daemon advertises its bounds in CAPS, the   *)
(* client checks the user's choices against them and proposes them in      *)
(* STNG, the daemon clamps the proposal and merges it over its defaults.   *)
(* The TLV envelope is abstracted to records; the widths of its fields are *)
(* kept.  A resolution is always sent whole, so width stands with height.  *)
(***************************************************************************)
EXTENDS Integers

CONSTANTS Flags,    \* operators' --max-width, -height, -framerate, -bitrate(-usb)
          Requests, \* what users may have configured, and what faulty clients send
          Codecs    \* codec ids

Omitted == -1       \* a tag left out: the daemon's default
U8Max   == 255
U16Max  == 65535

FlagSet    == [w : Nat, h : Nat, fps : Nat, net : Nat, usb : Nat]
RequestSet == [w : Nat \cup {Omitted}, h : Nat \cup {Omitted},
               fps : Nat \cup {Omitted}, codec : Codecs \cup {Omitted},
               bps : Nat \cup {Omitted}]

ASSUME NegotiationAssumption ==
    /\ Flags \subseteq FlagSet
    /\ Requests \subseteq RequestSet
    /\ Codecs \subseteq Nat

FloorW   == 640     \* STNG_RESOLUTION_FLOOR_W and _H, _FPS_FLOOR, _BITRATE_FLOOR_BPS
FloorH   == 360
FloorFps == 15
FloorBps == 500000

VARIABLES flags, available, \* the operator's flags; the codecs the probe finds
          default,          \* the daemon's configured codec
          link, request,    \* the transport and the user's choices
          stage,            \* how far the negotiation got
          caps, stng,       \* the messages
          conforming,       \* whether the client checked before it sent
          session           \* the capture session's settings

negVars == <<flags, available, default, link, request, stage, caps, stng, conforming, session>>
given == <<flags, available, default, link, request>>

Nothing == [w |-> Omitted, h |-> Omitted, fps |-> Omitted, codec |-> Omitted, bps |-> Omitted]
NoCaps  == [w |-> 0, h |-> 0, fps |-> 0, min |-> 0, max |-> 0, codecs |-> {}]

NegInit ==
    /\ flags \in Flags /\ request \in Requests /\ link \in {"network", "usb"}
    /\ available \in SUBSET Codecs /\ default \in Codecs
    /\ stage = "connected" /\ caps = NoCaps /\ stng = Nothing
    /\ conforming = FALSE /\ session = Nothing

-----------------------------------------------------------------------------
Lesser(a, b) == IF a < b THEN a ELSE b
Greater(a, b)  == IF a > b THEN a ELSE b

\* bitrate_ceiling
Ceiling == IF link = "usb" THEN flags.usb ELSE flags.net

\* clamp_u32, which a ceiling below the floor does not panic.
ClampNoCeiling(value, floor, ceiling) == Greater(value, floor)   \* mutated Clamp
Clamp(value, floor, ceiling) == Lesser(Greater(value, floor), Greater(ceiling, floor))
ClampTag(value, floor, ceiling) ==
    IF value = Omitted THEN Omitted ELSE Clamp(value, floor, ceiling)

\* build_caps_message, with the widths of CAPS's fields.
BuildCaps == [w |-> Lesser(flags.w, U16Max), h |-> Lesser(flags.h, U16Max),
              fps |-> Lesser(flags.fps, U8Max),
              min |-> FloorBps, max |-> Ceiling, codecs |-> available]

\* validate_settings: no violation.
Valid(r, c) ==
    /\ r.w # Omitted /\ r.h # Omitted => r.w <= c.w /\ r.h <= c.h
    /\ r.fps # Omitted => r.fps <= c.fps
    /\ r.codec # Omitted => r.codec \in c.codecs
    /\ r.bps # Omitted => r.bps \in c.min..c.max

\* build_stng, with the widths of STNG's fields.
BuildStng(r) ==
    LET whole == r.w # Omitted /\ r.h # Omitted
    IN  [w |-> IF whole THEN r.w % (U16Max + 1) ELSE Omitted,
         h |-> IF whole THEN r.h % (U16Max + 1) ELSE Omitted,
         fps |-> IF r.fps = Omitted THEN Omitted ELSE r.fps % (U8Max + 1),
         codec |-> r.codec, bps |-> r.bps]

\* Mutated ClampSettings: the network's bitrate ceiling on every transport.
ClampToNetwork(r) ==
    [w |-> ClampTag(r.w, FloorW, flags.w), h |-> ClampTag(r.h, FloorH, flags.h),
     fps |-> ClampTag(r.fps, FloorFps, flags.fps),
     codec |-> IF r.codec \in available THEN r.codec ELSE Omitted,
     bps |-> ClampTag(r.bps, FloorBps, flags.net)]

\* clamp_requested_settings
ClampSettings(r) ==
    [w |-> ClampTag(r.w, FloorW, flags.w), h |-> ClampTag(r.h, FloorH, flags.h),
     fps |-> ClampTag(r.fps, FloorFps, flags.fps),
     codec |-> IF r.codec \in available THEN r.codec ELSE Omitted,
     bps |-> ClampTag(r.bps, FloorBps, Ceiling)]

Or(value, otherwise) == IF value = Omitted THEN otherwise ELSE value

\* The capture thread's merge over its configuration, which is made of the
\* network flags for every transport.
Merge(r) == [w |-> Or(r.w, flags.w), h |-> Or(r.h, flags.h), fps |-> Or(r.fps, flags.fps),
             codec |-> Or(r.codec, default), bps |-> Or(r.bps, flags.net)]

-----------------------------------------------------------------------------
SendCaps ==
    /\ stage = "connected"
    /\ caps' = BuildCaps
    /\ stage' = "advertised"
    /\ UNCHANGED <<given, stng, conforming, session>>

\* The client refuses to connect rather than degrade the user's choices.
Refuse ==
    /\ stage = "advertised" /\ ~Valid(request, caps)
    /\ stage' = "refused"
    /\ UNCHANGED <<given, caps, stng, conforming, session>>

Propose ==
    /\ stage = "advertised" /\ Valid(request, caps)
    /\ stng' = BuildStng(request) /\ conforming' = TRUE
    /\ stage' = "proposed"
    /\ UNCHANGED <<given, caps, session>>

\* A client that does not check.
ProposeAnything ==
    /\ stage = "advertised"
    /\ stng' = BuildStng(request)
    /\ stage' = "proposed"
    /\ UNCHANGED <<given, caps, conforming, session>>

\* An old client, or one whose CAPS did not come in time: no STNG at all.
ProposeNothing ==
    /\ stage \in {"connected", "advertised"}
    /\ stage' = "start"
    /\ UNCHANGED <<given, caps, stng, conforming, session>>

ApplyRequestedSettings ==
    /\ stage = "proposed"
    /\ stng' = ClampSettings(stng)
    /\ stage' = "start"
    /\ UNCHANGED <<given, caps, conforming, session>>

StartSession ==
    /\ stage = "start"
    /\ session' = Merge(stng)
    /\ stage' = "streaming"
    /\ UNCHANGED <<given, caps, stng, conforming>>

NegNext == \/ SendCaps \/ Refuse \/ Propose \/ ProposeAnything \/ ProposeNothing
        \/ ApplyRequestedSettings \/ StartSession

NegSpec == NegInit /\ [][NegNext]_negVars

-----------------------------------------------------------------------------
Between(value, floor, ceiling) == value >= Lesser(floor, ceiling) /\ value <= Greater(floor, ceiling)

\* Whatever a client sends, checked or not, a session is started within the
\* operator's flags, or at the protocol's floor where a flag is below it.
SessionBounded ==
    stage = "streaming" =>
        /\ Between(session.w, FloorW, flags.w) /\ Between(session.h, FloorH, flags.h)
        /\ Between(session.fps, FloorFps, flags.fps)
        /\ session.bps <= Greater(FloorBps, Greater(flags.net, flags.usb))
        /\ session.codec \in available \cup {default}

\* A client that checked its bitrate and codec gets exactly what it asked for:
\* the bounds advertised for a transport are those enforced on it.
CheckedIsHonoured ==
    stage = "streaming" /\ conforming =>
        /\ request.bps # Omitted => session.bps = request.bps
        /\ request.codec # Omitted => session.codec = request.codec
=============================================================================
