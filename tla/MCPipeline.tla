------------------------------ MODULE MCPipeline ------------------------------
(***************************************************************************)
(* The way of a frame for TLC: the transport and the client's decoder.      *)
(* They share no variable, so each of them is checked with the other at     *)
(* rest: which one moves is chosen initially.                               *)
(***************************************************************************)
EXTENDS Media, Decoding

VARIABLE part

pipelineVars == <<part, mediaVars, decVars>>

MCProbes == {<<"vaapi", "cuda", "software">>, <<"videotoolbox", "software">>, <<"d3d11va", "cuda", "software">>}

PipelineInit ==
    /\ part \in {"video", "audio", "camera", "decoder"}
    /\ MediaInit /\ DecInit
    /\ part # "decoder" => probes = CHOOSE p \in Probes : TRUE
    /\ part # "decoder" => ~shared

PipelineNext ==
    /\ UNCHANGED part
    /\ \/ part = "video" /\ VideoNext /\ UNCHANGED decVars
       \/ part = "audio" /\ AudioNext /\ UNCHANGED decVars
       \/ part = "camera" /\ CameraNext /\ UNCHANGED decVars
       \/ part = "decoder" /\ DecNext /\ UNCHANGED mediaVars

\* A part at rest enables none of the fair actions.
PipelineSpec == PipelineInit /\ [][PipelineNext]_pipelineVars /\ DecFairness

\* Types of the two parts.
PipelineTypeOK == MediaTypeOK /\ DecTypeOK
=============================================================================
