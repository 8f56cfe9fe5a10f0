------------------------------ MODULE MCRelay ------------------------------
(***************************************************************************)
(* Instances of the relay for TLC: an RTMP session's pipe and the URL of   *)
(* an SRT session.                                                         *)
(***************************************************************************)
EXTENDS Relay

CONSTANTS pipe, srtURL

MCInputs == {pipe, srtURL}
=============================================================================
