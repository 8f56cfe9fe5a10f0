------------------------------ MODULE MCServer ------------------------------
(***************************************************************************)
(* Instance of the server for TLC: one source of each protocol.            *)
(***************************************************************************)
EXTENDS Server, TLC

CONSTANTS conn1, pub1, rtmpLive, srtLive, ristLive, live

MCKeyOf == conn1 :> rtmpLive @@ pub1 :> srtLive @@ rist :> ristLive
MCKeys == {rtmpLive, srtLive, ristLive}
MCPathOf == pub1 :> live
MCConns == {conn1}
MCPubs == {pub1}
MCSessions == {conn1, pub1, rist}
=============================================================================
