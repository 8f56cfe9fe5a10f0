------------------------------ MODULE MCIngest ------------------------------
(***************************************************************************)
(* Instances of the composed ingest server for TLC: one where every source *)
(* has a key of its own, and one where two RTMP connections present the    *)
(* same path and an SRT and an SRTLA publisher another.                    *)
(***************************************************************************)
EXTENDS Ingest, ArbitrationLease, TLC

CONSTANTS conn1, conn2, pub1, pub2, rtmpLive, srtLive, srtOther, srtlaLive,
          ristLive, live, other

MCKeyOf == conn1 :> rtmpLive @@ pub1 :> srtLive @@ pub2 :> srtOther
           @@ rist :> ristLive
MCKeys == {rtmpLive, srtLive, srtOther, ristLive}
MCPathOf == pub1 :> live @@ pub2 :> other

(* A source of each protocol, and two SRT publishers on different paths.   *)
MCConns == {conn1}
MCPubs == {pub1, pub2}
MCSessions == {conn1, pub1, pub2, rist}

(* Everybody on one path. *)
MCSameKeyOf == conn1 :> rtmpLive @@ conn2 :> rtmpLive @@ pub1 :> srtLive
               @@ pub2 :> srtlaLive @@ rist :> ristLive
MCSameKeys == {rtmpLive, srtLive, srtlaLive, ristLive}
MCSamePathOf == pub1 :> live @@ pub2 :> live
MCSameConns == {conn1, conn2}
MCSameSessions == {conn1, conn2, pub1, pub2, rist}
=============================================================================
