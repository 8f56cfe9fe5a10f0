--------------------------- MODULE MCArbitration ---------------------------
(***************************************************************************)
(* Instance of the arbitration manager for TLC: two RTMP connections and   *)
(* two other sources, with a path each.                                    *)
(***************************************************************************)
EXTENDS Arbitration, TLC

CONSTANTS conn1, conn2, webhook, rist, rtmpLive, rtmpOther, srtLive, ristLive

MCSessions == {conn1, conn2, webhook, rist}
MCKeys == {rtmpLive, rtmpOther, srtLive, ristLive}
MCKeyOf == conn1 :> rtmpLive @@ conn2 :> rtmpOther
           @@ webhook :> srtLive @@ rist :> ristLive
=============================================================================
