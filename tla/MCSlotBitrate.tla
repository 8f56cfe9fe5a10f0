--------------------------- MODULE MCSlotBitrate ---------------------------
(***************************************************************************)
(* The manager with its bitrate reading for TLC: two RTMP connections with *)
(* the same path, the SRT webhook and the RIST adapter.                    *)
(***************************************************************************)
EXTENDS SlotBitrate, TLC

CONSTANTS conn1, conn2, webhook, rist, rtmpLive, srtLive, ristLive

MCSessions == {conn1, conn2, webhook, rist}
MCKeys == {rtmpLive, srtLive, ristLive}
MCKeyOf == conn1 :> rtmpLive @@ conn2 :> rtmpLive
           @@ webhook :> srtLive @@ rist :> ristLive
=============================================================================
