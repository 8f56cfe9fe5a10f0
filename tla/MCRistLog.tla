----------------------------- MODULE MCRistLog -----------------------------
(***************************************************************************)
(* Instance of the RIST log for TLC: senders on a path that is listed, on  *)
(* another, with slashes at the end, and on one that is not listed, and a  *)
(* setting that lists no path, one, and two, with up to two slashes.       *)
(***************************************************************************)
EXTENDS RistLog

CONSTANTS stream, backup, private

Raw(dir, slashes) == [dir |-> dir, slashes |-> slashes]

MCDirs == {stream, backup, private}
MCSenders == {Raw(stream, 0), Raw(backup, 1), Raw(stream, 2), Raw(private, 0)}
MCLists == {{}, {Raw(stream, 0)}, {Raw(stream, 1)}, {Raw(stream, 2)},
            {Raw(stream, 1), Raw(backup, 0)}, {Raw(stream, 0), Raw(backup, 2)}}
=============================================================================
