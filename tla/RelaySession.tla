---------------------------- MODULE RelaySession ----------------------------
(***************************************************************************)
(* What the relay promises to the ingest adapters, without processes,      *)
(* watchers or locks: it plays the input of the session it was last asked  *)
(* to start, or nothing.  ffmpeg may die and come back, but what comes     *)
(* back is the session that is wanted, and nothing comes back after a stop.*)
(*                                                                         *)
(* A start that fails is the exception: until the next stop, or a start    *)
(* that works, any session may come back.                                  *)
(***************************************************************************)
CONSTANTS
    Inputs,
    NoInput,    \* nothing is to be played
    AnyInput    \* a start failed: whatever comes back is played

VARIABLES want, playing

relayVars == <<want, playing>>

RelayInit == want = NoInput /\ playing = NoInput

(* A new session takes the place of what played before ... *)
Start(i) ==
    /\ want' = i
    /\ playing' = i

(* ... or its ffmpeg does not come up. *)
StartFails ==
    /\ want' = AnyInput
    /\ playing' = NoInput

Stop ==
    /\ want' = NoInput
    /\ playing' = NoInput

Die ==
    /\ playing' = NoInput
    /\ UNCHANGED want

Revive ==
    /\ playing = NoInput
    /\ IF want = AnyInput THEN playing' \in Inputs ELSE playing' = want
    /\ UNCHANGED want

RelayNext == (\E i \in Inputs : Start(i)) \/ StartFails \/ Stop \/ Die \/ Revive

RelaySafety == RelayInit /\ [][RelayNext]_relayVars
=============================================================================
