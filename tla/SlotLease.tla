----------------------------- MODULE SlotLease -----------------------------
(***************************************************************************)
(* What the arbitration manager promises, without timers, keys or          *)
(* callbacks: one live source at a time has the slot, first come, first    *)
(* served.  It keeps the slot until it disconnects, or until nothing was   *)
(* heard for Timeout seconds; then it may still be alive, but the slot is  *)
(* gone.                                                                   *)
(***************************************************************************)
EXTENDS Integers

CONSTANTS Sources, Nobody, Timeout

VARIABLES
    holder,  \* who has the slot
    live,    \* sources that were given the slot and have not disconnected
    quiet    \* seconds of silence, up to Timeout

leaseVars == <<holder, live, quiet>>

LeaseInit == holder = Nobody /\ live = {} /\ quiet = 0

Acquire(h) ==
    /\ holder = Nobody
    /\ holder' = h /\ live' = live \cup {h} /\ quiet' = 0

Renew ==
    /\ holder # Nobody
    /\ quiet' = 0
    /\ UNCHANGED <<holder, live>>

Disconnect(h) ==
    /\ h \in live
    /\ live' = live \ {h}
    /\ IF holder = h THEN holder' = Nobody /\ quiet' = 0
                     ELSE UNCHANGED <<holder, quiet>>

Expire ==
    /\ holder # Nobody /\ Timeout > 0 /\ quiet = Timeout
    /\ holder' = Nobody /\ quiet' = 0
    /\ UNCHANGED live

Pass ==
    /\ holder # Nobody /\ quiet < Timeout
    /\ quiet' = quiet + 1
    /\ UNCHANGED <<holder, live>>

LeaseNext ==
    \/ \E h \in Sources : Acquire(h) \/ Disconnect(h)
    \/ Renew \/ Expire \/ Pass

LeaseSpec == LeaseInit /\ [][LeaseNext]_leaseVars
=============================================================================
