------------------------------ MODULE Backoff ------------------------------
(***************************************************************************)
(* The delays before another try: of ffmpeg (relay/ffmpeg.go), of          *)
(* ristreceiver (rist/server.go) and of Accept (rtmp/server.go).  All are  *)
(* computed as                                                             *)
(*                                                                         *)
(*     delay := base << attempt                                            *)
(*     if delay > max || delay <= 0 { delay = max }                        *)
(*                                                                         *)
(* on 64 bits, signed, and the attempts are never bounded: restartAttempt  *)
(* of RIST is not even reset.  A duration of ns nanoseconds is written as  *)
(* factor * 2^power, so that no number here exceeds what TLC can count to. *)
(***************************************************************************)
EXTENDS Integers

(* A backoff: its base and its maximum. *)
FfmpegBackoff ==    \* and ristreceiver's: 500 ms, 30 s
    [factor |-> 1953125, power |-> 8, maxFactor |-> 29296875, maxPower |-> 10]
AcceptBackoff ==    \* 10 ms, 1 s
    [factor |-> 78125, power |-> 7, maxFactor |-> 1953125, maxPower |-> 9]
Backoffs == {FfmpegBackoff, AcceptBackoff}

FactorBits == 21    \* all factors are below 2^21 except the first maximum
MaxFactorBits == 25

(* base << attempt: the factor keeps the bits that fit into 64.            *)
Kept(b, n) == 64 - b.power - n
Shifted(b, n) ==
    IF Kept(b, n) > FactorBits THEN b.factor
    ELSE IF Kept(b, n) <= 0 THEN 0
    ELSE b.factor % 2^Kept(b, n)

(* ... of which the first is the sign. *)
Negative(b, n) ==
    /\ Kept(b, n) \in 1..FactorBits
    /\ Shifted(b, n) >= 2^(Kept(b, n) - 1)

(* delay > max, for one that is not negative. *)
TooLong(b, n) ==
    LET ahead == b.power + n - b.maxPower IN   \* powers the delay is ahead
    IF ahead < 0 THEN Shifted(b, n) > b.maxFactor * 2^(-ahead)
    ELSE Shifted(b, n) > b.maxFactor \div
         2^(IF ahead < MaxFactorBits THEN ahead ELSE MaxFactorBits)

(* Seeded fault: a delay that overflowed is not noticed. *)
AtMaxIfLong(b, n) == ~Negative(b, n) /\ TooLong(b, n)

(* Is the maximum taken? *)
AtMax(b, n) ==
    \/ Negative(b, n) \/ Shifted(b, n) = 0
    \/ TooLong(b, n)

CONSTANT MaxAttempt   \* bound: attempts looked at; beyond 64 all bits are gone

ASSUME AttemptAssumption == MaxAttempt \in Nat

(* The attempts whose delay is the maximum, or is the base, doubled each   *)
(* time, after delays that were below the maximum too.                     *)
Growing == [b \in Backoffs |-> {n \in 0..MaxAttempt :
               \/ AtMax(b, n)
               \/ Shifted(b, n) = b.factor /\ (n = 0 \/ ~AtMax(b, n - 1))}]
=============================================================================
