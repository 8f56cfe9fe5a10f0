--------------------------- MODULE BackoffProofs ---------------------------
(***************************************************************************)
(* The delays of both backoffs, for any number of attempts.                *)
(*                                                                         *)
(* A delay is below the maximum for the first few attempts only, where     *)
(* nothing has been shifted out.  From then on the maximum is taken: first *)
(* because the delay is longer, and, once bits are lost, because what is   *)
(* left of it is zero, negative or still longer.                           *)
(***************************************************************************)
EXTENDS Backoff, TLAPS

(* The powers of two the delays are compared with. *)
TwoTo(k) == 2^k

LEMMA Powers ==
  /\ TwoTo(0) = 1 /\ TwoTo(1) = 2 /\ TwoTo(2) = 4 /\ TwoTo(3) = 8
  /\ TwoTo(4) = 16 /\ TwoTo(5) = 32 /\ TwoTo(6) = 64 /\ TwoTo(7) = 128
  /\ TwoTo(8) = 256 /\ TwoTo(9) = 512 /\ TwoTo(10) = 1024
  /\ TwoTo(11) = 2048 /\ TwoTo(12) = 4096 /\ TwoTo(13) = 8192
  /\ TwoTo(14) = 16384 /\ TwoTo(15) = 32768 /\ TwoTo(16) = 65536
  /\ TwoTo(17) = 131072 /\ TwoTo(18) = 262144 /\ TwoTo(19) = 524288
  /\ TwoTo(20) = 1048576 /\ TwoTo(21) = 2097152 /\ TwoTo(22) = 4194304
  /\ TwoTo(23) = 8388608 /\ TwoTo(24) = 16777216 /\ TwoTo(25) = 33554432
  BY SMT DEF TwoTo

LEMMA PowerBounds ==
  \A k \in 0..25 : /\ TwoTo(k) \in Nat /\ TwoTo(k) > 0
                   /\ k > 4 => TwoTo(k) >= 32
  BY Powers, SMT

(* What is left after a shift, and when it is too long, in these powers. *)
LEMMA ShiftedIs ==
  \A b, n : Shifted(b, n) =
      IF Kept(b, n) > FactorBits THEN b.factor
      ELSE IF Kept(b, n) <= 0 THEN 0
      ELSE b.factor % TwoTo(Kept(b, n))
  BY Zenon DEF Shifted, TwoTo

LEMMA TooLongIs ==
  ASSUME NEW b, NEW n, NEW ahead, ahead = b.power + n - b.maxPower
  PROVE  /\ ahead < 0 => (TooLong(b, n) <=> Shifted(b, n) > b.maxFactor * TwoTo(-ahead))
         /\ ~(ahead < 0) /\ ahead < MaxFactorBits =>
               (TooLong(b, n) <=> Shifted(b, n) > b.maxFactor \div TwoTo(ahead))
         /\ ~(ahead < 0) /\ ~(ahead < MaxFactorBits) =>
               (TooLong(b, n) <=> Shifted(b, n) > b.maxFactor \div TwoTo(MaxFactorBits))
  BY Zenon DEF TooLong, TwoTo

(* The delay of one attempt is the maximum, or the base doubled each time. *)
Grows(b, n) == \/ AtMax(b, n)
               \/ Shifted(b, n) = b.factor /\ (n = 0 \/ ~AtMax(b, n - 1))

(* From some attempt on a delay that has lost no bits is too long. *)
LEMMA LongIsTooLong ==
  ASSUME NEW b \in Backoffs, NEW n \in Nat, Kept(b, n) > FactorBits,
         b.power + n - b.maxPower > 4
  PROVE  TooLong(b, n)
<1> DEFINE ahead == b.power + n - b.maxPower
<1>1. Shifted(b, n) = b.factor
  BY ShiftedIs, Zenon
<1>2. PICK k \in 5..25 :
         TooLong(b, n) <=> Shifted(b, n) > b.maxFactor \div TwoTo(k)
  <2>1. ahead \in Nat /\ ahead > 4 /\ MaxFactorBits = 25
    BY SMT DEF Backoffs, FfmpegBackoff, AcceptBackoff, MaxFactorBits
  <2>2. CASE ahead < MaxFactorBits
    BY <2>1, <2>2, TooLongIs, SMT
  <2>3. CASE ~(ahead < MaxFactorBits)
    BY <2>1, <2>3, TooLongIs, SMT
  <2> QED BY <2>2, <2>3, Zenon
<1>3. TwoTo(k) \in Nat /\ TwoTo(k) >= 32
  BY PowerBounds, SMT
<1>4. b.factor > b.maxFactor \div TwoTo(k)
  BY <1>3, SMT DEF Backoffs, FfmpegBackoff, AcceptBackoff
<1> QED BY <1>1, <1>2, <1>4, SMT

(* Once bits are lost the maximum is taken, whatever is left. *)
LEMMA LostBitsAreCaught ==
  ASSUME NEW b \in Backoffs, NEW n \in Nat, Kept(b, n) <= FactorBits
  PROVE  AtMax(b, n)
<1>1. CASE Kept(b, n) <= 0
  <2>1. Shifted(b, n) = 0
    BY <1>1, ShiftedIs, SMT DEF FactorBits, Kept, Backoffs, FfmpegBackoff, AcceptBackoff
  <2> QED BY <2>1, Zenon DEF AtMax
<1>2. CASE Kept(b, n) > 0
  <2> DEFINE ahead == b.power + n - b.maxPower
  <2> DEFINE m == TwoTo(Kept(b, n))
  <2>1. Kept(b, n) \in 1..21 /\ ahead \in Nat /\ ahead > 25
    BY <1>2, SMT DEF Kept, FactorBits, Backoffs, FfmpegBackoff, AcceptBackoff
  <2>2. m \in Nat /\ m > 0
    BY <2>1, PowerBounds, SMT
  <2>3. Shifted(b, n) = b.factor % m
    BY <1>2, <2>1, ShiftedIs, SMT DEF FactorBits
  <2>4. Shifted(b, n) \in Nat
    <3> HIDE DEF m
    <3> QED BY <2>2, <2>3, SMT DEF Backoffs, FfmpegBackoff, AcceptBackoff
  <2>5. TooLong(b, n) <=> Shifted(b, n) > b.maxFactor \div TwoTo(25)
    BY <2>1, TooLongIs, SMT DEF MaxFactorBits
  <2>6. b.maxFactor \div TwoTo(25) = 0
    BY Powers, SMT DEF Backoffs, FfmpegBackoff, AcceptBackoff
  <2> QED BY <2>4, <2>5, <2>6, SMT DEF AtMax
<1> QED BY <1>1, <1>2, SMT DEF Kept, Backoffs, FfmpegBackoff, AcceptBackoff

(* The first seven attempts: nothing is lost, and each of the first six is *)
(* within the maximum.                                                     *)
LEMMA FirstAttempts ==
  ASSUME NEW b \in Backoffs, NEW n \in 0..6
  PROVE  Shifted(b, n) = b.factor /\ (n < 6 => ~AtMax(b, n))
<1> DEFINE ahead == b.power + n - b.maxPower
<1>1. Kept(b, n) > FactorBits /\ ahead \in -2..4 /\ (n < 6 => ahead <= 3)
  BY SMT DEF Kept, FactorBits, Backoffs, FfmpegBackoff, AcceptBackoff
<1>2. Shifted(b, n) = b.factor
  BY <1>1, ShiftedIs, SMT DEF FactorBits
<1>3. ~Negative(b, n) /\ Shifted(b, n) # 0
  BY <1>1, <1>2, SMT DEF Negative, Kept, FactorBits, Backoffs, FfmpegBackoff, AcceptBackoff
<1>4. ASSUME n < 6 PROVE ~TooLong(b, n)
  <2>1. CASE ahead < 0
    <3> DEFINE d == TwoTo(-ahead)
    <3>1. d \in Nat /\ d > 0
      BY <1>1, <2>1, PowerBounds, SMT
    <3>2. TooLong(b, n) <=> b.factor > b.maxFactor * d
      BY <1>2, <2>1, TooLongIs, SMT
    <3> HIDE DEF d
    <3>3. ~(b.factor > b.maxFactor * d)
      BY <3>1, SMT DEF Backoffs, FfmpegBackoff, AcceptBackoff
    <3> QED BY <3>2, <3>3, Zenon
  <2>2. CASE ahead >= 0
    <3>1. ahead \in 0..3
      BY <1>1, <1>4, <2>2, SMT
    <3>2. TooLong(b, n) <=> b.factor > b.maxFactor \div TwoTo(ahead)
      BY <1>2, <3>1, TooLongIs, SMT DEF MaxFactorBits
    <3>3. TwoTo(ahead) \in {1, 2, 4, 8}
      BY <3>1, Powers, SMT
    <3>4. ~(b.factor > b.maxFactor \div TwoTo(ahead))
      BY <3>3, SMT DEF Backoffs, FfmpegBackoff, AcceptBackoff
    <3> QED BY <3>2, <3>4, Zenon
  <2> QED BY <1>1, <2>1, <2>2, SMT
<1> QED BY <1>2, <1>3, <1>4, SMT DEF AtMax

(* The delays of every attempt, however many there have been: doubled from *)
(* the base as long as that is within the maximum, and then the maximum.   *)
THEOREM DelaysSaturate == \A b \in Backoffs : \A n \in Nat : Grows(b, n)
<1> SUFFICES ASSUME NEW b \in Backoffs, NEW n \in Nat PROVE Grows(b, n)
  OBVIOUS
<1>1. CASE n <= 6
  <2>1. Shifted(b, n) = b.factor
    BY <1>1, FirstAttempts, SMT
  <2>2. n # 0 => n - 1 \in 0..6 /\ n - 1 < 6
    BY <1>1, SMT
  <2> QED BY <2>1, <2>2, FirstAttempts, SMT DEF Grows
<1>2. CASE Kept(b, n) <= FactorBits
  BY <1>2, LostBitsAreCaught, SMT DEF Grows
<1>3. CASE n > 6 /\ Kept(b, n) > FactorBits
  <2>1. b.power + n - b.maxPower > 4
    BY <1>3, SMT DEF Backoffs, FfmpegBackoff, AcceptBackoff
  <2> QED BY <1>3, <2>1, LongIsTooLong, SMT DEF Grows, AtMax
<1>4. Kept(b, n) \in Int /\ FactorBits \in Int
  BY SMT DEF Kept, FactorBits, Backoffs, FfmpegBackoff, AcceptBackoff
<1> QED BY <1>1, <1>2, <1>3, <1>4, SMT

(* ... of which the model looks at the first MaxAttempt. *)
LEMMA EveryAttemptGrows ==
  \A b \in Backoffs : \A n \in 0..MaxAttempt : n \in Growing[b]
BY DelaysSaturate, AttemptAssumption, SMT DEF Growing, Grows
=============================================================================
