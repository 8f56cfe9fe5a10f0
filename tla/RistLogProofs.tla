--------------------------- MODULE RistLogProofs ---------------------------
(***************************************************************************)
(* What holds of the lines of ristreceiver for any senders and any lists   *)
(* of allowed paths.                                                       *)
(***************************************************************************)
EXTENDS RistLog, FiniteSetTheorems, TLAPS

(* Normalize is idempotent on paths with at most one slash at their end.   *)
LEMMA NormalizeTwice ==
  ASSUME NEW p \in RawPaths, p.slashes <= 1
  PROVE  Normalize(Normalize(p)) = Normalize(p)
<1>1. PICK d \in Dirs, n \in {0, 1} : p = [dir |-> d, slashes |-> n]
  BY DEF RawPaths
<1>2. [dir |-> d, slashes |-> 0].slashes = 0
  OBVIOUS
<1>3. Normalize([dir |-> d, slashes |-> 0]) = [dir |-> d, slashes |-> 0]
  BY <1>2 DEF Normalize
<1>4. Normalize(p) = [dir |-> d, slashes |-> 0]
  BY <1>1, <1>3 DEF Normalize
<1> QED BY <1>3, <1>4

LEMMA NormalizeType ==
  ASSUME NEW p \in RawPaths PROVE Normalize(p) \in RawPaths
<1>1. p.slashes \in Nat /\ p.dir \in Dirs
  BY DEF RawPaths
<1>2. (IF p.slashes > 0 THEN p.slashes - 1 ELSE 0) \in Nat
  BY <1>1
<1> QED BY <1>1, <1>2 DEF RawPaths, Normalize

(* What a stream is taken to be is a raw path. *)
LEMMA StreamPathType ==
  ASSUME LogTypeOK, NEW cname \in Senders \cup {Nobody}
  PROVE  StreamPath(cname) \subseteq RawPaths
<1> USE SendersAssumption, ListsAssumption
<1>1. allowed \subseteq RawPaths
  BY DEF LogTypeOK
<1>2. [dir |-> streamDir, slashes |-> 0] \in RawPaths
  BY DEF RawPaths
<1>3. activePath # Nobody => activePath \in RawPaths
  BY DEF LogTypeOK
<1>4. cname # Nobody => cname \in RawPaths
  OBVIOUS
<1> QED BY <1>1, <1>2, <1>3, <1>4, NormalizeType DEF StreamPath

(* With one path of at most one slash, or none, whatever a stream is taken *)
(* to be is allowed.                                                       *)
LEMMA SinglePathIsAllowed ==
  ASSUME LogTypeOK, Cardinality(allowed) <= 1, \A q \in allowed : ~(q.slashes > 1),
         NEW cname, NEW p \in StreamPath(cname)
  PROVE  IsAllowed(p)
<1>1. IsFiniteSet(allowed) /\ allowed \subseteq RawPaths
  BY ListsAssumption DEF LogTypeOK
<1>2. CASE Cardinality(allowed) = 1
  <2>1. p \in {Normalize(q) : q \in allowed}
    BY <1>2 DEF StreamPath
  <2>2. \A q \in allowed : q.slashes <= 1
    BY <1>1 DEF RawPaths
  <2> QED BY <1>1, <2>1, <2>2, NormalizeTwice DEF IsAllowed
<1>3. CASE Cardinality(allowed) # 1
  <2>1. Cardinality(allowed) = 0
    BY <1>1, <1>3, FS_CardinalityType
  <2> QED BY <1>1, <2>1, FS_EmptySet DEF IsAllowed
<1> QED BY <1>2, <1>3

(* The lines of a teardown are not taken for signs of life, and those that *)
(* tell of an end are understood.                                          *)
LEMMA TeardownIsRead ==
  ASSUME NEW l \in Teardown
  PROVE  /\ TellsEnd(l) \/ ~TellsLife(l)
         /\ l \in Ends => TellsEnd(l)
<1> USE DEF TellsEnd, TellsLife, Parse, Says
<1>1. CASE l = Status("down")
  BY <1>1 DEF Status
<1>2. CASE l = Text({"disconnected", "connected"})
  BY <1>2 DEF Text
<1>3. CASE l = Text({"removed"})
  BY <1>3 DEF Text
<1>4. CASE l = Text({"dead"})
  BY <1>4 DEF Text
<1>5. ASSUME NEW stats \in {"dead flow", "dead peer", "no peers"}, l = Blob(stats)
      PROVE  ~TellsLife(l)
  BY <1>5 DEF Blob
<1>6. ASSUME l = Text({}) PROVE ~TellsLife(l)
  BY <1>6 DEF Text
<1>7. l \in Ends => TellsEnd(l)
  BY <1>1, <1>2, <1>3, <1>4 DEF Ends
<1> QED BY <1>1, <1>2, <1>3, <1>4, <1>5, <1>6, <1>7 DEF Teardown, Ends

(* The signs of life are understood as such, and a CNAME alone is not one. *)
LEMMA LifeIsRead ==
  ASSUME NEW l \in LifeSigns \cup {Named}
  PROVE  ~TellsEnd(l) /\ (TellsLife(l) <=> l # Named)
<1> USE DEF TellsEnd, TellsLife, Parse, Says
<1>1. CASE l = Named
  BY <1>1 DEF Named, Text
<1>2. CASE l = Blob("live")
  BY <1>2 DEF Blob, Named, Text
<1>3. CASE l = Status("up")
  BY <1>3 DEF Status, Named, Text
<1>4. CASE l = Text({"connected"})
  BY <1>4 DEF Text, Named
<1>5. CASE l = Text({"added"})
  BY <1>5 DEF Text, Named
<1>6. CASE l = Text({"data output start"})
  BY <1>6 DEF Text, Named
<1>7. CASE l = Text({"flow"})
  BY <1>7 DEF Text, Named
<1>8. CASE l = Text({"connected", "cname"})
  <2>1. l.words = {"connected", "cname"} /\ l.status = "none" /\ Named.words = {"cname"}
    BY <1>8 DEF Text, Named
  <2>2. l # Named
    BY <2>1
  <2> QED BY <2>1, <2>2
<1> QED BY <1>1, <1>2, <1>3, <1>4, <1>5, <1>6, <1>7, <1>8 DEF LifeSigns

LEMMA NamedIsNoSign == Named \notin LifeSigns /\ ~TellsLife(Named) /\ ~TellsEnd(Named)
<1>1. /\ \A l \in LifeSigns : l = Named \/ TellsLife(l)
      /\ ~TellsLife(Named) /\ ~TellsEnd(Named)
  BY LifeIsRead
<1>2. ASSUME NEW l \in LifeSigns PROVE l # Named
  <2>1. Named.words = {"cname"}
    BY DEF Named, Text
  <2>2. /\ \A stats : Blob(stats).words = {}
        /\ \A to : Status(to).words = {"connected"}
        /\ \A words : Text(words).words = words
    BY DEF Blob, Status, Text
  <2>3. l.words # {"cname"}
    BY <2>2 DEF LifeSigns
  <2> QED BY <2>1, <2>3
<1> QED BY <1>1, <1>2

----------------------------------------------------------------------------
(* The types are inductive; the steps of the log, then the others. *)

LEMMA InitLogTypeOK == LogInit => LogTypeOK
BY DEF LogInit, LogTypeOK, Teardown

(* Whatever the log says, the types hold, and a stream that becomes active *)
(* does so by a sign of life whose path is allowed.                        *)
LEMMA StopTypeOK ==
  ASSUME LogTypeOK, StopActiveStream
  PROVE  /\ activePath' = Nobody
         /\ slot' \in {"free", "other"}
BY DEF LogTypeOK, StopActiveStream

LEMMA LineTypeOK ==
  ASSUME LogTypeOK, NEW l \in LifeSigns \cup Teardown \cup {Named}, HandleLine(l)
  PROVE  LogTypeOK'
<1> USE DEF LogTypeOK
<1>1. /\ line' \in LifeSigns \cup Teardown \cup {Named}
      /\ allowed' \in AllowedLists /\ named' \in BOOLEAN
  BY DEF HandleLine
<1>2. HeardName(l) \in Senders \cup {Nobody} /\ lastCNAME' = HeardName(l)
  BY DEF HandleLine, HeardName
<1>3. CASE Disconnect
  BY <1>1, <1>2, <1>3, StopTypeOK DEF Disconnect, Stays
<1>4. CASE Activity(HeardName(l))
  <2>1. PICK path \in StreamPath(HeardName(l)) :
           (IsAllowed(path) /\ Serve(path)) \/ (~IsAllowed(path) /\ Reject)
    BY <1>4 DEF Activity
  <2>2. path \in RawPaths /\ path # Nobody
    BY <1>2, <2>1, StreamPathType, SendersAssumption
  <2>3. CASE Serve(path)
    BY <1>1, <1>2, <2>2, <2>3 DEF Serve, Stays
  <2>4. CASE Reject
    BY <1>1, <1>2, <2>4, StopTypeOK DEF Reject, RestartReceiver, Stays
  <2> QED BY <2>1, <2>3, <2>4
<1>5. CASE Ignore
  BY <1>1, <1>2, <1>5 DEF Ignore, Stays
<1> QED BY <1>3, <1>4, <1>5 DEF HandleLine

LEMMA StepLogTypeOK == LogTypeOK /\ [LogNext]_logVars => LogTypeOK'
<1> SUFFICES ASSUME LogTypeOK, [LogNext]_logVars PROVE LogTypeOK'
  OBVIOUS
<1>1. CASE LogLine
  BY <1>1, LineTypeOK DEF LogLine
<1>2. CASE SenderComesOrGoes
  BY <1>2 DEF SenderComesOrGoes, LogTypeOK
<1>3. CASE SlotChanges
  BY <1>3 DEF SlotChanges, LogTypeOK
<1>4. CASE UNCHANGED logVars
  BY <1>4 DEF logVars, LogTypeOK
<1> QED BY <1>1, <1>2, <1>3, <1>4 DEF LogNext

(* The types of the variables, for any senders and lists. *)
THEOREM LogTyped == LogSpec => []LogTypeOK
BY InitLogTypeOK, StepLogTypeOK, PTL DEF LogSpec

----------------------------------------------------------------------------
(* What else is inductive: an end has stopped the stream, and who has been *)
(* named is the last one who was. *)

EndsStop == line \in Ends => activePath = Nobody
NameIsHeard == named => sender # Nobody /\ lastCNAME = sender
RejectedByName ==
    rejected # Nobody /\ (named \/ "cname" \in line.words) /\ Cardinality(allowed) # 1
        => ~IsAllowed(Normalize(rejected))

LogInv ==
    /\ LogTypeOK /\ EndsStop /\ NameIsHeard /\ RejectedByName
    /\ NamedIntruderIsCut /\ SinglePathRejectsOnlySlashes

(* Who is known when a line has been read, from that line or from one      *)
(* before it.                                                              *)
Knows(l) == named \/ "cname" \in l.words

(* What a line of each kind does. *)
LEMMA TeardownLine ==
  ASSUME LogInv, NEW l \in Teardown, HandleLine(l)
  PROVE  /\ l \notin LifeSigns \cup {Named} /\ line' = l
         /\ activePath' \in {activePath, Nobody} /\ (l \in Ends => activePath' = Nobody)
         /\ rejected' = Nobody /\ lastCNAME' = lastCNAME
         /\ UNCHANGED <<sender, named, allowed>>
<1>1. TellsEnd(l) \/ ~TellsLife(l)
  BY TeardownIsRead
<1>2. l \notin LifeSigns
  BY <1>1, LifeIsRead, NamedIsNoSign
<1>3. "cname" \notin l.words
  <2>1. /\ \A stats : Blob(stats).words = {}
        /\ \A to : Status(to).words = {"connected"}
        /\ \A words : Text(words).words = words
    BY DEF Blob, Status, Text
  <2>2. "cname" \notin {"connected"} \cup {"disconnected", "removed", "dead"}
    OBVIOUS
  <2>3. l \in Ends => "cname" \notin l.words
    BY <2>1, <2>2 DEF Ends
  <2>4. l \notin Ends => l.words = {}
    BY <2>1 DEF Teardown
  <2> QED BY <2>3, <2>4
<1>4. l # Named /\ lastCNAME' = lastCNAME /\ line' = l /\ UNCHANGED allowed
  BY <1>3 DEF HandleLine, HeardName, Named, Text
<1>5. rejected' = Nobody /\ sender' = sender
      /\ activePath' \in {activePath, Nobody} /\ (l \in Ends => activePath' = Nobody)
  BY <1>1, TeardownIsRead
     DEF HandleLine, Disconnect, StopActiveStream, Ignore, Stays
<1>6. named' = named
  BY <1>3, <1>5 DEF HandleLine, LogInv, LogTypeOK, NameIsHeard
<1> QED BY <1>2, <1>4, <1>5, <1>6

LEMMA NamedLine ==
  ASSUME LogInv, sender # Nobody, HandleLine(Named)
  PROVE  /\ Named \notin LifeSigns \cup Ends /\ line' = Named
         /\ lastCNAME' = sender /\ named' /\ rejected' = Nobody
         /\ UNCHANGED <<activePath, sender, allowed>>
<1>1. ~TellsEnd(Named) /\ ~TellsLife(Named) /\ Named \notin LifeSigns
  BY NamedIsNoSign
<1>2. Named \notin Ends
  BY <1>1, TeardownIsRead DEF Teardown
<1>3. "cname" \in Named.words
  BY DEF Named, Text
<1> QED BY <1>1, <1>2, <1>3 DEF HandleLine, HeardName, Ignore, Stays

LEMMA LifeLine ==
  ASSUME LogInv, sender # Nobody, NEW l \in LifeSigns, HandleLine(l)
  PROVE  /\ l \notin Ends /\ line' = l /\ UNCHANGED allowed
         /\ sender' \in {sender, Nobody} /\ rejected' \in {sender, Nobody}
         /\ named' = (sender' # Nobody /\ Knows(l))
         /\ Knows(l) => lastCNAME' = sender
         /\ rejected' # Nobody /\ Cardinality(allowed) <= 1
               => \E p \in allowed : p.slashes > 1
         /\ rejected' # Nobody /\ Knows(l) /\ Cardinality(allowed) # 1
               => ~IsAllowed(Normalize(sender))
         /\ Knows(l) /\ Cardinality(allowed) # 1 /\ ~IsAllowed(Normalize(sender))
               => activePath' = Nobody
<1>1. ~TellsEnd(l) /\ TellsLife(l)
  BY LifeIsRead, NamedIsNoSign
<1>2. l \notin Ends
  BY <1>1, TeardownIsRead DEF Teardown
<1>3. /\ line' = l /\ UNCHANGED allowed /\ lastCNAME' = HeardName(l)
      /\ named' = (sender' # Nobody /\ Knows(l))
  BY DEF HandleLine, Knows
<1>4. Knows(l) => HeardName(l) = sender
  BY DEF Knows, HeardName, LogInv, NameIsHeard
<1>5. PICK path \in StreamPath(HeardName(l)) :
         (IsAllowed(path) /\ Serve(path)) \/ (~IsAllowed(path) /\ Reject)
  BY <1>1 DEF HandleLine, Activity
<1>6. Knows(l) /\ Cardinality(allowed) # 1 => path = Normalize(sender)
  BY <1>4, <1>5 DEF StreamPath
<1>7. CASE IsAllowed(path) /\ Serve(path)
  BY <1>2, <1>3, <1>4, <1>6, <1>7 DEF Serve, Stays
<1>8. CASE ~IsAllowed(path) /\ Reject
  <2>1. Cardinality(allowed) <= 1 => \E p \in allowed : p.slashes > 1
    BY <1>5, <1>8, SinglePathIsAllowed DEF LogInv
  <2>2. /\ activePath' = Nobody /\ rejected' = sender
        /\ sender' \in {sender, Nobody}
    BY <1>8 DEF Reject, StopActiveStream, RestartReceiver, Stays
  <2> QED BY <1>2, <1>3, <1>4, <1>6, <1>8, <2>1, <2>2
<1> QED BY <1>5, <1>7, <1>8

LEMMA InitLogInv == LogInit => LogInv
<1> SUFFICES ASSUME LogInit PROVE LogInv
  OBVIOUS
<1> QED BY InitLogTypeOK DEF LogInit, LogInv, EndsStop, NameIsHeard, RejectedByName,
           NamedIntruderIsCut, SinglePathRejectsOnlySlashes

(* What every step does: the bodies of the action properties.              *)
StepIsRight ==
    /\ line' \in Teardown => activePath' \in {activePath, Nobody}
    /\ line' \in Ends => activePath' = Nobody
    /\ rejected' # Nobody /\ Knows(line') /\ Cardinality(allowed) # 1
          => ~IsAllowed(Normalize(rejected'))

LEMMA TeardownKeepsInv ==
  ASSUME LogInv, NEW l \in Teardown, HandleLine(l) PROVE LogInv' /\ StepIsRight
<1>1. LogTypeOK'
  BY LineTypeOK DEF LogInv
<1>2. EndsStop' /\ NameIsHeard' /\ RejectedByName' /\ SinglePathRejectsOnlySlashes'
  BY TeardownLine
     DEF LogInv, EndsStop, NameIsHeard, RejectedByName, SinglePathRejectsOnlySlashes
<1>3. NamedIntruderIsCut'
  BY TeardownLine DEF NamedIntruderIsCut
<1> QED BY <1>1, <1>2, <1>3, TeardownLine DEF LogInv, StepIsRight

LEMMA NamedKeepsInv ==
  ASSUME LogInv, sender # Nobody, HandleLine(Named) PROVE LogInv' /\ StepIsRight
<1>1. LogTypeOK'
  BY LineTypeOK DEF LogInv
<1>2. Named \notin Teardown
  BY TeardownLine
<1>3. EndsStop' /\ NameIsHeard' /\ RejectedByName' /\ SinglePathRejectsOnlySlashes'
  BY NamedLine DEF EndsStop, NameIsHeard, RejectedByName, SinglePathRejectsOnlySlashes
<1>4. NamedIntruderIsCut'
  BY NamedLine DEF NamedIntruderIsCut
<1> QED BY <1>1, <1>2, <1>3, <1>4, NamedLine DEF LogInv, StepIsRight

LEMMA LifeKeepsInv ==
  ASSUME LogInv, sender # Nobody, NEW l \in LifeSigns, HandleLine(l)
  PROVE  LogInv' /\ StepIsRight
<1>1. LogTypeOK'
  BY LineTypeOK DEF LogInv
<1>2. l \notin Teardown
  BY TeardownLine
<1>3. \A p : IsAllowed(p)' <=> IsAllowed(p')
  BY LifeLine DEF IsAllowed
<1>4. EndsStop' /\ NameIsHeard' /\ SinglePathRejectsOnlySlashes'
  BY LifeLine DEF EndsStop, NameIsHeard, SinglePathRejectsOnlySlashes
<1>5. RejectedByName'
  BY <1>3, LifeLine DEF RejectedByName, Knows, IsAllowed
<1>6. NamedIntruderIsCut'
  BY <1>3, LifeLine DEF NamedIntruderIsCut, IsAllowed
<1> QED BY <1>1, <1>2, <1>4, <1>5, <1>6, LifeLine DEF LogInv, StepIsRight

(* The same for an arbitrary step. *)
LEMMA StepLogInv == LogInv /\ [LogNext]_logVars => LogInv' /\ [StepIsRight]_logVars
<1> SUFFICES ASSUME LogInv, [LogNext]_logVars PROVE LogInv' /\ [StepIsRight]_logVars
  OBVIOUS
<1> USE DEF LogInv, EndsStop, NameIsHeard, RejectedByName, NamedIntruderIsCut,
            SinglePathRejectsOnlySlashes, IsAllowed
<1>1. LogTypeOK'
  BY StepLogTypeOK
<1>2. CASE LogLine
  BY <1>2, TeardownKeepsInv, NamedKeepsInv, LifeKeepsInv DEF LogLine
<1>3. CASE SenderComesOrGoes
  <2>1. ~named' /\ UNCHANGED <<allowed, lastCNAME, activePath, line, rejected>>
    BY <1>3 DEF SenderComesOrGoes
  <2> QED BY <1>1, <2>1 DEF StepIsRight, Knows
<1>4. CASE SlotChanges
  <2>1. UNCHANGED <<allowed, lastCNAME, activePath, sender, named, line, rejected>>
    BY <1>4 DEF SlotChanges
  <2> QED BY <1>1, <2>1 DEF StepIsRight, Knows
<1>5. CASE UNCHANGED logVars
  BY <1>1, <1>5 DEF logVars
<1> QED BY <1>2, <1>3, <1>4, <1>5 DEF LogNext

LEMMA LogInvariant == LogSpec => []LogInv /\ [][StepIsRight]_logVars
BY InitLogInv, StepLogInv, PTL DEF LogSpec

(* NamedIntruderIsCut of RistLog: a sender that is not allowed is not      *)
(* relayed once the log has shown its CNAME and a sign of life.            *)
THEOREM IntruderIsCut == LogSpec => []NamedIntruderIsCut
BY LogInvariant, PTL DEF LogInv

(* SinglePathRejectsOnlySlashes of RistLog: with one allowed path, or      *)
(* none, nobody is rejected, unless that path ends in two slashes.         *)
THEOREM SinglePathRejects == LogSpec => []SinglePathRejectsOnlySlashes
BY LogInvariant, PTL DEF LogInv

(* TeardownIsNotActivity of RistLog: no line of a teardown makes a stream  *)
(* active, and those that tell of an end stop it.                          *)
THEOREM TeardownNeverActivates == LogSpec => TeardownIsNotActivity
<1>1. StepIsRight => (/\ line' \in Teardown => activePath' \in {activePath, Nobody}
                      /\ line' \in Ends => activePath' = Nobody)
  BY DEF StepIsRight
<1> QED BY <1>1, LogInvariant, PTL DEF TeardownIsNotActivity

(* NamedSenderIsJudgedByItsName of RistLog: where paths are told apart,    *)
(* who has been named is rejected only for a path of its own that is not   *)
(* allowed.                                                                *)
THEOREM JudgedByName == LogSpec => NamedSenderIsJudgedByItsName
<1>1. StepIsRight =>
        (rejected' # Nobody /\ (named \/ "cname" \in line'.words)
              /\ Cardinality(allowed) # 1
            => ~IsAllowed(Normalize(rejected')))
  BY DEF StepIsRight, Knows
<1> QED BY <1>1, LogInvariant, PTL DEF NamedSenderIsJudgedByItsName
=============================================================================
