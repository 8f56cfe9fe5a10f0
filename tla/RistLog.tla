------------------------------ MODULE RistLog ------------------------------
(***************************************************************************)
(* How the RIST adapter reads ristreceiver: the classification of a line   *)
(* of its log (rist/stats.go), what a line makes the adapter do, and the   *)
(* path it takes a stream to have (rist/server.go, auth/auth.go).          *)
(*                                                                         *)
(* A line is what ParseLogLine and handleLogLine look for in it.  The      *)
(* calls to manager and relay are one step here; that others come between  *)
(* is the subject of module Ingest, and lines that outlive their process   *)
(* of module RistReceiver.                                                 *)
(***************************************************************************)
EXTENDS FiniteSets, Naturals

CONSTANTS
    Dirs,          \* stream paths, apart from slashes at their end
    streamDir,     \* the one of the default path, "/live/stream"
    Nobody,
    Senders,       \* CNAMEs of senders
    AllowedLists   \* values of the setting auth.allowed_paths

(* A raw path: a slash in front, white space and a query string do not     *)
(* matter, a slash at the end may.                                         *)
RawPaths == [dir : Dirs, slashes : Nat]

ASSUME SendersAssumption ==
    /\ streamDir \in Dirs /\ Nobody \notin RawPaths
    /\ Senders \subseteq RawPaths

ASSUME ListsAssumption ==
    /\ AllowedLists \subseteq SUBSET RawPaths
    /\ \A list \in AllowedLists : IsFiniteSet(list)

VARIABLES
    allowed,    \* the setting, read once
    lastCNAME,  \* s.lastCNAME
    activePath, \* s.activePath, Nobody when s.active is false
    slot,       \* whose the slot is: "free", "rist" or "other"
    sender,     \* external: who is connected to ristreceiver
    named,      \* external: the log has its CNAME already
    line,       \* the line handled last
    rejected    \* the sender whose path that line found not allowed

logVars == <<allowed, lastCNAME, activePath, slot, sender, named, line, rejected>>

----------------------------------------------------------------------------
(* Paths *)

(* NormalizePath takes one slash off the end.  It is not idempotent. *)
Normalize(p) == [p EXCEPT !.slashes = IF @ > 0 THEN @ - 1 ELSE 0]

IsAllowed(p) == allowed # {} => \E a \in allowed : Normalize(a) = Normalize(p)

(* Seeded fault: the CNAME also where a single path is allowed. *)
StreamPathByName(cname) ==
    {IF cname # Nobody THEN Normalize(cname) ELSE Normalize(p) : p \in allowed}

(* The path of the stream: that of a list of one; the last CNAME heard;    *)
(* without one that of the stream that is active, one of the list (its     *)
(* first), or the default.                                                 *)
StreamPath(cname) ==
    LET listed == {Normalize(p) : p \in allowed} IN
    IF Cardinality(allowed) = 1 THEN listed
    ELSE IF cname # Nobody THEN {Normalize(cname)}
    ELSE IF activePath # Nobody THEN {Normalize(activePath)}
    ELSE IF allowed # {} THEN listed
    ELSE {[dir |-> streamDir, slashes |-> 0]}

----------------------------------------------------------------------------
(* Lines *)

(* stats: the JSON blob, with or without peers, with the dead flags.       *)
(* status: "connection status changed", to established or connected, or to *)
(* timed out.  words: what is looked for in the text, of which a status    *)
(* line and "disconnected" contain "connected" as well.                    *)
Blob(stats) == [stats |-> stats, status |-> "none", words |-> {}]
Text(words) == [stats |-> "none", status |-> "none", words |-> words]
Status(to) == [stats |-> "none", status |-> to, words |-> {"connected"}]

Named == Text({"cname"})
LifeSigns == {Blob("live"), Status("up"), Text({"connected"}), Text({"connected", "cname"}),
              Text({"added"}), Text({"data output start"}), Text({"flow"})}
Ends == {Status("down"), Text({"disconnected", "connected"}), Text({"removed"}),
         Text({"dead"})}
Teardown == Ends \cup {Blob("dead flow"), Blob("dead peer"), Blob("no peers"), Text({})}

Says(l, words) == \E w \in words : w \in l.words

(* Seeded fault: "connected" is looked for in a status line as well. *)
ParseWordsFirst(l) ==
    LET gone == Says(l, {"disconnected", "removed"}) IN
    [hasStats |-> l.stats = "live",
     disconnected |-> gone,
     connected |-> ~gone /\ Says(l, {"connected", "added"})]

(* ParseLogLine: a status says more than words, and "disconnected" is      *)
(* looked for before "connected".                                          *)
Parse(l) ==
    LET gone == Says(l, {"disconnected", "removed"}) IN
    [hasStats |-> l.stats = "live",
     disconnected |-> l.status = "down" \/ (l.status = "none" /\ gone),
     connected |-> \/ l.status = "up"
                   \/ l.status = "none" /\ ~gone /\ Says(l, {"connected", "added"})]

(* What handleLogLine looks for besides. *)
TellsEnd(l) == Parse(l).disconnected \/ Says(l, {"dead"})
TellsLife(l) == \/ Parse(l).connected \/ Parse(l).hasStats
                \/ Says(l, {"data output start", "flow"})

----------------------------------------------------------------------------
LogInit ==
    /\ allowed \in AllowedLists
    /\ lastCNAME = Nobody /\ activePath = Nobody /\ slot = "free"
    /\ sender = Nobody /\ named = FALSE
    /\ line = Text({}) /\ rejected = Nobody

Stays == UNCHANGED sender

(* stopActiveStreamLocked: the closure ends the slot if it is the adapter's. *)
StopActiveStream ==
    /\ activePath' = Nobody
    /\ slot' = IF activePath # Nobody /\ slot = "rist" THEN "free" ELSE slot

(* Seeded fault: the slot is not released. *)
DisconnectKeepsSlot ==
    activePath' = Nobody /\ rejected' = Nobody /\ Stays /\ UNCHANGED slot

(* handleDisconnect *)
Disconnect == StopActiveStream /\ rejected' = Nobody /\ Stays

(* The receiver is restarted, which cuts the sender off, if that was not   *)
(* done less than minForcedRestartGap ago.                                 *)
RestartReceiver == Stays \/ sender' = Nobody

(* Seeded fault: the receiver is restarted, the stream that was active     *)
(* before is not stopped.                                                  *)
RejectKeepsStream ==
    rejected' = sender /\ RestartReceiver /\ UNCHANGED <<activePath, slot>>

(* A path that is not allowed. *)
Reject == StopActiveStream /\ rejected' = sender /\ RestartReceiver

(* The slot is the adapter's own, or it believes so while anyone has it;   *)
(* otherwise it asks for it, and starts the relay, which may fail.         *)
Serve(path) ==
    /\ \/ activePath # Nobody /\ slot # "free" /\ UNCHANGED <<activePath, slot>>
       \/ slot = "free" /\ slot' = "rist" /\ activePath' = path
       \/ /\ activePath = Nobody \/ slot = "free"
          /\ activePath' = Nobody /\ UNCHANGED slot
    /\ Stays /\ rejected' = Nobody

(* handleActivity *)
Activity(cname) ==
    \E path \in StreamPath(cname) :
        \/ IsAllowed(path) /\ Serve(path)
        \/ ~IsAllowed(path) /\ Reject

(* Seeded fault: the first CNAME stays. *)
FirstName(l) ==
    IF "cname" \in l.words /\ lastCNAME = Nobody THEN sender ELSE lastCNAME

(* The CNAME of the sender that is connected, in a line that shows it. *)
HeardName(l) == IF "cname" \in l.words THEN sender ELSE lastCNAME

(* Any other line changes nothing else. *)
Ignore == rejected' = Nobody /\ Stays /\ UNCHANGED <<activePath, slot>>

(* handleLogLine *)
HandleLine(l) ==
    /\ line' = l /\ lastCNAME' = HeardName(l) /\ UNCHANGED allowed
    /\ \/ TellsEnd(l) /\ Disconnect
       \/ ~TellsEnd(l) /\ TellsLife(l) /\ Activity(HeardName(l))
       \/ ~TellsEnd(l) /\ ~TellsLife(l) /\ Ignore
    /\ named' = (sender' # Nobody /\ (named \/ "cname" \in l.words))

(* External: the log shows signs of life and a CNAME of the sender that is *)
(* connected, and at any time how an earlier one is torn down.             *)
LogLine ==
    \/ sender # Nobody /\ \E l \in LifeSigns \cup {Named} : HandleLine(l)
    \/ \E l \in Teardown : HandleLine(l)

(* External: senders come and go, one at a time; the other protocols take  *)
(* the slot and leave it; the watchdog ends the slot.                      *)
SenderComesOrGoes ==
    /\ \/ sender = Nobody /\ sender' \in Senders
       \/ sender # Nobody /\ sender' = Nobody
    /\ named' = FALSE
    /\ UNCHANGED <<allowed, lastCNAME, activePath, slot, line, rejected>>

SlotChanges ==
    /\ slot' \in IF slot = "free" THEN {"other"} ELSE {"free"}
    /\ UNCHANGED <<allowed, lastCNAME, activePath, sender, named, line, rejected>>

LogNext == LogLine \/ SenderComesOrGoes \/ SlotChanges

LogSpec == LogInit /\ [][LogNext]_logVars

----------------------------------------------------------------------------
(* Properties *)

(* The types of the variables; the adapter knows of a slot it has. *)
LogTypeOK ==
    /\ allowed \in AllowedLists
    /\ lastCNAME \in Senders \cup {Nobody}
    /\ activePath \in RawPaths \cup {Nobody}
    /\ slot \in {"free", "rist", "other"} /\ (slot = "rist" => activePath # Nobody)
    /\ sender \in Senders \cup {Nobody} /\ named \in BOOLEAN
    /\ line \in LifeSigns \cup Teardown \cup {Named}
    /\ rejected \in Senders \cup {Nobody}

(* stats.go:30 and 70: no line of a teardown counts as activity, or the    *)
(* slot would be taken again by the stream that ends; and the lines that   *)
(* tell of an end do end the stream.                                       *)
TeardownIsNotActivity ==
    [][/\ line' \in Teardown => activePath' \in {activePath, Nobody}
       /\ line' \in Ends => activePath' = Nobody]_logVars

(* server.go:333: where paths are told apart, a sender whose CNAME the log *)
(* has shown, in this line at the latest, is not rejected for the CNAME of *)
(* the sender before it, which nobody cleared.                             *)
NamedSenderIsJudgedByItsName ==
    [][rejected' # Nobody /\ (named \/ "cname" \in line'.words)
            /\ Cardinality(allowed) # 1
          => ~IsAllowed(Normalize(rejected'))]_logVars

(* server.go:375: where paths are told apart, a sender that is not allowed *)
(* is not relayed any more once the log has shown its CNAME and then a     *)
(* sign of life: not under its own path, nor under that of a stream that   *)
(* was active before.                                                      *)
NamedIntruderIsCut ==
    named /\ line \in LifeSigns /\ Cardinality(allowed) # 1
        /\ ~IsAllowed(Normalize(sender)) => activePath = Nobody

(* server.go:356: a single allowed path is routed to directly, without     *)
(* matching the CNAME, and where none is listed everybody is allowed.  But *)
(* the single path is normalised as the stream's and once more as it is    *)
(* looked up, so that two slashes at its end reject every sender; nothing  *)
(* else does.                                                              *)
SinglePathRejectsOnlySlashes ==
    Cardinality(allowed) <= 1 /\ rejected # Nobody
        => \E p \in allowed : p.slashes > 1
=============================================================================
