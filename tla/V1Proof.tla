------------------------------ MODULE V1Proof ------------------------------
(***************************************************************************)
(* What holds of V1 for every number of streams and of requests.           *)
(***************************************************************************)
EXTENDS V1, TLAPS

SlotType == [Streams -> Pids \cup {NoPid}]
ChildType == [Pids -> Live \cup Ended \cup {"none", "reaped"}]
FsType == {"absent", "old", "new"}

(* The type invariant is not inductive: that the index of the loop stays in *)
(* its range, and that a slot is only given the pid of a child of a request, *)
(* depends on where the father is.                                          *)
LoopBound == pc = "forked" => i <= N
Asked == pc \in {"offered", "spawn", "forked", "report", "failed", "hup"} => cur > 0

TypeInv == TypeOK /\ LoopBound /\ Asked

-----------------------------------------------------------------------------
(* At most one answer to a request.                                        *)

\* Before the first child is started nothing has been said ...
Silent ==
  /\ pc \in {"offered", "spawn", "forked", "report"} => sent = <<>>
  /\ pc \in {"offered", "spawn", "forked"} => childendinerror = 0
  /\ pc = "offered" => pid_child = NoChild /\ \A s \in Streams : child[<<cur, s>>] = "none"

\* ... and while the father is starting the children they do nothing but wait, ...
ChildrenWait ==
  pc \in {"spawn", "forked"} =>
    \A s \in Streams : /\ child[<<cur, s>>] \in {"none", "waiting"}
                       /\ pid_child[s] \in {NoPid, <<cur, s>>}

\* ... for nobody has started those of a request that was not made.
Unborn == \A p \in Pids : p[1] > cur => child[p] = "none"

\* After the answer the handler says no more: it finds nobody, or an error that was
\* reported.
Accounted ==
  /\ sent # <<>> => Len(sent) = 1 /\ (pid_child = NoChild \/ childendinerror = 1)
  /\ pc = "report" => pid_child = NoChild \/ childendinerror = 1

Said == Silent /\ ChildrenWait /\ Unborn /\ Accounted

AnswerInv == TypeInv /\ Said

-----------------------------------------------------------------------------
(* A store that has failed leaves no file.                                 *)

\* Only a store makes a file, ...
OnlyStores == cur = 0 \/ kind[cur] # "store" => fs # "new"

\* ... and once an error was noticed, or reported, it is gone.
GoneAfterError ==
  /\ childendinerror = 1 \/ sent = <<"BAD">> \/ pc \in {"report", "failed"} => fs # "new"
  /\ pc = "offered" => kind[cur] = "retr"

\* The first error removes it, for the flag is set until the transfer has ended.
WillUnlink ==
  /\ (pc \in {"spawn", "forked"} \/ state # "LOGGED") /\ sent = <<>> /\ childendinerror = 0
       /\ Storing => unlinkfile = 1
  /\ pc \in {"spawn", "forked", "report", "failed", "hup"} \/ state # "LOGGED" => cur > 0

\* The next request is read after an answer, unless nothing was made.
AnsweredFirst ==
  /\ pc \in {"top", "select"} /\ state = "LOGGED" /\ sent = <<>> => fs # "new"
  /\ pc = "hup" /\ state = "LOGGED" => sent # <<>>
  /\ pc \in {"top", "select", "hup", "failed"} /\ childendinerror = 1 => sent # <<>>
  /\ sent # <<>> => cur # 0

\* Whoever is in the table outside of a transfer is there because its start failed.
LeftOver == /\ Running /\ state = "LOGGED" /\ pid_child # NoChild /\ childendinerror = 0 =>
                 pc \in {"spawn", "forked"}
            /\ pc \in {"offered", "spawn", "forked", "report", "failed"} => state = "LOGGED"
            /\ pc = "failed" => sent # <<>>

Placed == OnlyStores /\ GoneAfterError /\ WillUnlink /\ AnsweredFirst /\ LeftOver

FileInv == AnswerInv /\ Placed

-----------------------------------------------------------------------------
(* MSG_OK means that the file is complete.                                 *)

\* With a client that waits, nobody of an earlier request is alive.
OthersAreGone == \A p \in Pids : p[1] < cur => child[p] \notin Live

\* The father is in a transfer in which no error was noticed.
InCourse == /\ pc \in {"spawn", "forked"} \/ (state # "LOGGED" /\ Running)
            /\ childendinerror = 0

\* A slot is of the child of its stream, ...
OwnSlots == /\ \A s \in Streams : pid_child[s] \in {NoPid, <<cur, s>>}
            /\ pc = "offered" => i = 1

\* ... which is there until it is collected, and it was collected because it has received
\* the stream ...
CollectedIsReceived ==
  InCourse => \A s \in Streams :
    \/ pid_child[s] = <<cur, s>>
    \/ child[<<cur, s>>] = "reaped" /\ s \in recvd
    \/ pc \in {"spawn", "forked"} /\ s >= i

\* ... (the ones that end well have),
DoneIsReceived ==
  \A s \in Streams : cur > 0 /\ child[<<cur, s>>] \in {"done", "ok"} => s \in recvd

\* ... and if the file is gone there is somebody who ended badly.
GoneByFailure ==
  InCourse /\ Storing /\ fs # "new" =>
    \E s \in Streams : child[<<cur, s>>] \in {"failing", "bad", "killed"}

\* After MSG_OK nobody is left to remove the file.
Kept ==
  OkSent /\ kind[cur] \in {"store", "retr"} =>
    /\ recvd = Streams /\ (Storing => fs = "new")
    /\ unlinkfile = 0 /\ childendinerror = 0
    /\ \A p \in Pids : child[p] \notin Live

Complete == /\ OthersAreGone /\ OwnSlots /\ CollectedIsReceived /\ DoneIsReceived
            /\ GoneByFailure /\ Kept

CompleteInv == FileInv /\ Complete

-----------------------------------------------------------------------------
(* Types.                                                                  *)

\* Killing and collecting children keep the type of their table.
LEMMA KillType == ASSUME NEW victims, NEW c \in ChildType PROVE Kill(victims, c) \in ChildType
BY DEF Kill, ChildType, Ended

LEMMA ReapedType == ASSUME TypeOK PROVE Reaped \in ChildType
BY DEF Reaped, TypeOK, ChildType

LEMMA CleanType == ASSUME TypeOK, CleanChild
                   PROVE child' \in ChildType /\ killdone' \in {0, 1} /\ sigchld' \in BOOLEAN
<1>1. child \in ChildType
  BY DEF TypeOK, ChildType
<1>2. child' \in ChildType
  BY <1>1, KillType DEF CleanChild
<1>3. sigchld \in BOOLEAN /\ (Victims # {}) \in BOOLEAN
  BY DEF TypeOK
<1> QED BY <1>2, <1>3 DEF CleanChild

\* The slots keep their type when children are collected.
LEMMA SlotsType == ASSUME TypeOK PROVE Slots \in SlotType
BY DEF Slots, TypeOK, SlotType

\* Only final answers are recorded as sent, also when a reply fails.
LEMMA ToldType == ASSUME TypeOK
                  PROVE  /\ Told("OK") \in Seq({"OK", "BAD"}) /\ Told("BAD") \in Seq({"OK", "BAD"})
                         /\ Append(sent, "BAD") \in Seq({"OK", "BAD"})
BY DEF Told, TypeOK

LEMMA AnswersType == /\ <<"OK">> \in Seq({"OK", "BAD"}) /\ <<"BAD">> \in Seq({"OK", "BAD"})
                     /\ <<>> \in Seq({"OK", "BAD"})
OBVIOUS

LEMMA ReplyType ==
  ASSUME NEW next, Reply("OK", next) \/ Reply("BAD", next)
  PROVE  sent' \in Seq({"OK", "BAD"}) /\ pc' \in {next, "exit"}
<1>1. CASE Reply("OK", next)
  BY <1>1, AnswersType, Zenon DEF Reply
<1>2. CASE Reply("BAD", next)
  BY <1>2, AnswersType, Zenon DEF Reply
<1> QED BY <1>1, <1>2

\* What a request leaves in its variables.
LEMMA TakeType ==
  ASSUME TypeOK, NEW k \in {"store", "retr", "mkdir", "chdir", "list", "other"}, Take(k)
  PROVE  /\ cur' \in 1..MaxRequests /\ pid_child' \in SlotType /\ i' \in 1..(N + 1)
         /\ kind' \in [Requests -> {"none", "store", "retr", "mkdir", "chdir", "list", "other"}]
BY BoundsAssumption DEF TypeOK, Take, SlotType, NoChild, Streams, Requests

LEMMA BeforeType == ASSUME TypeOK PROVE Before \in FsType
BY DEF TypeOK, Before, FsType

\* The requests.
LEMMA TakenType == ASSUME TypeInv, NEW k \in {"store", "retr", "mkdir", "chdir", "list", "other"},
                          Take(k), fs' \in FsType, unlinkfile' \in {0, 1},
                          childendinerror' \in {0, 1}, recvd' \subseteq Streams,
                          sent' \in Seq({"OK", "BAD"}),
                          pc' \in {"top", "quit", "exit", "offered", "spawn"}
                   PROVE  TypeInv'
<1>1. /\ cur' \in 1..MaxRequests /\ pid_child' \in SlotType /\ i' \in 1..(N + 1)
      /\ kind' \in [Requests -> {"none", "store", "retr", "mkdir", "chdir", "list", "other"}]
  BY TakeType DEF TypeInv
<1>2. UNCHANGED <<state, timed, killdone, sigchld, child>>
  BY DEF Take
<1>3. TypeOK'
  BY <1>1, <1>2, BoundsAssumption DEF TypeInv, TypeOK, SlotType, FsType, Pids, NoPid, Streams, Requests
<1>4. LoopBound' /\ Asked'
  BY <1>1, BoundsAssumption DEF LoopBound, Asked
<1> QED BY <1>3, <1>4 DEF TypeInv

LEMMA RequestType ==
  ASSUME TypeInv, StoreRefused \/ StoreEmpty \/ StoreNoSpace \/ StoreAccepted \/ RetrRefused
                  \/ RetrOffered \/ RequestBroken
  PROVE  TypeInv'
<1> USE ReplyType, BeforeType DEF FsType, TypeInv
<1>1. CASE StoreRefused
  BY <1>1, TakenType DEF StoreRefused
<1>2. CASE StoreEmpty
  BY <1>2, TakenType DEF StoreEmpty
<1>3. CASE StoreNoSpace
  BY <1>3, TakenType DEF StoreNoSpace
<1>4. CASE StoreAccepted
  BY <1>4, TakenType DEF StoreAccepted
<1>5. CASE RetrRefused
  BY <1>5, TakenType DEF RetrRefused
<1>6. CASE RetrOffered
  BY <1>6, TakenType DEF RetrOffered
<1>7. CASE RequestBroken
  BY <1>7, TakenType DEF RequestBroken
<1> QED BY <1>1, <1>2, <1>3, <1>4, <1>5, <1>6, <1>7

LEMMA OtherType ==
  ASSUME TypeInv, CreateDir \/ ChangeDir \/ SendList \/ NotAvailable
  PROVE  TypeInv'
<1>1. ASSUME NEW k \in {"store", "retr", "mkdir", "chdir", "list", "other"}, Other(k),
             sent' \in Seq({"OK", "BAD"}), pc' \in {"top", "quit", "exit"}
      PROVE  TypeInv'
  <2>1. childendinerror' \in {0, 1} /\ fs' \in FsType
    BY <1>1, BeforeType DEF Other, TypeInv, TypeOK
  <2> QED BY <1>1, <2>1, TakenType DEF Other
<1>2. Tried => sent' \in Seq({"OK", "BAD"}) /\ pc' \in {"top", "exit"}
  BY ReplyType DEF Tried
<1>3. CannotReadPath => sent' \in Seq({"OK", "BAD"}) /\ pc' \in {"quit", "exit"}
  <2>1. CASE "break" \in Faults /\ sent' = <<>> /\ pc' = "quit"
    BY <2>1, AnswersType
  <2>2. CASE Reply("BAD", "quit")
    BY <2>2, ReplyType
  <2> QED BY <2>1, <2>2 DEF CannotReadPath
<1>4. CASE CreateDir
  BY <1>1, <1>2, <1>3, <1>4 DEF CreateDir
<1>5. CASE ChangeDir
  BY <1>1, <1>2, <1>3, <1>5 DEF ChangeDir
<1>6. CASE SendList
  <2>1. CASE sent' = <<"OK">> /\ pc' = "top"
    BY <1>1, <1>6, <2>1, AnswersType DEF SendList
  <2>2. CASE Reply("BAD", "top")
    BY <1>1, <1>6, <2>2, ReplyType DEF SendList
  <2>3. CASE CannotReadPath
    BY <1>1, <1>3, <1>6, <2>3 DEF SendList
  <2> QED BY <1>6, <2>1, <2>2, <2>3 DEF SendList
<1>7. CASE NotAvailable
  BY <1>1, <1>7, ReplyType DEF NotAvailable
<1> QED BY <1>4, <1>5, <1>6, <1>7

LEMMA LoopType ==
  ASSUME TypeInv, MessageInTransfer \/ Disconnect \/ IdleTimeout \/ Wait \/ Quit \/ RetrStarts
  PROVE  TypeInv'
<1> USE DEF TypeInv, TypeOK, LoopBound, Asked
<1>1. CASE MessageInTransfer \/ Disconnect \/ IdleTimeout
  BY <1>1 DEF MessageInTransfer, Disconnect, IdleTimeout, Leaves, flagVars
<1>2. CASE Wait
  BY <1>2 DEF Wait, flagVars
<1>3. CASE Quit
  BY <1>3, CleanType DEF Quit, ChildType
<1>4. CASE RetrStarts
  BY <1>4 DEF RetrStarts, flagVars
<1> QED BY <1>1, <1>2, <1>3, <1>4

\* The start of the children.
LEMMA StartType ==
  ASSUME TypeInv, \/ Spawn \/ SpawnFails \/ Report \/ GiveUpStart
                  \/ Record \/ AllForked \/ Release \/ Released
  PROVE  TypeInv'
<1> USE BoundsAssumption DEF TypeInv, TypeOK, LoopBound, Asked
<1>1. CASE Spawn
  BY <1>1 DEF Spawn, flagVars, Live
<1>2. CASE SpawnFails
  BY <1>2 DEF SpawnFails, UnlinkStored
<1>3. CASE Report
  <2>1. sent' \in Seq({"OK", "BAD"}) /\ pc' \in {"failed", "exit"}
    BY <1>3, ToldType DEF Report
  <2>2. child' \in ChildType /\ killdone' \in {0, 1} /\ sigchld' \in BOOLEAN
    BY <1>3, CleanType DEF Report, ChildType
  <2> QED BY <1>3, <2>1, <2>2 DEF Report, ChildType
<1>4. CASE GiveUpStart
  BY <1>4, CleanType DEF GiveUpStart, ChildType
<1>5. CASE Record
  <2>1. i \in Streams /\ cur \in Requests
    BY <1>5 DEF Record, Streams, Requests
  <2>2. pid_child' \in [Streams -> Pids \cup {NoPid}]
    BY <1>5, <2>1 DEF Record, Pids
  <2>3. i' \in 1..(N + 1)
    BY <1>5, <2>1 DEF Record, Streams
  <2> QED BY <1>5, <2>2, <2>3 DEF Record, flagVars
<1>6. CASE AllForked
  BY <1>6 DEF AllForked, flagVars
<1>7. CASE Release
  <2>1. child' \in [Pids -> Live \cup Ended \cup {"none", "reaped"}]
    BY <1>7 DEF Release, Live
  <2> QED BY <1>7, <2>1 DEF Release, flagVars
<1>8. CASE Released
  BY <1>8 DEF Released, flagVars
<1> QED BY <1>1, <1>2, <1>3, <1>4, <1>5, <1>6, <1>7, <1>8

\* The handlers.
LEMMA HandlerType ==
  ASSUME TypeInv, Signal \/ Sigterm
  PROVE  TypeInv'
<1> USE DEF TypeInv, TypeOK, LoopBound, Asked
<1>1. Reaped \in [Pids -> Live \cup Ended \cup {"none", "reaped"}]
      /\ Slots \in [Streams -> Pids \cup {NoPid}] /\ Again \subseteq BOOLEAN
  BY ReapedType, SlotsType DEF ChildType, SlotType, Again
<1>2. CASE SigchldNone
  BY <1>2 DEF SigchldNone, fatherVars, flagVars
<1>3. CASE SigchldPart
  BY <1>1, <1>3 DEF SigchldPart, flagVars
<1>4. CASE SigchldSuccess
  <2>1. sent' \in Seq({"OK", "BAD"}) /\ (pc' = pc \/ pc' = "exit")
    BY <1>4, ToldType DEF SigchldSuccess
  <2> QED BY <1>1, <1>4, <2>1 DEF SigchldSuccess
<1>5. CASE SigchldFailure
  <2>1. sent' \in Seq({"OK", "BAD"}) /\ (pc' = pc \/ pc' = "exit")
    BY <1>5, ToldType DEF SigchldFailure
  <2>2. fs' \in FsType
    BY <1>5 DEF SigchldFailure, UnlinkAsked, FsType
  <2>3. child' \in ChildType /\ sigchld' \in BOOLEAN
    BY <1>1, <1>5, KillType DEF SigchldFailure, ChildType
  <2>4. /\ state' \in {"LOGGED", "RECEIVING", "SENDING"} /\ unlinkfile' \in {0, 1}
        /\ childendinerror' \in {0, 1} /\ killdone' \in {0, 1}
    BY <1>5 DEF SigchldFailure
  <2> QED BY <1>1, <1>5, <2>1, <2>2, <2>3, <2>4 DEF SigchldFailure, FsType, ChildType
<1>6. CASE Sigterm
  BY <1>6, CleanType DEF Sigterm, ChildType, UnlinkAsked
<1> QED BY <1>2, <1>3, <1>4, <1>5, <1>6 DEF Signal

\* A child leaves the father's variables as they are.
LEMMA ServeFrame ==
  ASSUME NEW p \in Pids, Serve(p) \/ StreamFails(p) \/ ChildKilled(p)
  PROVE  UNCHANGED fatherVars
BY DEF Serve, OpenFile, NoFile, Stream, ChildExit, StreamFails, ChildKilled, Dies

LEMMA ServeType ==
  ASSUME TypeInv, NEW p \in Pids, Serve(p) \/ StreamFails(p) \/ ChildKilled(p)
  PROVE  TypeInv'
<1>1. UNCHANGED fatherVars
  BY ServeFrame
<1>2. ASSUME NEW life \in {"open", "failing", "done", "ok", "bad", "killed"}, Becomes(p, life)
      PROVE  child' \in ChildType
  BY <1>2 DEF TypeInv, TypeOK, Becomes, ChildType, Live, Ended
<1>3. child' \in ChildType
  BY <1>2 DEF Serve, OpenFile, NoFile, Stream, ChildExit, StreamFails, ChildKilled, Dies
<1>4. fs' \in FsType
  BY DEF TypeInv, TypeOK, FsType, Serve, OpenFile, NoFile, Stream, ChildExit, StreamFails,
         ChildKilled, Dies, Removed
<1>5. sigchld' \in BOOLEAN
  BY DEF TypeInv, TypeOK, Serve, OpenFile, NoFile, Stream, ChildExit, StreamFails, ChildKilled, Dies
<1>6. p[2] \in Streams
  BY DEF Pids
<1>7. recvd' \subseteq Streams
  BY <1>6 DEF TypeInv, TypeOK, Serve, OpenFile, NoFile, Stream, ChildExit, StreamFails, ChildKilled, Dies
<1> QED BY <1>1, <1>3, <1>4, <1>5, <1>7
        DEF TypeInv, TypeOK, LoopBound, Asked, fatherVars, flagVars, ChildType, FsType

LEMMA TypeInit == Init => TypeInv
<1> SUFFICES ASSUME Init PROVE TypeInv
  OBVIOUS
<1>1. pid_child \in SlotType /\ child \in ChildType /\ sent \in Seq({"OK", "BAD"})
  BY AnswersType DEF Init, NoChild, SlotType, ChildType
<1>2. kind \in [Requests -> {"none", "store", "retr", "mkdir", "chdir", "list", "other"}]
  BY DEF Init
<1>3. i \in 1..(N + 1) /\ cur \in 0..MaxRequests
  BY BoundsAssumption DEF Init
<1>4. TypeOK
  BY <1>1, <1>2, <1>3 DEF Init, TypeOK, SlotType, ChildType
<1> QED BY <1>4 DEF Init, TypeInv, LoopBound, Asked

LEMMA TypeStutter == ASSUME TypeInv, UNCHANGED vars PROVE TypeInv'
BY DEF TypeInv, TypeOK, LoopBound, Asked, vars, fatherVars, flagVars

LEMMA TypeNext == TypeInv /\ [Next]_vars => TypeInv'
<1> SUFFICES ASSUME TypeInv, [Next]_vars PROVE TypeInv'
  OBVIOUS
<1>1. CASE Loop
  BY <1>1, RequestType, OtherType, LoopType DEF Loop
<1>2. CASE Engine
  BY <1>2, StartType, LoopType DEF Engine
<1>3. CASE Signal \/ Sigterm
  BY <1>3, HandlerType
<1>4. CASE \E p \in Pids : Serve(p) \/ StreamFails(p) \/ ChildKilled(p)
  BY <1>4, ServeType
<1>5. CASE Gone \/ UNCHANGED vars
  BY <1>5, TypeStutter DEF Gone
<1> QED BY <1>1, <1>2, <1>3, <1>4, <1>5 DEF Next

(* The index of the loop stays within the table of the children, and only  *)
(* children of a request of this session are ever recorded in it.          *)
THEOREM V1TypeCorrect == Spec => []TypeOK
<1>1. TypeInv => TypeOK
  BY DEF TypeInv
<1> QED BY <1>1, TypeInit, TypeNext, PTL DEF Spec

-----------------------------------------------------------------------------
(* One answer.                                                             *)

\* The children of the request that comes next do not exist yet.
LEMMA NextUnborn ==
  ASSUME AnswerInv, cur < MaxRequests, NEW s \in Streams
  PROVE  child[<<cur + 1, s>>] = "none"
<1>1. cur \in Nat /\ MaxRequests \in Nat
  BY BoundsAssumption DEF AnswerInv, TypeInv, TypeOK
<1>2. <<cur + 1, s>> \in Pids /\ <<cur + 1, s>>[1] > cur
  BY <1>1 DEF Pids, Requests
<1> QED BY <1>2 DEF AnswerInv, Said, Unborn

LEMMA TakenSaid ==
  ASSUME AnswerInv, NEW k, Take(k), pc' \in {"top", "quit", "exit", "offered", "spawn"},
         sent' \in {<<>>, <<"OK">>, <<"BAD">>},
         pc' \in {"offered", "spawn"} => sent' = <<>> /\ childendinerror' = 0
  PROVE  Said'
<1>1. /\ cur < MaxRequests /\ cur' = cur + 1 /\ pid_child' = NoChild /\ UNCHANGED child
      /\ cur \in Nat /\ MaxRequests \in Nat
  BY BoundsAssumption DEF Take, AnswerInv, TypeInv, TypeOK
<1>2. \A s \in Streams : child'[<<cur', s>>] = "none" /\ pid_child'[s] = NoPid
  BY <1>1, NextUnborn DEF NoChild
<1>3. Silent' /\ ChildrenWait'
  BY <1>1, <1>2 DEF Silent, ChildrenWait
<1>4. Unborn'
  <2>1. ASSUME NEW p \in Pids, p[1] > cur'
        PROVE  child'[p] = "none"
    <3>1. p[1] \in Nat
      BY BoundsAssumption DEF Pids, Requests
    <3>2. p[1] > cur
      BY <1>1, <2>1, <3>1
    <3> QED BY <1>1, <3>2 DEF AnswerInv, Said, Unborn
  <2> QED BY <2>1 DEF Unborn
<1>5. Accounted'
  BY <1>1 DEF Accounted
<1> QED BY <1>3, <1>4, <1>5 DEF Said

LEMMA ReplySaid ==
  ASSUME NEW next, Reply("OK", next) \/ Reply("BAD", next)
  PROVE  sent' \in {<<>>, <<"OK">>, <<"BAD">>} /\ pc' \in {next, "exit"}
<1>1. CASE Reply("OK", next)
  BY <1>1, Zenon DEF Reply
<1>2. CASE Reply("BAD", next)
  BY <1>2, Zenon DEF Reply
<1> QED BY <1>1, <1>2

LEMMA RequestSaid ==
  ASSUME AnswerInv, StoreRefused \/ StoreEmpty \/ StoreNoSpace \/ StoreAccepted \/ RetrRefused
                    \/ RetrOffered \/ RequestBroken
  PROVE  Said'
<1>1. CASE StoreRefused
  BY <1>1, TakenSaid, ReplySaid DEF StoreRefused
<1>2. CASE StoreEmpty
  BY <1>2, TakenSaid, ReplySaid DEF StoreEmpty
<1>3. CASE StoreNoSpace
  BY <1>3, TakenSaid, ReplySaid DEF StoreNoSpace
<1>4. CASE StoreAccepted
  BY <1>4, TakenSaid DEF StoreAccepted
<1>5. CASE RetrRefused
  BY <1>5, TakenSaid, ReplySaid DEF RetrRefused
<1>6. CASE RetrOffered
  BY <1>6, TakenSaid DEF RetrOffered
<1>7. CASE RequestBroken
  BY <1>7, TakenSaid DEF RequestBroken
<1> QED BY <1>1, <1>2, <1>3, <1>4, <1>5, <1>6, <1>7

LEMMA OtherSaid ==
  ASSUME AnswerInv, CreateDir \/ ChangeDir \/ SendList \/ NotAvailable
  PROVE  Said'
<1>1. ASSUME NEW k, Other(k), sent' \in {<<>>, <<"OK">>, <<"BAD">>}, pc' \in {"top", "quit", "exit"}
      PROVE  Said'
  BY <1>1, TakenSaid DEF Other
<1>2. Tried => sent' \in {<<>>, <<"OK">>, <<"BAD">>} /\ pc' \in {"top", "exit"}
  BY ReplySaid DEF Tried
<1>3. CannotReadPath => sent' \in {<<>>, <<"OK">>, <<"BAD">>} /\ pc' \in {"quit", "exit"}
  BY ReplySaid DEF CannotReadPath
<1>4. CASE CreateDir
  BY <1>1, <1>2, <1>3, <1>4 DEF CreateDir
<1>5. CASE ChangeDir
  BY <1>1, <1>2, <1>3, <1>5 DEF ChangeDir
<1>6. CASE SendList
  BY <1>1, <1>3, <1>6, ReplySaid DEF SendList
<1>7. CASE NotAvailable
  BY <1>1, <1>7, ReplySaid DEF NotAvailable
<1> QED BY <1>4, <1>5, <1>6, <1>7

\* Who is killed has lived.
LEMMA KillUnborn ==
  ASSUME AnswerInv, NEW victims, NEW c, \A p \in victims : child[p] \in Live,
         \A p \in Pids : p[1] > cur => c[p] = "none"
  PROVE  \A p \in Pids : p[1] > cur => Kill(victims, c)[p] = "none"
BY DEF AnswerInv, Said, Unborn, Kill, Live

LEMMA CleanUnborn ==
  ASSUME AnswerInv, CleanChild, cur' = cur
  PROVE  Unborn'
<1>1. \A p \in Victims : child[p] \in Live
  BY DEF Victims
<1> QED BY <1>1, KillUnborn DEF CleanChild, Unborn, AnswerInv, Said

LEMMA LoopSaid ==
  ASSUME AnswerInv, MessageInTransfer \/ Disconnect \/ IdleTimeout \/ Wait \/ Quit \/ RetrStarts
  PROVE  Said'
<1> USE DEF AnswerInv, Said, Silent, ChildrenWait, Unborn, Accounted
<1>1. CASE MessageInTransfer \/ Disconnect \/ IdleTimeout
  BY <1>1 DEF MessageInTransfer, Disconnect, IdleTimeout, Leaves, flagVars
<1>2. CASE Wait
  BY <1>2 DEF Wait, flagVars
<1>3. CASE Quit
  BY <1>3, CleanUnborn DEF Quit
<1>4. CASE RetrStarts
  BY <1>4 DEF RetrStarts, flagVars, NoChild
<1> QED BY <1>1, <1>2, <1>3, <1>4

\* The start of the children.
LEMMA StartSaid ==
  ASSUME AnswerInv, \/ Spawn \/ SpawnFails \/ Report \/ GiveUpStart
                    \/ Record \/ AllForked \/ Release \/ Released
  PROVE  Said'
<1> USE DEF AnswerInv, Said, Silent, ChildrenWait, Unborn, Accounted
<1>1. CASE Spawn
  <2>1. /\ cur \in Requests /\ i \in Streams /\ <<cur, i>> \in Pids /\ cur \in Nat
        /\ child \in [Pids -> Live \cup Ended \cup {"none", "reaped"}]
    BY <1>1, BoundsAssumption DEF Spawn, TypeInv, TypeOK, Asked, Requests, Streams, Pids
  <2>2. \A p \in Pids : child'[p] = IF p = <<cur, i>> THEN "waiting" ELSE child[p]
    BY <1>1, <2>1 DEF Spawn
  <2>3. \A s \in Streams : <<cur, s>> \in Pids
    BY <2>1 DEF Pids
  <2>4. ASSUME NEW p \in Pids, p[1] > cur PROVE child'[p] = "none"
    <3>1. p # <<cur, i>>
      BY <2>1, <2>4
    <3> QED BY <2>2, <2>4, <3>1
  <2> QED BY <1>1, <2>2, <2>3, <2>4 DEF Spawn, flagVars
<1>2. CASE SpawnFails
  BY <1>2 DEF SpawnFails
<1>3. CASE Report
  <2>1. Unborn'
    BY <1>3, CleanUnborn DEF Report
  <2>2. sent = <<>>
    BY <1>3 DEF Report
  <2>3. CASE sent' = Append(sent, "BAD") /\ pc' = "failed"
    <3>1. sent' = <<"BAD">>
      BY <2>2, <2>3
    <3> QED BY <1>3, <2>1, <2>3, <3>1 DEF Report
  <2>4. CASE pc' = "exit" /\ UNCHANGED sent
    BY <1>3, <2>1, <2>2, <2>4 DEF Report
  <2> QED BY <1>3, <2>3, <2>4 DEF Report
<1>4. CASE GiveUpStart
  BY <1>4, CleanUnborn DEF GiveUpStart
<1>5. CASE Record
  BY <1>5 DEF Record, flagVars
<1>6. CASE AllForked
  BY <1>6 DEF AllForked, flagVars
<1>7. CASE Release
  <2>1. ASSUME NEW p \in Pids, p[1] > cur PROVE child'[p] = "none"
    BY <1>7, <2>1 DEF Release
  <2> QED BY <1>7, <2>1 DEF Release, flagVars
<1>8. CASE Released
  BY <1>8 DEF Released, flagVars
<1> QED BY <1>1, <1>2, <1>3, <1>4, <1>5, <1>6, <1>7, <1>8

\* While the father is forking the handler collects nobody.
LEMMA NobodyCollected ==
  ASSUME AnswerInv, pc \in {"offered", "spawn", "forked"}
  PROVE  Slots = pid_child /\ Reaped = child /\ Failed = {} /\ childendinerror = 0
<1>1. ASSUME NEW s \in Streams, pid_child[s] # NoPid
      PROVE  child[pid_child[s]] \notin Ended
  BY <1>1 DEF AnswerInv, Said, Silent, ChildrenWait, NoChild, Ended
<1>2. Collected = {}
  BY <1>1 DEF Collected
<1>3. pid_child \in [Streams -> Pids \cup {NoPid}]
      /\ child \in [Pids -> Live \cup Ended \cup {"none", "reaped"}]
  BY DEF AnswerInv, TypeInv, TypeOK
<1>4. Slots = pid_child /\ Reaped = child
  BY <1>2, <1>3 DEF Slots, Reaped
<1> QED BY <1>2, <1>4 DEF Failed, AnswerInv, Said, Silent

\* Who is collected has lived.
LEMMA ReapedUnborn == ASSUME AnswerInv PROVE \A p \in Pids : p[1] > cur => Reaped[p] = "none"
BY DEF AnswerInv, Said, Unborn, Reaped, Collected, Ended

LEMMA NobodyLeft == pid_child = NoChild => Slots = NoChild
BY DEF Slots, NoChild, Collected

LEMMA ToldOnce ==
  ASSUME sent = <<>>
  PROVE  /\ Told("OK") # <<>> => Len(Told("OK")) = 1
         /\ Told("BAD") # <<>> => Len(Told("BAD")) = 1
BY DEF Told

LEMMA HandlerSaid ==
  ASSUME AnswerInv, Signal \/ Sigterm
  PROVE  Said'
<1>1. CASE SigchldNone
  BY <1>1 DEF SigchldNone, fatherVars, flagVars, AnswerInv, Said, Silent, ChildrenWait, Unborn,
              Accounted
<1>2. CASE SigchldPart
  <2>1. CASE pc \in {"offered", "spawn", "forked"}
    BY <1>2, <2>1, NobodyCollected
       DEF SigchldPart, flagVars, AnswerInv, Said, Silent, ChildrenWait, Unborn, Accounted
  <2>2. CASE pc \notin {"offered", "spawn", "forked"}
    <3>1. childendinerror = 0 /\ pid_child # NoChild /\ UNCHANGED <<pc, sent, childendinerror, cur>>
          /\ child' = Reaped
      BY <1>2, NobodyLeft DEF SigchldPart, flagVars
    <3>2. sent = <<>> /\ pc # "report"
      BY <3>1 DEF AnswerInv, Said, Accounted
    <3>3. Unborn'
      BY <3>1, ReapedUnborn DEF Unborn
    <3> QED BY <2>2, <3>1, <3>2, <3>3 DEF Said, Silent, ChildrenWait, Accounted
  <2> QED BY <2>1, <2>2
<1>3. CASE SigchldSuccess
  <2>1. pc \notin {"offered", "spawn", "forked"}
    BY <1>3, NobodyCollected DEF SigchldSuccess
  <2>2. sent = <<>> /\ pc # "report"
    BY <1>3 DEF SigchldSuccess, AnswerInv, Said, Accounted
  <2>3. Unborn'
    BY <1>3, ReapedUnborn DEF SigchldSuccess, Unborn
  <2>4. pid_child' = NoChild /\ pc' \in {pc, "exit"} /\ (sent' # <<>> => Len(sent') = 1)
    BY <1>3, <2>2, ToldOnce DEF SigchldSuccess
  <2> QED BY <2>1, <2>2, <2>3, <2>4 DEF Said, Silent, ChildrenWait, Accounted
<1>4. CASE SigchldFailure
  <2>1. pc \notin {"offered", "spawn", "forked"}
    BY <1>4, NobodyCollected DEF SigchldFailure
  <2>2. Unborn'
    <3>1. PICK victims :
            /\ victims = {p \in Victims : \E s \in Streams : Slots[s] = p}
            /\ child' = Kill(victims, Reaped)
      BY <1>4 DEF SigchldFailure
    <3>2. \A p \in victims : child[p] \in Live
      BY <3>1 DEF Victims
    <3> QED BY <1>4, <3>1, <3>2, ReapedUnborn, KillUnborn DEF SigchldFailure, Unborn
  <2>3. pid_child' = Slots /\ pc' \in {pc, "exit"} /\ (Slots = NoChild \/ childendinerror' = 1)
    BY <1>4 DEF SigchldFailure
  <2>4. CASE FirstError
    <3>1. sent = <<>> /\ pc # "report"
      BY <1>4, <2>4 DEF SigchldFailure, FirstError, AnswerInv, Said, Accounted
    <3>2. sent' # <<>> => Len(sent') = 1
      BY <1>4, <2>4, <3>1, ToldOnce DEF SigchldFailure
    <3> QED BY <2>1, <2>2, <2>3, <3>1, <3>2 DEF Said, Silent, ChildrenWait, Accounted
  <2>5. CASE ~FirstError
    BY <1>4, <2>1, <2>2, <2>3, <2>5
       DEF SigchldFailure, AnswerInv, Said, Silent, ChildrenWait, Accounted
  <2> QED BY <2>4, <2>5
<1>5. CASE Sigterm
  BY <1>5, CleanUnborn DEF Sigterm, AnswerInv, Said, Silent, ChildrenWait, Accounted
<1> QED BY <1>1, <1>2, <1>3, <1>4, <1>5 DEF Signal

\* A child that is still to be released does not move, unless its wait has run out.
LEMMA ServeSaid ==
  ASSUME AnswerInv, {"slow", "earlykill"} \cap Faults = {},
         NEW p \in Pids, Serve(p) \/ StreamFails(p) \/ ChildKilled(p)
  PROVE  Said'
<1>1. UNCHANGED fatherVars
  BY ServeFrame
<1>2. PICK life : child' = [child EXCEPT ![p] = life]
  BY DEF Serve, OpenFile, NoFile, Stream, ChildExit, StreamFails, ChildKilled, Dies, Becomes
<1>3. \/ child[p] = "waiting" /\ (p[1] # cur \/ ~Starting)
      \/ child[p] \in {"ready", "open", "done", "failing"}
  BY DEF Serve, OpenFile, NoFile, Stream, ChildExit, StreamFails, ChildKilled, MayStart, Live
<1>4. child \in [Pids -> Live \cup Ended \cup {"none", "reaped"}] /\ cur \in Nat
  BY BoundsAssumption DEF AnswerInv, TypeInv, TypeOK
<1>5. ASSUME NEW q \in Pids, q[1] > cur PROVE child'[q] = "none"
  BY <1>2, <1>3, <1>4, <1>5 DEF AnswerInv, Said, Unborn
<1>6. ASSUME pc \in {"offered", "spawn", "forked"}, NEW s \in Streams
      PROVE  child'[<<cur, s>>] = child[<<cur, s>>]
  <2>1. child[<<cur, s>>] \in {"none", "waiting"} /\ (pc = "offered" => child[<<cur, s>>] = "none")
    BY <1>6 DEF AnswerInv, Said, Silent, ChildrenWait
  <2>2. p # <<cur, s>>
    BY <1>3, <1>6, <2>1 DEF Starting
  <2>3. <<cur, s>> \in Pids
    BY <1>6, BoundsAssumption DEF AnswerInv, TypeInv, TypeOK, Asked, Pids, Requests
  <2> QED BY <1>2, <1>4, <2>2, <2>3
<1> QED BY <1>1, <1>5, <1>6
        DEF fatherVars, flagVars, AnswerInv, Said, Silent, ChildrenWait, Unborn, Accounted

LEMMA SaidInit == Init => Said
BY BoundsAssumption DEF Init, Said, Silent, ChildrenWait, Unborn, Accounted

LEMMA SaidStutter == ASSUME Said, UNCHANGED vars PROVE Said'
BY DEF Said, Silent, ChildrenWait, Unborn, Accounted, vars, fatherVars, flagVars

LEMMA AnswerNext == ASSUME {"slow", "earlykill"} \cap Faults = {} PROVE AnswerInv /\ [Next]_vars => AnswerInv'
<1> SUFFICES ASSUME AnswerInv, [Next]_vars PROVE Said'
  BY TypeNext DEF AnswerInv
<1>1. CASE Loop
  BY <1>1, RequestSaid, OtherSaid, LoopSaid DEF Loop
<1>2. CASE Engine
  BY <1>2, StartSaid, LoopSaid DEF Engine
<1>3. CASE Signal \/ Sigterm
  BY <1>3, HandlerSaid
<1>4. CASE \E p \in Pids : Serve(p) \/ StreamFails(p) \/ ChildKilled(p)
  BY <1>4, ServeSaid
<1>5. CASE Gone \/ UNCHANGED vars
  BY <1>5, SaidStutter DEF Gone, AnswerInv
<1> QED BY <1>1, <1>2, <1>3, <1>4, <1>5 DEF Next

(* "We need only one error message": with any number of streams, and       *)
(* whatever else fails, a request of a version 1 client is answered at most *)
(* once, by the main line or by the handler, if no child gives up waiting  *)
(* for its release, or is killed, while the father is still starting the   *)
(* others: the handler would answer in the middle of the start.            *)
THEOREM V1OneAnswerHolds == ASSUME {"slow", "earlykill"} \cap Faults = {} PROVE Spec => []OneAnswer
<1>1. Init => AnswerInv
  BY TypeInit, SaidInit DEF AnswerInv
<1>2. AnswerInv /\ [Next]_vars => AnswerInv'
  BY AnswerNext
<1>3. AnswerInv => OneAnswer
  <2>1. Len(<<>>) = 0
    OBVIOUS
  <2>2. Accounted => Len(sent) \in {0, 1}
    BY <2>1, Zenon DEF Accounted
  <2>3. \A n \in {0, 1} : n <= 1
    OBVIOUS
  <2> QED BY <2>2, <2>3, Zenon DEF AnswerInv, Said, OneAnswer
<1> QED BY <1>1, <1>2, <1>3, PTL DEF Spec

-----------------------------------------------------------------------------
(* No file after a failure.                                                *)

LEMMA BeforeIsNotNew == ASSUME TypeInv PROVE Before # "new"
BY DEF TypeInv, TypeOK, Before

LEMMA TakenPlaced ==
  ASSUME FileInv, NEW k, Take(k), pc' \in {"top", "quit", "exit", "offered", "spawn"},
         k # "store" \/ sent' = <<"BAD">> \/ childendinerror' = 1 => fs' # "new",
         pc' = "offered" => k = "retr",
         pc' = "spawn" /\ k = "store" => unlinkfile' = 1,
         pc' = "top" => sent' # <<>>
  PROVE  Placed'
<1>1. /\ cur' = cur + 1 /\ cur \in Nat /\ kind'[cur'] = k /\ pid_child' = NoChild
      /\ state' = "LOGGED"
  <2>1. cur \in Nat /\ cur + 1 \in Requests
    BY BoundsAssumption DEF Take, FileInv, AnswerInv, TypeInv, TypeOK, Requests
  <2>2. kind' = [kind EXCEPT ![cur + 1] = k] /\ kind \in [Requests ->
          {"none", "store", "retr", "mkdir", "chdir", "list", "other"}]
    BY DEF Take, FileInv, AnswerInv, TypeInv, TypeOK
  <2> QED BY <2>1, <2>2 DEF Take
<1>2. OnlyStores' /\ GoneAfterError'
  BY <1>1 DEF OnlyStores, GoneAfterError
<1>3. WillUnlink'
  BY <1>1 DEF WillUnlink, Storing
<1>4. AnsweredFirst' /\ LeftOver'
  BY <1>1 DEF AnsweredFirst, LeftOver
<1> QED BY <1>2, <1>3, <1>4 DEF Placed

LEMMA ReplyPlaced ==
  ASSUME NEW next, Reply("OK", next) \/ Reply("BAD", next)
  PROVE  /\ pc' \in {next, "exit"} /\ (pc' = next => pc' = "exit" \/ sent' # <<>>)
         /\ Reply("OK", next) => sent' # <<"BAD">>
<1>1. <<"OK">> # <<>> /\ <<"BAD">> # <<>> /\ <<"OK">> # <<"BAD">> /\ <<>> # <<"BAD">>
  OBVIOUS
<1>2. CASE Reply("OK", next)
  BY <1>1, <1>2, Zenon DEF Reply
<1>3. CASE Reply("BAD", next) /\ ~Reply("OK", next)
  BY <1>1, <1>3, Zenon DEF Reply
<1> QED BY <1>2, <1>3

LEMMA RequestPlaced ==
  ASSUME FileInv, StoreRefused \/ StoreEmpty \/ StoreNoSpace \/ StoreAccepted \/ RetrRefused
                  \/ RetrOffered \/ RequestBroken
  PROVE  Placed'
<1>0. Before # "new"
  BY BeforeIsNotNew DEF FileInv, AnswerInv
<1>1. CASE StoreRefused
  BY <1>0, <1>1, TakenPlaced, ReplyPlaced DEF StoreRefused
<1>2. CASE StoreEmpty
  BY <1>2, TakenPlaced, ReplyPlaced DEF StoreEmpty
<1>3. CASE StoreNoSpace
  BY <1>3, TakenPlaced, ReplyPlaced DEF StoreNoSpace
<1>4. CASE StoreAccepted
  <2>1. <<>> # <<"BAD">>
    OBVIOUS
  <2> QED BY <1>4, <2>1, TakenPlaced DEF StoreAccepted
<1>5. CASE RetrRefused
  BY <1>0, <1>5, TakenPlaced, ReplyPlaced DEF RetrRefused
<1>6. CASE RetrOffered
  BY <1>0, <1>6, TakenPlaced DEF RetrOffered
<1>7. CASE RequestBroken
  BY <1>0, <1>7, TakenPlaced DEF RequestBroken
<1> QED BY <1>1, <1>2, <1>3, <1>4, <1>5, <1>6, <1>7

LEMMA OtherPlaced ==
  ASSUME FileInv, CreateDir \/ ChangeDir \/ SendList \/ NotAvailable
  PROVE  Placed'
<1>1. ASSUME NEW k, k # "store", Other(k), pc' \in {"top", "quit", "exit"}, pc' = "top" => sent' # <<>>
      PROVE  Placed'
  <2>1. fs' # "new"
    BY <1>1, BeforeIsNotNew DEF Other, FileInv, AnswerInv
  <2> QED BY <1>1, <2>1, TakenPlaced DEF Other
<1>2. Tried => pc' \in {"top", "exit"} /\ (pc' = "top" => sent' # <<>>)
  BY ReplyPlaced DEF Tried
<1>3. CannotReadPath => pc' \in {"quit", "exit"}
  BY ReplyPlaced DEF CannotReadPath
<1>4. CASE CreateDir
  BY <1>1, <1>2, <1>3, <1>4 DEF CreateDir
<1>5. CASE ChangeDir
  BY <1>1, <1>2, <1>3, <1>5 DEF ChangeDir
<1>6. CASE SendList
  <2>1. <<"OK">> # <<>>
    OBVIOUS
  <2> QED BY <1>1, <1>3, <1>6, <2>1, ReplyPlaced DEF SendList
<1>7. CASE NotAvailable
  BY <1>1, <1>7, ReplyPlaced DEF NotAvailable
<1> QED BY <1>4, <1>5, <1>6, <1>7

LEMMA LoopPlaced ==
  ASSUME FileInv, MessageInTransfer \/ Disconnect \/ IdleTimeout \/ Wait \/ Quit \/ RetrStarts
  PROVE  Placed'
<1> USE DEF FileInv, Placed, OnlyStores, GoneAfterError, WillUnlink, AnsweredFirst, LeftOver,
            Running, Storing
<1>1. CASE MessageInTransfer \/ Disconnect \/ IdleTimeout
  BY <1>1 DEF MessageInTransfer, Disconnect, IdleTimeout, Leaves, flagVars
<1>2. CASE Wait
  BY <1>2 DEF Wait, flagVars
<1>3. CASE Quit
  BY <1>3 DEF Quit
<1>4. CASE RetrStarts
  BY <1>4 DEF RetrStarts, flagVars, AnswerInv, Said, Silent, TypeInv, Asked
<1> QED BY <1>1, <1>2, <1>3, <1>4

LEMMA StartPlaced ==
  ASSUME FileInv, \/ Spawn \/ SpawnFails \/ Report \/ GiveUpStart
                  \/ Record \/ AllForked \/ Release \/ Released
  PROVE  Placed'
<1> USE DEF FileInv, Placed, OnlyStores, GoneAfterError, WillUnlink, AnsweredFirst, LeftOver,
            Running, Storing
<1>1. CASE Spawn
  BY <1>1 DEF Spawn, flagVars
<1>2. CASE SpawnFails
  <2>1. childendinerror = 0 /\ sent = <<>> /\ <<>> # <<"BAD">>
    BY <1>2 DEF SpawnFails, AnswerInv, Said, Silent
  <2>2. fs' # "new"
    BY <1>2 DEF SpawnFails, UnlinkStored
  <2> QED BY <1>2, <2>1, <2>2 DEF SpawnFails
<1>3. CASE Report
  <2>1. sent = <<>> /\ fs # "new" /\ cur > 0
    BY <1>3 DEF Report, AnswerInv, Said, Silent
  <2>2. CASE sent' = Append(sent, "BAD") /\ pc' = "failed"
    <3>1. sent' # <<>>
      BY <2>1, <2>2
    <3>2. UNCHANGED <<state, pid_child, childendinerror, fs, cur, kind>>
      BY <1>3 DEF Report
    <3> QED BY <1>3, <2>1, <2>2, <3>1, <3>2 DEF Report, AnswerInv, Said, Accounted
  <2>3. CASE pc' = "exit" /\ UNCHANGED sent
    BY <1>3, <2>1, <2>3 DEF Report
  <2> QED BY <1>3, <2>2, <2>3 DEF Report
<1>4. CASE GiveUpStart
  BY <1>4 DEF GiveUpStart, AnswerInv, Said, Accounted
<1>5. CASE Record
  BY <1>5 DEF Record, flagVars
<1>6. CASE AllForked
  BY <1>6 DEF AllForked, flagVars, AnswerInv, Said, Silent
<1>7. CASE Release
  BY <1>7 DEF Release, flagVars
<1>8. CASE Released
  BY <1>8 DEF Released, flagVars
<1> QED BY <1>1, <1>2, <1>3, <1>4, <1>5, <1>6, <1>7, <1>8

LEMMA ToldSomething ==
  ASSUME sent = <<>>, NEW code \in {"OK", "BAD"}
  PROVE  /\ Told(code) = IF pc = "quit" THEN <<>> ELSE <<code>>
         /\ <<code>> # <<>> /\ (code = "OK" => <<code>> # <<"BAD">>) /\ <<>> # <<"BAD">>
BY DEF Told

LEMMA HandlerPlaced ==
  ASSUME FileInv, Signal \/ Sigterm
  PROVE  Placed'
<1>1. CASE SigchldNone
  BY <1>1 DEF SigchldNone, fatherVars, flagVars, FileInv, Placed, OnlyStores, GoneAfterError,
              WillUnlink, AnsweredFirst, LeftOver, Running, Storing
<1>2. CASE SigchldPart
  <2>1. pid_child # NoChild
    BY <1>2, NobodyLeft DEF SigchldPart
  <2> QED BY <1>2, <2>1 DEF SigchldPart, flagVars, FileInv, Placed, OnlyStores, GoneAfterError,
              WillUnlink, AnsweredFirst, LeftOver, Running, Storing
<1>3. CASE SigchldSuccess
  <2>1. pc \notin {"offered", "spawn", "forked"} /\ childendinerror = 0 /\ Running
    BY <1>3, NobodyCollected DEF SigchldSuccess, FileInv, Raised
  <2>2. sent = <<>> /\ pc \notin {"report", "failed"}
    BY <1>3, <2>1 DEF SigchldSuccess, FileInv, AnswerInv, Said, Accounted, Placed, LeftOver
  <2>3. state # "LOGGED" /\ cur > 0
    BY <1>3, <2>1 DEF SigchldSuccess, FileInv, Placed, LeftOver, WillUnlink
  <2>4. pid_child' = NoChild /\ childendinerror' = 0 /\ state' = "LOGGED"
        /\ UNCHANGED <<fs, cur, kind>>
    BY <1>3 DEF SigchldSuccess
  <2>5. sent' # <<"BAD">> /\ (pc' = "exit" \/ pc' = "quit" \/ sent' # <<>>) /\ pc' \in {pc, "exit"}
    BY <1>3, <2>2, ToldSomething DEF SigchldSuccess
  <2> QED BY <2>1, <2>2, <2>3, <2>4, <2>5
             DEF FileInv, Placed, OnlyStores, GoneAfterError, WillUnlink, AnsweredFirst, LeftOver
<1>4. CASE SigchldFailure
  <2>1. pc \notin {"offered", "spawn", "forked"} /\ Running
    BY <1>4, NobodyCollected DEF SigchldFailure, FileInv, Raised
  <2>2. /\ pc' \in {pc, "exit"} /\ pid_child' = Slots /\ UNCHANGED <<cur, kind>>
        /\ \/ Slots = NoChild /\ childendinerror' = 0 /\ state' = "LOGGED"
           \/ Slots # NoChild /\ childendinerror' = 1 /\ UNCHANGED state
    BY <1>4 DEF SigchldFailure
  <2>3. CASE FirstError
    <3>1. sent = <<>> /\ pc \notin {"report", "failed"} /\ childendinerror = 0
      BY <1>4, <2>3 DEF SigchldFailure, FirstError, FileInv, AnswerInv, Said, Accounted, Placed,
                        LeftOver
    <3>2. state # "LOGGED" /\ cur > 0
      BY <1>4, <2>1, <3>1 DEF SigchldFailure, FileInv, Placed, LeftOver, WillUnlink
    <3>3. fs' # "new"
      BY <1>4, <2>3, <3>1, <3>2
         DEF SigchldFailure, FileInv, Placed, WillUnlink, OnlyStores, UnlinkAsked, Storing
    <3>4. (pc' = "exit" \/ pc' = "quit" \/ sent' # <<>>)
      BY <1>4, <2>3, <3>1, ToldSomething DEF SigchldFailure
    <3>5. sent' = <<>> => pc' \in {"exit", "quit"}
      BY <3>4
    <3> QED BY <2>1, <2>2, <3>1, <3>2, <3>3, <3>5
               DEF FileInv, Placed, OnlyStores, GoneAfterError, WillUnlink, AnsweredFirst, LeftOver
  <2>4. CASE ~FirstError
    <3>1. childendinerror = 1 /\ UNCHANGED <<pc, sent, fs>>
      BY <1>4, <2>4 DEF SigchldFailure, FirstError, FileInv, AnswerInv, TypeInv, TypeOK
    <3>2. fs' # "new"
      BY <3>1 DEF FileInv, Placed, GoneAfterError
    <3> QED BY <2>1, <2>2, <3>1, <3>2
               DEF FileInv, Placed, OnlyStores, GoneAfterError, WillUnlink, AnsweredFirst, LeftOver
  <2> QED BY <2>3, <2>4
<1>5. CASE Sigterm
  BY <1>5 DEF Sigterm, FileInv, Placed, OnlyStores, GoneAfterError, WillUnlink, AnsweredFirst,
              LeftOver, UnlinkAsked, Running, Storing
<1> QED BY <1>1, <1>2, <1>3, <1>4, <1>5 DEF Signal

\* A child can only remove the file.
LEMMA ServePlaced ==
  ASSUME FileInv, NEW p \in Pids, Serve(p) \/ StreamFails(p) \/ ChildKilled(p)
  PROVE  Placed'
<1>1. UNCHANGED fatherVars
  BY ServeFrame
<1>2. fs' = fs \/ fs' = "absent"
  BY DEF Serve, OpenFile, NoFile, Stream, ChildExit, StreamFails, ChildKilled, Dies, Removed
<1> QED BY <1>1, <1>2 DEF fatherVars, flagVars, FileInv, Placed, OnlyStores, GoneAfterError,
              WillUnlink, AnsweredFirst, LeftOver, Running, Storing

LEMMA PlacedInit == Init => Placed
<1> SUFFICES ASSUME Init PROVE Placed
  OBVIOUS
<1>1. fs # "new" /\ cur = 0 /\ pc = "select" /\ state = "LOGGED" /\ sent = <<>>
      /\ childendinerror = 0 /\ pid_child = NoChild
  BY DEF Init
<1> QED BY <1>1 DEF Placed, OnlyStores, GoneAfterError, WillUnlink, AnsweredFirst, LeftOver

LEMMA PlacedStutter == ASSUME Placed, UNCHANGED vars PROVE Placed'
BY DEF Placed, OnlyStores, GoneAfterError, WillUnlink, AnsweredFirst, LeftOver, Running, Storing,
       vars, fatherVars, flagVars

LEMMA FileNext == ASSUME {"slow", "earlykill"} \cap Faults = {} PROVE FileInv /\ [Next]_vars => FileInv'
<1> SUFFICES ASSUME FileInv, [Next]_vars PROVE Placed'
  BY AnswerNext DEF FileInv
<1>1. CASE Loop
  BY <1>1, RequestPlaced, OtherPlaced, LoopPlaced DEF Loop
<1>2. CASE Engine
  BY <1>2, StartPlaced, LoopPlaced DEF Engine
<1>3. CASE Signal \/ Sigterm
  BY <1>3, HandlerPlaced
<1>4. CASE \E p \in Pids : Serve(p) \/ StreamFails(p) \/ ChildKilled(p)
  BY <1>4, ServePlaced
<1>5. CASE Gone \/ UNCHANGED vars
  BY <1>5, PlacedStutter DEF Gone, FileInv
<1> QED BY <1>1, <1>2, <1>3, <1>4, <1>5 DEF Next

(* A store that has failed leaves no file when the next request is read,   *)
(* whoever noticed the failure first and also if children were killed, but *)
(* for the time in which they wait for their release.                      *)
THEOREM V1FailureLeavesNoFileHolds ==
  ASSUME {"slow", "earlykill"} \cap Faults = {} PROVE Spec => []FailureLeavesNoFile
<1>1. Init => FileInv
  BY TypeInit, SaidInit, PlacedInit DEF AnswerInv, FileInv
<1>2. FileInv /\ [Next]_vars => FileInv'
  BY FileNext
<1>3. FileInv => FailureLeavesNoFile
  <2> SUFFICES ASSUME FileInv, Ready, ~OkSent PROVE fs # "new"
    BY DEF FailureLeavesNoFile
  <2>1. sent \in Seq({"OK", "BAD"}) /\ (sent # <<>> => Len(sent) = 1)
    BY DEF FileInv, AnswerInv, TypeInv, TypeOK, Said, Accounted
  <2>2. sent = <<>> \/ sent = <<"OK">> \/ sent = <<"BAD">>
    BY <2>1
  <2> QED BY <2>2 DEF FileInv, Placed, GoneAfterError, AnsweredFirst, Ready, OkSent
<1> QED BY <1>1, <1>2, <1>3, PTL DEF Spec

-----------------------------------------------------------------------------
(* What MSG_OK means.                                                      *)

\* Types that the following steps need.
LEMMA CurrentFacts ==
  ASSUME CompleteInv
  PROVE  /\ cur \in 0..MaxRequests /\ MaxRequests \in Nat
         /\ child \in [Pids -> Live \cup Ended \cup {"none", "reaped"}]
         /\ pid_child \in [Streams -> Pids \cup {NoPid}]
         /\ \A s \in Streams : cur > 0 => <<cur, s>> \in Pids
BY BoundsAssumption
   DEF CompleteInv, FileInv, AnswerInv, TypeInv, TypeOK, Pids, Requests

\* A request of a client that has waited.
LEMMA TakenComplete ==
  ASSUME CompleteInv, Patient, NEW k, Take(k), pc' \in {"top", "quit", "exit", "offered", "spawn"},
         pc' = "spawn" /\ k = "store" => fs' = "new",
         sent' = <<"OK">> /\ k \in {"store", "retr"} =>
           /\ recvd' = Streams /\ unlinkfile' = 0 /\ childendinerror' = 0
           /\ k = "store" => fs' = "new"
  PROVE  Complete'
<1>1. /\ cur' = cur + 1 /\ cur \in Nat /\ cur < MaxRequests /\ kind'[cur'] = k
      /\ pid_child' = NoChild /\ i' = 1 /\ state' = "LOGGED" /\ UNCHANGED child
  <2>1. cur \in Nat /\ cur + 1 \in Requests
    BY BoundsAssumption DEF Take, CompleteInv, FileInv, AnswerInv, TypeInv, TypeOK, Requests
  <2>2. kind' = [kind EXCEPT ![cur + 1] = k] /\ kind \in [Requests ->
          {"none", "store", "retr", "mkdir", "chdir", "list", "other"}]
    BY DEF Take, CompleteInv, FileInv, AnswerInv, TypeInv, TypeOK
  <2> QED BY <2>1, <2>2 DEF Take
<1>2. \A p \in Pids : child[p] \notin Live
  BY DEF Take, Settled
<1>3. \A s \in Streams : child'[<<cur', s>>] = "none" /\ pid_child'[s] = NoPid
  BY <1>1, NextUnborn DEF NoChild, CompleteInv, FileInv
<1>4. OthersAreGone' /\ OwnSlots'
  BY <1>1, <1>2, <1>3 DEF OthersAreGone, OwnSlots
<1>5. InCourse' => pc' = "spawn"
  BY <1>1 DEF InCourse
<1>6. CollectedIsReceived'
  BY <1>1, <1>5 DEF CollectedIsReceived, Streams
<1>7. DoneIsReceived'
  BY <1>3 DEF DoneIsReceived
<1>8. GoneByFailure'
  BY <1>1, <1>5 DEF GoneByFailure, Storing
<1>9. Kept'
  BY <1>1, <1>2 DEF Kept, OkSent, Storing
<1> QED BY <1>4, <1>6, <1>7, <1>8, <1>9 DEF Complete

LEMMA ReplyBad == ASSUME NEW next, Reply("BAD", next) PROVE sent' # <<"OK">>
<1>1. <<"BAD">> # <<"OK">> /\ <<>> # <<"OK">>
  OBVIOUS
<1> QED BY <1>1, Zenon DEF Reply

LEMMA RequestComplete ==
  ASSUME CompleteInv, Patient,
         StoreRefused \/ StoreEmpty \/ StoreNoSpace \/ StoreAccepted \/ RetrRefused
         \/ RetrOffered \/ RequestBroken
  PROVE  Complete'
<1>0. <<>> # <<"OK">>
  OBVIOUS
<1>1. CASE StoreRefused
  BY <1>1, TakenComplete, ReplyPlaced, ReplyBad DEF StoreRefused
<1>2. CASE StoreEmpty
  BY <1>2, TakenComplete, ReplyPlaced DEF StoreEmpty
<1>3. CASE StoreNoSpace
  BY <1>3, TakenComplete, ReplyPlaced, ReplyBad DEF StoreNoSpace
<1>4. CASE StoreAccepted
  BY <1>0, <1>4, TakenComplete DEF StoreAccepted
<1>5. CASE RetrRefused
  BY <1>5, TakenComplete, ReplyPlaced, ReplyBad DEF RetrRefused
<1>6. CASE RetrOffered
  BY <1>0, <1>6, TakenComplete DEF RetrOffered
<1>7. CASE RequestBroken
  BY <1>0, <1>7, TakenComplete DEF RequestBroken
<1> QED BY <1>1, <1>2, <1>3, <1>4, <1>5, <1>6, <1>7

LEMMA OtherComplete ==
  ASSUME CompleteInv, Patient, CreateDir \/ ChangeDir \/ SendList \/ NotAvailable
  PROVE  Complete'
<1>1. ASSUME NEW k, k \notin {"store", "retr"}, Other(k), pc' \in {"top", "quit", "exit"}
      PROVE  Complete'
  BY <1>1, TakenComplete DEF Other
<1>2. Tried => pc' \in {"top", "exit"}
  BY ReplyPlaced DEF Tried
<1>3. CannotReadPath => pc' \in {"quit", "exit"}
  BY ReplyPlaced DEF CannotReadPath
<1>4. CASE CreateDir
  BY <1>1, <1>2, <1>3, <1>4 DEF CreateDir
<1>5. CASE ChangeDir
  BY <1>1, <1>2, <1>3, <1>5 DEF ChangeDir
<1>6. CASE SendList
  BY <1>1, <1>3, <1>6, ReplyPlaced DEF SendList
<1>7. CASE NotAvailable
  BY <1>1, <1>7, ReplyPlaced DEF NotAvailable
<1> QED BY <1>4, <1>5, <1>6, <1>7

\* Outside of a transfer only this matters: nobody comes alive, and the file stays.
LEMMA NotInCourse ==
  ASSUME CompleteInv, ~InCourse', UNCHANGED <<cur, kind, recvd>>,
         \A p \in Pids : child'[p] \in Live \cup {"done", "ok"} => child'[p] = child[p],
         \A s \in Streams : pid_child'[s] \in {NoPid, pid_child[s]}, pc' # "offered",
         sent' = <<"OK">> /\ kind[cur] \in {"store", "retr"} =>
           /\ sent = <<"OK">> /\ UNCHANGED <<unlinkfile, childendinerror>>
           /\ fs = "new" => fs' = "new"
  PROVE  Complete'
<1>1. OthersAreGone'
  BY DEF CompleteInv, Complete, OthersAreGone
<1>2. OwnSlots'
  BY DEF CompleteInv, Complete, OwnSlots
<1>3. CollectedIsReceived' /\ GoneByFailure'
  BY DEF CollectedIsReceived, GoneByFailure
<1>4. DoneIsReceived'
  BY CurrentFacts DEF CompleteInv, Complete, DoneIsReceived
<1>5. Kept'
  BY DEF CompleteInv, Complete, Kept, OkSent, Storing
<1> QED BY <1>1, <1>2, <1>3, <1>4, <1>5 DEF Complete

LEMMA KillFrame ==
  ASSUME NEW victims, NEW c, NEW p \in Pids, Kill(victims, c)[p] \in Live \cup {"done", "ok"}
  PROVE  Kill(victims, c)[p] = c[p]
BY DEF Kill, Live

LEMMA LoopComplete ==
  ASSUME CompleteInv, MessageInTransfer \/ Disconnect \/ IdleTimeout \/ Wait \/ Quit \/ RetrStarts
  PROVE  Complete'
<1> USE DEF CompleteInv, Complete, OthersAreGone, OwnSlots, CollectedIsReceived, DoneIsReceived,
            GoneByFailure, Kept, InCourse, Running, OkSent, Storing
<1>1. CASE MessageInTransfer \/ Disconnect \/ IdleTimeout
  BY <1>1 DEF MessageInTransfer, Disconnect, IdleTimeout, Leaves, flagVars
<1>2. CASE Wait
  BY <1>2 DEF Wait, flagVars
<1>3. CASE Quit
  <2>1. \A p \in Pids : child'[p] \in Live \cup {"done", "ok"} => child'[p] = child[p]
    BY <1>3, KillFrame DEF Quit, CleanChild
  <2> QED BY <1>3, <2>1, NotInCourse DEF Quit
<1>4. CASE RetrStarts
  BY <1>4 DEF RetrStarts, flagVars, FileInv, Placed, GoneAfterError, LeftOver, Streams
<1> QED BY <1>1, <1>2, <1>3, <1>4

LEMMA SpawnComplete == ASSUME CompleteInv, Spawn PROVE Complete'
<1>1. /\ cur \in 1..MaxRequests /\ i \in Streams /\ <<cur, i>> \in Pids /\ sent = <<>>
      /\ childendinerror = 0 /\ pc = "spawn"
  BY BoundsAssumption DEF Spawn, CompleteInv, FileInv, AnswerInv, TypeInv, TypeOK, Asked, Streams,
                          Pids, Requests, Said, Silent
<1>2. /\ UNCHANGED <<state, i, pid_child, flagVars, fs, cur, kind, sent, recvd>> /\ pc' = "forked"
      /\ \A p \in Pids : child'[p] = IF p = <<cur, i>> THEN "waiting" ELSE child[p]
  BY <1>1, CurrentFacts DEF Spawn
<1>3. \A s \in Streams : child[<<cur, s>>] \in {"none", "waiting"} /\ <<cur, s>> \in Pids
  BY <1>1, CurrentFacts DEF CompleteInv, FileInv, AnswerInv, Said, ChildrenWait
<1>4. OthersAreGone'
  <2>1. ASSUME NEW p \in Pids, p[1] < cur PROVE child'[p] \notin Live
    <3>1. p # <<cur, i>>
      BY <1>1, <2>1
    <3> QED BY <1>2, <2>1, <3>1 DEF CompleteInv, Complete, OthersAreGone
  <2> QED BY <1>2, <2>1 DEF OthersAreGone
<1>5. OwnSlots'
  BY <1>2 DEF CompleteInv, Complete, OwnSlots
<1>6. CollectedIsReceived'
  BY <1>1, <1>2, <1>3 DEF CompleteInv, Complete, CollectedIsReceived, InCourse
<1>7. DoneIsReceived'
  BY <1>2, <1>3 DEF DoneIsReceived
<1>8. GoneByFailure'
  BY <1>1, <1>2, <1>3 DEF CompleteInv, Complete, GoneByFailure, InCourse, flagVars, Storing
<1>9. Kept'
  <2>1. <<>> # <<"OK">>
    OBVIOUS
  <2> QED BY <1>1, <1>2, <2>1 DEF Kept, OkSent
<1> QED BY <1>4, <1>5, <1>6, <1>7, <1>8, <1>9 DEF Complete

LEMMA ReleaseComplete == ASSUME CompleteInv, Release PROVE Complete'
<1>1. /\ UNCHANGED <<pc, state, pid_child, flagVars, fs, cur, kind, sent, recvd>> /\ pc = "hup"
      /\ \A p \in Pids : child'[p] = child[p] \/ (child[p] = "waiting" /\ child'[p] = "ready")
  BY DEF Release
<1>2. \A s \in Streams : cur > 0 => <<cur, s>> \in Pids
  BY CurrentFacts
<1>3. cur > 0
  BY <1>1 DEF CompleteInv, FileInv, Placed, WillUnlink
<1>4. OthersAreGone'
  BY <1>1 DEF CompleteInv, Complete, OthersAreGone, Live
<1>5. OwnSlots'
  BY <1>1 DEF CompleteInv, Complete, OwnSlots
<1>6. CollectedIsReceived'
  BY <1>1, <1>2, <1>3 DEF CompleteInv, Complete, CollectedIsReceived, InCourse, flagVars, Running
<1>7. DoneIsReceived'
  BY <1>1, <1>2, <1>3 DEF CompleteInv, Complete, DoneIsReceived
<1>8. GoneByFailure'
  BY <1>1, <1>2, <1>3 DEF CompleteInv, Complete, GoneByFailure, InCourse, flagVars, Storing, Running
<1>9. Kept'
  BY <1>1 DEF CompleteInv, Complete, Kept, OkSent, Storing, flagVars, Live
<1> QED BY <1>4, <1>5, <1>6, <1>7, <1>8, <1>9 DEF Complete

LEMMA StartComplete ==
  ASSUME CompleteInv, \/ Spawn \/ SpawnFails \/ Report \/ GiveUpStart
                      \/ Record \/ AllForked \/ Release \/ Released
  PROVE  Complete'
<1>0. <<>> # <<"OK">>
  OBVIOUS
<1>1. CASE Spawn \/ Release
  BY <1>1, SpawnComplete, ReleaseComplete
<1>2. CASE SpawnFails
  <2>1. sent' # <<"OK">> /\ childendinerror' = 1
    BY <1>0, <1>2 DEF SpawnFails, CompleteInv, FileInv, AnswerInv, Said, Silent
  <2>2. ~InCourse'
    BY <2>1 DEF InCourse
  <2> QED BY <1>2, <2>1, <2>2, NotInCourse DEF SpawnFails
<1>3. CASE Report
  <2>1. state' = "LOGGED" /\ sent = <<>> /\ pc' \in {"failed", "exit"}
    BY <1>3 DEF Report, CompleteInv, FileInv, AnswerInv, Said, Silent, Placed, LeftOver
  <2>2. ~InCourse'
    BY <2>1 DEF InCourse
  <2>3. \A p \in Pids : child'[p] \in Live \cup {"done", "ok"} => child'[p] = child[p]
    BY <1>3, KillFrame DEF Report, CleanChild
  <2>4. sent' # <<"OK">>
    <3>1. Append(<<>>, "BAD") # <<"OK">>
      OBVIOUS
    <3> QED BY <1>0, <1>3, <2>1, <3>1 DEF Report
  <2> QED BY <1>3, <2>1, <2>2, <2>3, <2>4, NotInCourse DEF Report
<1>4. CASE GiveUpStart
  <2>1. state' = "LOGGED" /\ pc' = "top"
    BY <1>4 DEF GiveUpStart, CompleteInv, FileInv, Placed, LeftOver
  <2>2. ~InCourse'
    BY <2>1 DEF InCourse
  <2>3. \A p \in Pids : child'[p] \in Live \cup {"done", "ok"} => child'[p] = child[p]
    BY <1>4, KillFrame DEF GiveUpStart, CleanChild
  <2> QED BY <1>4, <2>1, <2>2, <2>3, NotInCourse DEF GiveUpStart
<1>5. CASE Record
  <2>1. i \in Streams /\ i' = i + 1 /\ i \in Nat /\ sent = <<>>
    BY <1>5, BoundsAssumption
       DEF Record, CompleteInv, FileInv, AnswerInv, TypeInv, TypeOK, LoopBound, Streams, Said, Silent
  <2>2. \A s \in Streams : pid_child'[s] = IF s = i THEN <<cur, s>> ELSE pid_child[s]
    BY <1>5 DEF Record
  <2>3. CollectedIsReceived'
    BY <1>5, <2>1, <2>2
       DEF Record, CompleteInv, Complete, CollectedIsReceived, InCourse, flagVars, Streams
  <2> QED BY <1>0, <1>5, <2>1, <2>2, <2>3
             DEF Record, CompleteInv, Complete, OthersAreGone, OwnSlots, DoneIsReceived,
                 GoneByFailure, Kept, InCourse, OkSent, Storing, flagVars
<1>6. CASE AllForked
  <2>1. \A s \in Streams : ~(s >= i)
    BY <1>6, BoundsAssumption
       DEF AllForked, CompleteInv, FileInv, AnswerInv, TypeInv, TypeOK, Streams
  <2>2. CollectedIsReceived'
    BY <1>6, <2>1 DEF AllForked, CompleteInv, Complete, CollectedIsReceived, InCourse, flagVars
  <2> QED BY <1>6, <2>2
             DEF AllForked, CompleteInv, Complete, OthersAreGone, OwnSlots, DoneIsReceived,
                 GoneByFailure, Kept, InCourse, OkSent, Storing, flagVars
<1>7. CASE Released
  BY <1>7 DEF Released, CompleteInv, Complete, OthersAreGone, OwnSlots, CollectedIsReceived,
              DoneIsReceived, GoneByFailure, Kept, InCourse, OkSent, Storing, flagVars, Running
<1> QED BY <1>1, <1>2, <1>3, <1>4, <1>5, <1>6, <1>7

\* What the handler collects when no child has failed.
LEMMA CollectedFacts ==
  ASSUME CompleteInv, Failed = {}, NEW s \in Streams
  PROVE  /\ s \in Collected => child[<<cur, s>>] = "ok" /\ s \in recvd
                               /\ Slots[s] = NoPid /\ Reaped[<<cur, s>>] = "reaped"
         /\ s \notin Collected => Slots[s] = pid_child[s]
                                  /\ (cur > 0 => Reaped[<<cur, s>>] = child[<<cur, s>>])
<1>1. cur \in Nat /\ \A t \in Streams : cur > 0 => <<cur, t>> \in Pids
  BY CurrentFacts
<1>2. \A t \in Streams : pid_child[t] \in {NoPid, <<cur, t>>}
  BY DEF CompleteInv, Complete, OwnSlots
<1>3. CASE s \in Collected
  <2>1. pid_child[s] = <<cur, s>> /\ child[<<cur, s>>] = "ok" /\ <<cur, s>> # NoPid
    BY <1>2, <1>3 DEF Collected, Failed, EndedWell
  <2>2. cur > 0 /\ <<cur, s>> \in Pids
    <3>1. pid_child[s] \in Pids
      BY <2>1, CurrentFacts
    <3>2. cur \in Requests
      BY <2>1, <3>1 DEF Pids
    <3> QED BY <1>1, <3>2 DEF Requests
  <2>3. s \in recvd
    BY <2>1, <2>2 DEF CompleteInv, Complete, DoneIsReceived
  <2> QED BY <1>3, <2>1, <2>2, <2>3 DEF Slots, Reaped
<1>4. CASE s \notin Collected
  <2>1. ASSUME cur > 0 PROVE Reaped[<<cur, s>>] = child[<<cur, s>>]
    <3>1. ~\E t \in Collected : pid_child[t] = <<cur, s>>
      <4>1. ASSUME NEW t \in Collected, pid_child[t] = <<cur, s>> PROVE FALSE
        <5>1. t \in Streams /\ pid_child[t] # NoPid
          BY DEF Collected
        <5>2. <<cur, t>> = <<cur, s>>
          BY <1>2, <4>1, <5>1
        <5> QED BY <1>4, <5>2
      <4> QED BY <4>1
    <3> QED BY <1>1, <2>1, <3>1 DEF Reaped
  <2> QED BY <1>4, <2>1 DEF Slots
<1> QED BY <1>3, <1>4

LEMMA PartComplete == ASSUME CompleteInv, SigchldPart PROVE Complete'
<1>1. CASE pc \in {"offered", "spawn", "forked"}
  <2>1. UNCHANGED <<pc, state, i, pid_child, flagVars, child, fs, cur, kind, sent, recvd>>
    BY <1>1, NobodyCollected DEF SigchldPart, CompleteInv, FileInv
  <2>2. Complete
    BY DEF CompleteInv
  <2> QED BY <2>1, <2>2
             DEF Complete, OthersAreGone, OwnSlots, CollectedIsReceived, DoneIsReceived,
                 GoneByFailure, Kept, InCourse, OkSent, Storing, flagVars, Running
<1>2. CASE pc \notin {"offered", "spawn", "forked"}
  <2>1. /\ childendinerror = 0 /\ pid_child # NoChild /\ Failed = {} /\ Raised
        /\ pid_child' = Slots /\ child' = Reaped
        /\ UNCHANGED <<pc, state, i, flagVars, fs, cur, kind, sent, recvd>>
    BY NobodyLeft DEF SigchldPart
  <2>2. sent = <<>> /\ <<>> # <<"OK">> /\ cur > 0
    BY <1>2, <2>1 DEF CompleteInv, FileInv, AnswerInv, Said, Accounted, Placed, LeftOver, WillUnlink,
                      Raised
  <2>3. OthersAreGone'
    BY <2>1, CollectedFacts DEF CompleteInv, Complete, OthersAreGone, Live, Reaped
  <2>4. OwnSlots'
    BY <1>2, <2>1, CollectedFacts DEF CompleteInv, Complete, OwnSlots, Slots
  <2>5. CollectedIsReceived'
    <3> SUFFICES ASSUME InCourse, NEW s \in Streams
                 PROVE  \/ Slots[s] = <<cur, s>>
                        \/ Reaped[<<cur, s>>] = "reaped" /\ s \in recvd
      BY <2>1 DEF CollectedIsReceived, InCourse, flagVars, Running
    <3>1. pid_child[s] = <<cur, s>> \/ (child[<<cur, s>>] = "reaped" /\ s \in recvd)
      BY <1>2 DEF CompleteInv, Complete, CollectedIsReceived
    <3> QED BY <2>1, <2>2, <3>1, CollectedFacts
  <2>6. DoneIsReceived'
    <3> SUFFICES ASSUME NEW s \in Streams, Reaped[<<cur, s>>] \in {"done", "ok"} PROVE s \in recvd
      BY <2>1 DEF DoneIsReceived
    <3> QED BY <2>1, <2>2, CollectedFacts DEF CompleteInv, Complete, DoneIsReceived
  <2>7. GoneByFailure'
    <3> SUFFICES ASSUME InCourse, Storing, fs # "new"
                 PROVE  \E s \in Streams : Reaped[<<cur, s>>] \in {"failing", "bad", "killed"}
      BY <2>1 DEF GoneByFailure, InCourse, flagVars, Running, Storing
    <3>1. PICK s \in Streams : child[<<cur, s>>] \in {"failing", "bad", "killed"}
      BY DEF CompleteInv, Complete, GoneByFailure
    <3> QED BY <2>1, <2>2, <3>1, CollectedFacts
  <2>8. Kept'
    BY <2>1, <2>2 DEF Kept, OkSent
  <2> QED BY <2>3, <2>4, <2>5, <2>6, <2>7, <2>8 DEF Complete
<1> QED BY <1>1, <1>2

\* When the handler says MSG_OK every child has received its stream, and nobody has
\* removed the file.
LEMMA SuccessComplete == ASSUME CompleteInv, SigchldSuccess PROVE Complete'
<1>1. /\ Failed = {} /\ Raised /\ childendinerror = 0 /\ pid_child # NoChild /\ Slots = NoChild
      /\ pid_child' = Slots /\ child' = Reaped /\ state' = "LOGGED"
      /\ unlinkfile' = 0 /\ childendinerror' = 0 /\ UNCHANGED <<fs, cur, kind, recvd>>
      /\ pc' \in {pc, "exit"}
  BY DEF SigchldSuccess
<1>2. pc \notin {"offered", "spawn", "forked"}
  BY <1>1, NobodyCollected DEF CompleteInv, FileInv
<1>3. InCourse /\ cur > 0
  BY <1>1, <1>2 DEF InCourse, CompleteInv, FileInv, Placed, LeftOver, WillUnlink, Raised
<1>4. ASSUME NEW s \in Streams
      PROVE  /\ s \in recvd /\ Reaped[<<cur, s>>] = "reaped"
             /\ child[<<cur, s>>] \notin {"failing", "bad", "killed"}
  <2>1. Slots[s] = NoPid
    BY <1>1 DEF NoChild
  <2>2. pid_child[s] = <<cur, s>> \/ (child[<<cur, s>>] = "reaped" /\ s \in recvd)
    BY <1>2, <1>3 DEF CompleteInv, Complete, CollectedIsReceived
  <2>3. CASE s \in Collected
    BY <1>1, <2>3, CollectedFacts
  <2>4. CASE s \notin Collected
    <3>1. pid_child[s] = NoPid /\ Reaped[<<cur, s>>] = child[<<cur, s>>]
      BY <1>1, <1>3, <2>1, <2>4, CollectedFacts
    <3>2. pid_child[s] # <<cur, s>>
      BY <1>3, <3>1 DEF NoPid
    <3> QED BY <2>2, <3>1, <3>2
  <2> QED BY <2>3, <2>4
<1>5. recvd = Streams
  BY <1>4 DEF CompleteInv, FileInv, AnswerInv, TypeInv, TypeOK
<1>6. Storing => fs = "new"
  BY <1>3, <1>4 DEF CompleteInv, Complete, GoneByFailure
<1>7. \A p \in Pids : Reaped[p] \in {"reaped", child[p]}
  BY DEF Reaped
<1>8. ASSUME NEW p \in Pids PROVE Reaped[p] \notin Live
  <2>1. p[1] \in Nat /\ p[2] \in Streams /\ p = <<p[1], p[2]>> /\ cur \in Nat
    BY BoundsAssumption, CurrentFacts DEF Pids, Requests
  <2>2. CASE p[1] = cur
    BY <1>4, <2>1, <2>2 DEF Live
  <2>3. CASE p[1] < cur
    BY <1>7, <2>3 DEF CompleteInv, Complete, OthersAreGone, Live
  <2>4. CASE p[1] > cur
    BY <1>7, <2>4 DEF CompleteInv, FileInv, AnswerInv, Said, Unborn, Live
  <2> QED BY <2>1, <2>2, <2>3, <2>4
<1>9. ~InCourse'
  BY <1>1, <1>2 DEF InCourse
<1>10. OthersAreGone' /\ OwnSlots'
  BY <1>1, <1>2, <1>8 DEF OthersAreGone, OwnSlots, NoChild
<1>11. CollectedIsReceived' /\ GoneByFailure'
  BY <1>9 DEF CollectedIsReceived, GoneByFailure
<1>12. DoneIsReceived'
  BY <1>1, <1>4 DEF DoneIsReceived
<1>13. Kept'
  BY <1>1, <1>5, <1>6, <1>8 DEF Kept, Storing
<1> QED BY <1>10, <1>11, <1>12, <1>13 DEF Complete

LEMMA FailureComplete == ASSUME CompleteInv, SigchldFailure PROVE Complete'
<1>1. pc \notin {"offered", "spawn", "forked"}
  BY NobodyCollected DEF SigchldFailure, CompleteInv, FileInv
<1>2. /\ pc' \in {pc, "exit"} /\ pid_child' = Slots /\ UNCHANGED <<cur, kind, recvd>>
      /\ childendinerror' = 1 \/ state' = "LOGGED"
  BY DEF SigchldFailure
<1>3. ~InCourse'
  BY <1>1, <1>2 DEF InCourse
<1>4. \A p \in Pids : child'[p] \in Live \cup {"done", "ok"} => child'[p] = child[p]
  <2>1. PICK victims : child' = Kill(victims, Reaped)
    BY DEF SigchldFailure
  <2>2. \A p \in Pids : Reaped[p] \in {"reaped", child[p]}
    BY DEF Reaped
  <2> QED BY <2>1, <2>2, KillFrame DEF Live
<1>5. \A s \in Streams : pid_child'[s] \in {NoPid, pid_child[s]}
  BY <1>2 DEF Slots
<1>6. ~(sent' = <<"OK">> /\ kind[cur] \in {"store", "retr"})
  <2>1. CASE FirstError
    <3>1. sent = <<>>
      BY <2>1 DEF SigchldFailure, FirstError, CompleteInv, FileInv, AnswerInv, Said, Accounted
    <3>2. <<>> # <<"OK">> /\ <<"BAD">> # <<"OK">>
      OBVIOUS
    <3> QED BY <2>1, <3>1, <3>2, ToldSomething DEF SigchldFailure
  <2>2. CASE ~FirstError
    <3>1. childendinerror = 1 /\ sent' = sent
      BY <2>2 DEF SigchldFailure, FirstError, CompleteInv, FileInv, AnswerInv, TypeInv, TypeOK
    <3>2. sent = <<"OK">> => cur # 0
      BY <<"OK">> # <<>> DEF CompleteInv, FileInv, Placed, AnsweredFirst
    <3> QED BY <3>1, <3>2 DEF CompleteInv, Complete, Kept, OkSent
  <2> QED BY <2>1, <2>2
<1> QED BY <1>1, <1>2, <1>3, <1>4, <1>5, <1>6, NotInCourse

LEMMA HandlerComplete == ASSUME CompleteInv, Signal \/ Sigterm PROVE Complete'
<1>1. CASE SigchldNone
  BY <1>1 DEF SigchldNone, fatherVars, flagVars, CompleteInv, Complete, OthersAreGone, OwnSlots,
              CollectedIsReceived, DoneIsReceived, GoneByFailure, Kept, InCourse, OkSent, Storing,
              Running
<1>2. CASE SigchldPart \/ SigchldSuccess \/ SigchldFailure
  BY <1>2, PartComplete, SuccessComplete, FailureComplete
<1>3. CASE Sigterm
  <2>1. ~InCourse'
    BY <1>3 DEF Sigterm, InCourse, Running
  <2>2. \A p \in Pids : child'[p] \in Live \cup {"done", "ok"} => child'[p] = child[p]
    BY <1>3, KillFrame DEF Sigterm, CleanChild
  <2>3. sent = <<"OK">> => cur # 0
    BY <<"OK">> # <<>> DEF CompleteInv, FileInv, Placed, AnsweredFirst
  <2>4. sent = <<"OK">> /\ kind[cur] \in {"store", "retr"} => fs' = fs
    BY <1>3, <2>3 DEF Sigterm, UnlinkAsked, CompleteInv, Complete, Kept, OkSent
  <2> QED BY <1>3, <2>1, <2>2, <2>4, NotInCourse DEF Sigterm
<1> QED BY <1>1, <1>2, <1>3 DEF Signal

LEMMA ServeComplete ==
  ASSUME CompleteInv, NEW p \in Pids, Serve(p) \/ StreamFails(p) \/ ChildKilled(p)
  PROVE  Complete'
<1>1. UNCHANGED fatherVars
  BY ServeFrame
<1>2. child[p] \in Live
  BY DEF Serve, OpenFile, NoFile, Stream, ChildExit, StreamFails, ChildKilled, MayStart, Live
<1>3. p = <<cur, p[2]>> /\ p[2] \in Streams /\ cur > 0
  <2>1. p[1] \in Nat \ {0} /\ p[2] \in Streams /\ p = <<p[1], p[2]>> /\ cur \in Nat
    BY BoundsAssumption, CurrentFacts DEF Pids, Requests
  <2>2. ~(p[1] < cur) /\ ~(p[1] > cur)
    BY <1>2 DEF CompleteInv, Complete, OthersAreGone, FileInv, AnswerInv, Said, Unborn, Live
  <2> QED BY <2>1, <2>2
<1>4. PICK life \in {"open", "failing", "done", "ok", "bad", "killed"} :
        child' = [child EXCEPT ![p] = life]
  BY DEF Serve, OpenFile, NoFile, Stream, ChildExit, StreamFails, ChildKilled, Dies, Becomes
<1>5. child'[p] = life /\ \A q \in Pids : q # p => child'[q] = child[q]
  BY <1>4, CurrentFacts
<1>6. /\ recvd \subseteq recvd'
      /\ life = "done" => p[2] \in recvd'
      /\ life = "ok" => child[p] = "done"
      /\ child[p] = "failing" => life \in {"bad", "killed"}
      /\ fs' # fs => life = "failing"
  <2>1. CASE OpenFile(p)
    BY <1>2, <1>5, <2>1, CurrentFacts DEF OpenFile, MayStart, Becomes
  <2>2. CASE NoFile(p) \/ StreamFails(p)
    BY <1>5, <2>2, CurrentFacts DEF NoFile, StreamFails, MayStart, Becomes
  <2>3. CASE Stream(p)
    BY <1>5, <2>3, CurrentFacts DEF Stream, Becomes
  <2>4. CASE ChildExit(p) \/ ChildKilled(p)
    BY <1>5, <2>4, CurrentFacts DEF ChildExit, ChildKilled, Dies, Becomes
  <2> QED BY <2>1, <2>2, <2>3, <2>4 DEF Serve
<1>7. OthersAreGone'
  <2>1. ASSUME NEW q \in Pids, q[1] < cur PROVE child'[q] \notin Live
    <3>1. q # p
      BY <1>3, <2>1, CurrentFacts
    <3> QED BY <1>5, <2>1, <3>1 DEF CompleteInv, Complete, OthersAreGone
  <2> QED BY <1>1, <2>1 DEF OthersAreGone, fatherVars
<1>8. OwnSlots'
  BY <1>1 DEF fatherVars, CompleteInv, Complete, OwnSlots
<1>9. \A s \in Streams : <<cur, s>> \in Pids /\ (s # p[2] => child'[<<cur, s>>] = child[<<cur, s>>])
  BY <1>3, <1>5, CurrentFacts
<1>10. child[p] # "reaped"
  BY <1>2 DEF Live
<1>11. CollectedIsReceived'
  BY <1>1, <1>3, <1>6, <1>9, <1>10
     DEF fatherVars, flagVars, CompleteInv, Complete, CollectedIsReceived, InCourse, Running
<1>12. DoneIsReceived'
  <2> SUFFICES ASSUME NEW s \in Streams, child'[<<cur, s>>] \in {"done", "ok"} PROVE s \in recvd'
    BY <1>1 DEF fatherVars, DoneIsReceived
  <2>1. CASE s = p[2]
    BY <1>3, <1>5, <1>6, <2>1 DEF CompleteInv, Complete, DoneIsReceived
  <2>2. CASE s # p[2]
    BY <1>3, <1>6, <1>9, <2>2 DEF CompleteInv, Complete, DoneIsReceived
  <2> QED BY <2>1, <2>2
<1>13. GoneByFailure'
  <2> SUFFICES ASSUME InCourse, Storing, fs' # "new"
               PROVE  \E s \in Streams : child'[<<cur, s>>] \in {"failing", "bad", "killed"}
    BY <1>1 DEF fatherVars, flagVars, GoneByFailure, InCourse, Running, Storing
  <2>1. CASE fs' # fs
    BY <1>3, <1>5, <1>6, <2>1
  <2>2. CASE fs' = fs
    <3>1. PICK s \in Streams : child[<<cur, s>>] \in {"failing", "bad", "killed"}
      BY <2>2 DEF CompleteInv, Complete, GoneByFailure
    <3>2. CASE s = p[2]
      BY <1>2, <1>3, <1>5, <1>6, <3>1, <3>2 DEF Live
    <3>3. CASE s # p[2]
      BY <1>9, <3>1, <3>3
    <3> QED BY <3>2, <3>3
  <2> QED BY <2>1, <2>2
<1>14. Kept'
  BY <1>1, <1>2 DEF fatherVars, flagVars, CompleteInv, Complete, Kept, OkSent
<1> QED BY <1>7, <1>8, <1>11, <1>12, <1>13, <1>14 DEF Complete

LEMMA CompleteInit == Init => Complete
<1> SUFFICES ASSUME Init PROVE Complete
  OBVIOUS
<1>1. /\ pc = "select" /\ state = "LOGGED" /\ cur = 0
      /\ \A p \in Pids : child[p] = "none"
      /\ \A s \in Streams : pid_child[s] = NoPid
  BY DEF Init, NoChild
<1>2. ~InCourse
  BY <1>1 DEF InCourse
<1>3. OthersAreGone /\ OwnSlots
  BY <1>1 DEF OthersAreGone, OwnSlots, Live
<1>4. CollectedIsReceived /\ DoneIsReceived /\ GoneByFailure /\ Kept
  BY <1>1, <1>2 DEF CollectedIsReceived, DoneIsReceived, GoneByFailure, Kept, OkSent
<1> QED BY <1>3, <1>4 DEF Complete

LEMMA CompleteStutter == ASSUME Complete, UNCHANGED vars PROVE Complete'
BY DEF Complete, OthersAreGone, OwnSlots, CollectedIsReceived, DoneIsReceived, GoneByFailure, Kept,
       InCourse, OkSent, Storing, Running, vars, fatherVars, flagVars

LEMMA CompleteNext ==
  ASSUME {"slow", "earlykill"} \cap Faults = {}, Patient PROVE CompleteInv /\ [Next]_vars => CompleteInv'
<1> SUFFICES ASSUME CompleteInv, [Next]_vars PROVE Complete'
  BY FileNext DEF CompleteInv
<1>1. CASE Loop
  BY <1>1, RequestComplete, OtherComplete, LoopComplete DEF Loop
<1>2. CASE Engine
  BY <1>2, StartComplete, LoopComplete DEF Engine
<1>3. CASE Signal \/ Sigterm
  BY <1>3, HandlerComplete
<1>4. CASE \E p \in Pids : Serve(p) \/ StreamFails(p) \/ ChildKilled(p)
  BY <1>4, ServeComplete
<1>5. CASE Gone \/ UNCHANGED vars
  BY <1>5, CompleteStutter DEF Gone, CompleteInv
<1> QED BY <1>1, <1>2, <1>3, <1>4, <1>5 DEF Next

(* MSG_OK for a file, of the handler or of an empty store, means that every *)
(* stream was received to its end and that the stored file is there, for a *)
(* client that waits before it asks again and children that are neither    *)
(* killed nor run out of patience before they are released.                *)
THEOREM V1OkMeansCompleteHolds ==
  ASSUME {"slow", "earlykill"} \cap Faults = {}, Patient PROVE Spec => []OkMeansComplete
<1>1. Init => CompleteInv
  BY TypeInit, SaidInit, PlacedInit, CompleteInit DEF AnswerInv, FileInv, CompleteInv
<1>2. CompleteInv /\ [Next]_vars => CompleteInv'
  BY CompleteNext
<1>3. CompleteInv => OkMeansComplete
  BY DEF CompleteInv, Complete, Kept, OkMeansComplete
<1> QED BY <1>1, <1>2, <1>3, PTL DEF Spec
=============================================================================
