---------------------------- MODULE TransferProof ----------------------------
(***************************************************************************)
(* What holds of Transfer for every number of streams and of transfers.    *)
(***************************************************************************)
EXTENDS Transfer, TLAPS

(* The type invariant is not inductive: that the counters stay in their    *)
(* range, and that a slot is only given the pid of a requested transfer,   *)
(* depends on where the father is.                                         *)
CountBound ==
  /\ pc = "spawn" => nbpidchild < i
  /\ pc = "forked" => i <= N /\ nbpidchild < i
  /\ pc = "counted" => i <= N /\ nbpidchild <= i

Asked == cur = 0 => state = "LOGGED" /\ pc \in {"top", "loop", "quit", "exit", "ub"}

ValueInv == ValueType /\ CountBound /\ Asked

TypeInv == FlagType /\ ValueInv

\* The path of a store is one of the two paths.
LEMMA RealInPaths == Real \in Paths
BY DEF Real, Paths

\* Removing a file keeps the type of the file system, ...
LEMMA UnlinkType == ASSUME ValueType PROVE UnlinkReal \in FsType /\ Unlink(Real) \in FsType
BY DEF ValueType, UnlinkReal, Unlink, FsType

\* ... so does creating one ...
LEMMA WriteType ==
  ASSUME NEW files \in FsType, NEW x
  PROVE  /\ [files EXCEPT ![x] = "new"] \in FsType
         /\ [files EXCEPT ![x] = "absent"] \in FsType
BY DEF FsType

\* ... and applying the options.
LEMMA ProcessedType ==
  ASSUME NEW files \in FsType, NEW ok \in BOOLEAN
  PROVE  Processed(files, ok) \in FsType
BY RealInPaths DEF Processed, FsType, Paths

\* Killing children keeps the type of their table, ...
LEMMA KilledByType ==
  ASSUME NEW victims, NEW c \in ChildType
  PROVE  KilledBy(victims, c) \in ChildType
BY DEF KilledBy, ChildType, Zombie, Live

\* ... so does each step of a child's life ...
LEMMA LifeType ==
  ASSUME NEW c \in ChildType, NEW p
  PROVE  /\ [c EXCEPT ![p] = "waiting"] \in ChildType
         /\ [c EXCEPT ![p] = "open"] \in ChildType
         /\ [c EXCEPT ![p] = "done"] \in ChildType
         /\ [c EXCEPT ![p] = "failing"] \in ChildType
         /\ [c EXCEPT ![p] = "ok"] \in ChildType
         /\ [c EXCEPT ![p] = "bad"] \in ChildType
BY DEF ChildType, Live, Zombie

\* ... and collecting them.
LEMMA ReapedType == ASSUME ValueType PROVE Reaped \in ChildType
BY DEF Reaped, ValueType, ChildType

\* The slots keep their type when children are collected ...
LEMMA SlotsLeftType == ASSUME ValueType PROVE SlotsLeft \in SlotType
BY DEF SlotsLeft, ValueType, SlotType

\* ... and when they are allocated.
LEMMA AllocateType == ASSUME ValueType, Allocate PROVE mychildren' \in SlotType /\ allocated' = TRUE
BY DEF Allocate, SlotType

\* Only final answers are recorded as sent, ...
LEMMA SentType ==
  ASSUME ValueType
  PROVE  /\ Append(sent, "OK") \in Seq({"OK", "BAD"})
         /\ Append(sent, "BAD") \in Seq({"OK", "BAD"})
         /\ Told("OK") \in Seq({"OK", "BAD"})
         /\ Told("BAD") \in Seq({"OK", "BAD"})
BY DEF ValueType, Told

\* ... also when a reply may fail and end the session.
LEMMA ReplyType ==
  ASSUME ValueType, NEW next, ReplyThen("OK", next) \/ ReplyThen("BAD", next)
  PROVE  sent' \in Seq({"OK", "BAD"}) /\ pc' \in {next, "exit"}
<1>1. sent \in Seq({"OK", "BAD"})
  BY DEF ValueType
<1>2. CASE ReplyThen("OK", next)
  BY <1>1, <1>2, SentType DEF ReplyThen
<1>3. CASE ReplyThen("BAD", next)
  BY <1>1, <1>3, SentType DEF ReplyThen
<1> QED BY <1>2, <1>3

\* The initial state is well typed.
LEMMA TypeInit == Init => TypeInv
<1> SUFFICES ASSUME Init PROVE TypeInv
  OBVIOUS
<1>1. FlagType
  BY DEF Init, FlagType
<1>2. child \in ChildType /\ mychildren \in SlotType /\ fs \in FsType
  BY DEF Init, ChildType, SlotType, FsType, Paths
<1>3. ValueType
  BY <1>2, NAssumption, MaxTransfersAssumption DEF Init, ValueType
<1>4. CountBound /\ Asked
  BY DEF Init, CountBound, Asked
<1> QED BY <1>1, <1>3, <1>4 DEF TypeInv, ValueInv

\* The handlers of the control connection.
LEMMA ControlType == ASSUME TypeInv, Control PROVE ValueInv'
<1> USE NAssumption, MaxTransfersAssumption, ChoicesAssumption
        DEF TypeInv, ValueInv, ValueType, CountBound, Asked, FreeAllVar, InState,
            WaitingStart, ctlVars, memVars, flagVars, askVars
<1>1. CASE Select
  BY <1>1 DEF Select, Timer
<1>2. CASE \E kind \in Kinds : Request(kind)
  BY <1>2 DEF Request, Transfers, FsType
<1>3. CASE StoreRefused
  BY <1>3, UnlinkType, ReplyType DEF StoreRefused
<1>4. CASE StoreEmpty
  <2>1. PICK ok \in BOOLEAN :
           /\ fs' = Processed([fs EXCEPT ![Real] = "new"], ok)
           /\ ReplyThen(Answer(ok), "top")
    BY <1>4 DEF StoreEmpty
  <2>2. fs' \in FsType
    BY <2>1, WriteType, ProcessedType
  <2>3. sent' \in Seq({"OK", "BAD"}) /\ pc' \in {"top", "exit"}
    BY <2>1, ReplyType DEF Answer
  <2> QED BY <1>4, <2>2, <2>3 DEF StoreEmpty
<1>5. CASE StoreAccepted
  BY <1>5, WriteType, AllocateType DEF StoreAccepted, Allocate
<1>6. CASE StoreNoMemory
  <2>1. fs' \in FsType
    BY <1>6, WriteType DEF StoreNoMemory
  <2>2. sent' \in Seq({"OK", "BAD"}) /\ pc' \in {"top", "exit"}
    BY <1>6, ReplyType DEF StoreNoMemory
  <2> QED BY <1>6, <2>1, <2>2 DEF StoreNoMemory
<1>7. CASE StoreNoSocket
  BY <1>7, UnlinkType DEF StoreNoSocket
<1>8. CASE RetrRefused
  BY <1>8, ReplyType DEF RetrRefused
<1>9. CASE RetrEmpty \/ RetrNoSocket \/ CreateZero \/ TransStartFreed \/ FreedName
  BY <1>9 DEF RetrEmpty, RetrNoSocket, CreateZero, TransStartFreed, FreedName
<1>10. CASE RetrAccepted
  BY <1>10, AllocateType DEF RetrAccepted, Allocate
<1>11. CASE \E sim \in BOOLEAN : TransStart(sim)
  BY <1>11 DEF TransStart, Transfers
<1>12. CASE AbortStart
  BY <1>12, UnlinkType DEF AbortStart
<1>13. CASE InvalidMessage
  <2>1. fs' \in FsType
    BY <1>13, UnlinkType DEF InvalidMessage
  <2>2. /\ sent' \in Seq({"OK", "BAD"})
        /\ pc' \in {"quit", "exit"}
    BY <1>13, ReplyType DEF InvalidMessage
  <2>3. /\ nbpidchild' \in 0..N /\ mychildren' \in SlotType
    BY <1>13 DEF InvalidMessage
  <2> QED BY <1>13, <2>1, <2>2, <2>3 DEF InvalidMessage
<1>14. CASE InterruptTransfer \/ Disconnect \/ IdleTimeout \/ CloseConn
  BY <1>14, UnlinkType DEF InterruptTransfer, Disconnect, IdleTimeout, CloseConn
<1>15. CASE Exit
  BY <1>15, KilledByType DEF Exit, CleanChildThen, CleanChild
<1>16. CASE NameUnread
  BY <1>16, ReplyType DEF NameUnread
<1> QED
  BY <1>1, <1>2, <1>3, <1>4, <1>5, <1>6, <1>7, <1>8, <1>9, <1>10, <1>11, <1>12,
     <1>13, <1>14, <1>15, <1>16 DEF Control

\* The father while it starts the children.
LEMMA EngineType == ASSUME TypeInv, Engine PROVE ValueInv'
<1> USE NAssumption, MaxTransfersAssumption
        DEF TypeInv, ValueInv, ValueType, CountBound, Asked, FreeAllVar,
            ctlVars, memVars, flagVars, askVars
<1>1. CASE Spawn
  <2>1. [child EXCEPT ![<<cur, i>>] = "waiting"] \in ChildType
    BY LifeType
  <2>2. child' \in ChildType
    BY <1>1, <2>1 DEF Spawn
  <2> QED BY <1>1, <2>2 DEF Spawn
<1>2. CASE SpawnFails
  BY <1>2, UnlinkType DEF SpawnFails
<1>3. CASE Report
  <2>1. /\ sent' \in Seq({"OK", "BAD"})
        /\ pc' \in {"failed", "exit", "ub"}
    <3>1. sent' = sent \/ sent' = Append(sent, "BAD")
      BY <1>3 DEF Report
    <3>2. pc' \in {"failed", "exit", "ub"}
      BY <1>3 DEF Report, CleanChildThen
    <3> QED BY <3>1, <3>2, SentType
  <2>2. child' \in ChildType /\ killdone' \in {0, 1}
    BY <1>3, KilledByType DEF Report, CleanChildThen, CleanChild
  <2> QED BY <1>3, <2>1, <2>2 DEF Report
<1>4. CASE KillStarted
  BY <1>4, KilledByType DEF KillStarted, CleanChildThen, CleanChild
<1>5. CASE GiveUp
  BY <1>5, UnlinkType DEF GiveUp
<1>6. CASE Count
  BY <1>6 DEF Count
<1>7. CASE Record
  <2>1. mychildren' \in SlotType
    BY <1>7 DEF Record, Pids, Streams, Transfers, SlotType
  <2> QED BY <1>7, <2>1 DEF Record
<1>8. CASE AllForked
  BY <1>8 DEF AllForked
<1>9. CASE Release
  <2>1. child' \in ChildType
    BY <1>9 DEF Release, Live, ChildType
  <2> QED BY <1>9, <2>1 DEF Release
<1>10. CASE Released
  BY <1>10 DEF Released
<1> QED
  BY <1>1, <1>2, <1>3, <1>4, <1>5, <1>6, <1>7, <1>8, <1>9, <1>10 DEF Engine

\* The signal handlers.
LEMMA SignalType == ASSUME TypeInv, Signal PROVE ValueInv'
<1> USE NAssumption, MaxTransfersAssumption
        DEF TypeInv, ValueInv, ValueType, CountBound, Asked, FreeAllVar,
            ctlVars, memVars, flagVars, askVars
<1>1. CASE SigchldNone \/ SigchldFreed
  <2>1. CASE SigchldNone
    BY <2>1 DEF SigchldNone
  <2>2. CASE SigchldFreed
    BY <2>2 DEF SigchldFreed
  <2> QED BY <1>1, <2>1, <2>2
<1>2. CASE SigchldPart
  BY <1>2, ReapedType, SlotsLeftType DEF SigchldPart
<1>3. CASE SigchldSuccess
  <2>1. PICK ok \in IF unlinkfile \in {1, 4} THEN ProcessOutcomes ELSE {TRUE} :
          LET files == IF unlinkfile \in {1, 4} THEN Processed(fs, ok) ELSE fs IN
          \/ /\ sent' = Told(Answer(ok)) /\ UNCHANGED pc
             /\ fs' = IF unlinkfile = 4 THEN [files EXCEPT !["cur"] = "absent"] ELSE files
          \/ "reply" \in Faults /\ pc' = "exit" /\ UNCHANGED sent /\ fs' = files
    BY <1>3 DEF SigchldSuccess
  <2>2. fs' \in FsType
    <3>1. ok \in BOOLEAN
      BY DEF ProcessOutcomes
    <3>2. Processed(fs, ok) \in FsType
      BY <3>1, ProcessedType
    <3> DEFINE files == IF unlinkfile \in {1, 4} THEN Processed(fs, ok) ELSE fs
    <3>3. files \in FsType
      BY <3>2
    <3>4. fs' = files \/ fs' = [files EXCEPT !["cur"] = "absent"]
      BY <2>1
    <3> HIDE DEF files
    <3>5. [files EXCEPT !["cur"] = "absent"] \in FsType
      BY <3>3, WriteType
    <3> QED BY <3>3, <3>4, <3>5
  <2>3. sent' \in Seq({"OK", "BAD"}) /\ pc' \in {pc, "exit"}
    BY <2>1, SentType DEF Answer
  <2>4. child' \in ChildType
    BY <1>3, ReapedType DEF SigchldSuccess
  <2> QED BY <1>3, <2>2, <2>3, <2>4 DEF SigchldSuccess
<1>4. CASE SigchldFailure
  <2>1. child' \in ChildType
    BY <1>4, ReapedType, KilledByType DEF SigchldFailure
  <2>2. mychildren' \in SlotType
    BY <1>4, SlotsLeftType DEF SigchldFailure
  <2>3. fs' \in FsType
    BY <1>4, UnlinkType DEF SigchldFailure
  <2>4. sent' \in Seq({"OK", "BAD"}) /\ pc' \in {pc, "exit", "ub"}
    BY <1>4, SentType DEF SigchldFailure
  <2>5. /\ state' \in {state, "LOGGED"} /\ unlinkfile' \in {unlinkfile, 0}
        /\ killdone' \in {0, 1} /\ childendinerror' \in {0, 1}
        /\ nbpidchild' \in {nbpidchild, 0}
    BY <1>4 DEF SigchldFailure
  <2>6. UNCHANGED <<timeout, i, askVars, recvd>>
    BY <1>4 DEF SigchldFailure
  <2> QED BY <2>1, <2>2, <2>3, <2>4, <2>5, <2>6
<1> QED BY <1>1, <1>2, <1>3, <1>4 DEF Signal

\* The children.
LEMMA ChildrenType ==
  ASSUME TypeInv, NEW p \in Pids, Serve(p) \/ StreamFails(p) \/ ChildKilled(p)
  PROVE  ValueInv'
<1> USE DEF TypeInv, ValueInv, ValueType, CountBound, Asked, fatherVars,
            ctlVars, memVars, flagVars, askVars
<1>1. ChildUnlink(p) \in FsType
  BY UnlinkType DEF ChildUnlink
<1>2. /\ [child EXCEPT ![p] = "open"] \in ChildType
      /\ [child EXCEPT ![p] = "done"] \in ChildType
      /\ [child EXCEPT ![p] = "failing"] \in ChildType
      /\ [child EXCEPT ![p] = "ok"] \in ChildType
      /\ [child EXCEPT ![p] = "bad"] \in ChildType
  BY LifeType
<1>3. CASE OpenFragment(p)
  BY <1>2, <1>3 DEF OpenFragment
<1>4. CASE OpenFails(p) \/ StreamFails(p)
  <2>1. /\ fs' = ChildUnlink(p)
        /\ child' = [child EXCEPT ![p] = "failing"]
        /\ UNCHANGED <<fatherVars, recvd>>
    BY <1>4 DEF OpenFails, StreamFails
  <2> QED BY <1>1, <1>2, <2>1
<1>5. CASE Stream(p)
  <2>1. recvd' \subseteq Streams
    BY <1>5 DEF Stream, Pids
  <2> QED BY <1>2, <1>5, <2>1 DEF Stream
<1>6. CASE ChildExit(p) \/ ChildKilled(p)
  <2>1. Die(p, "ok") \/ Die(p, "bad")
    BY <1>6 DEF ChildExit, ChildKilled
  <2>2. child' \in ChildType
    <3>1. CASE Die(p, "ok")
      BY <1>2, <3>1 DEF Die
    <3>2. CASE Die(p, "bad")
      BY <1>2, <3>2 DEF Die
    <3> QED BY <2>1, <3>1, <3>2
  <2>3. UNCHANGED <<fatherVars, fs, recvd>>
    BY <2>1 DEF Die
  <2> QED BY <2>2, <2>3
<1> QED BY <1>3, <1>4, <1>5, <1>6 DEF Serve

\* The flags of all steps.
LEMMA FlagNext == ASSUME FlagType, [Next]_vars PROVE FlagType'
<1> USE DEF FlagType, FreeAllVar, Allocate, CleanChildThen, CleanChild, memVars
<1>1. CASE Control
  BY <1>1 DEF Control, Select, Request, StoreRefused, StoreEmpty, StoreAccepted,
      StoreNoMemory, StoreNoSocket, RetrRefused, RetrEmpty, RetrAccepted, RetrNoSocket,
      CreateZero, TransStart, TransStartFreed, AbortStart, InvalidMessage,
      NameUnread, FreedName, InterruptTransfer, Disconnect, IdleTimeout, CloseConn, Exit
<1>2. CASE Engine
  BY <1>2 DEF Engine, Spawn, SpawnFails, Report, KillStarted, GiveUp, Count, Record,
      AllForked, Release, Released
<1>3. CASE Signal
  BY <1>3 DEF Signal, SigchldNone, SigchldFreed, SigchldPart, SigchldSuccess, SigchldFailure
<1>4. CASE Sigterm
  BY <1>4 DEF Sigterm
<1>5. ASSUME NEW p \in Pids, Serve(p) \/ StreamFails(p) \/ ChildKilled(p)
      PROVE  FlagType'
  BY <1>5 DEF Serve, OpenFragment, OpenFails, Stream, StreamFails, ChildExit, ChildKilled,
      Die, fatherVars
<1>6. CASE UNCHANGED vars
  BY <1>6 DEF vars
<1> QED BY <1>1, <1>2, <1>3, <1>4, <1>5, <1>6 DEF Next, Gone

\* Every step keeps the types and what they rest on.
LEMMA TypeNext == TypeInv /\ [Next]_vars => TypeInv'
<1> SUFFICES ASSUME TypeInv, [Next]_vars PROVE TypeInv'
  OBVIOUS
<1>1. FlagType'
  BY FlagNext DEF TypeInv
<1>2. CASE Sigterm
  <2>1. ValueInv'
    BY <1>2, UnlinkType, KilledByType
       DEF Sigterm, CleanChildThen, CleanChild, TypeInv, ValueInv, ValueType, CountBound, Asked,
           ctlVars, memVars, askVars
  <2> QED BY <1>1, <2>1 DEF TypeInv
<1>3. CASE UNCHANGED vars
  <2>1. ValueInv'
    BY <1>3 DEF vars, TypeInv, ValueInv, ValueType, CountBound, Asked
  <2> QED BY <1>1, <2>1 DEF TypeInv
<1> QED
  BY <1>1, <1>2, <1>3, ControlType, EngineType, SignalType, ChildrenType
     DEF Next, Gone, TypeInv

\* Every variable keeps its type: no counter leaves its range and no slot is
\* given anything but the pid of a child of this session.
THEOREM TypeCorrect == Spec => []TypeOK
<1>1. Init => TypeInv
  BY TypeInit
<1>2. TypeInv /\ [Next]_vars => TypeInv'
  BY TypeNext
<1>3. TypeInv => TypeOK
  BY DEF TypeInv, ValueInv, TypeOK
<1> QED BY <1>1, <1>2, <1>3, PTL DEF Spec

-----------------------------------------------------------------------------
(* At most one answer per request.  The argument: the father answers only  *)
(* while it has no child of the request or, if starting them fails, while  *)
(* no child can have ended; the handler answers only when it counts        *)
(* children and childendinerror is clear, and then sets the one or resets  *)
(* the other.                                                              *)

NotStarted ==
  /\ pc \in {"top", "loop"}
  /\ state \in {"WAITING_FILENAME_STORE", "WAITING_FILENAME_RETR",
                "WAITING_STORE_START", "WAITING_RETR_START", "WAITING_CREATE_ZERO"}
Forking == pc \in {"spawn", "forked", "counted", "report"}

NothingSent == NotStarted \/ Forking => sent = <<>>

NothingCounted ==
  /\ pc \in {"top", "loop", "hup"} /\ state \notin {"RECEIVING", "SENDING"} => nbpidchild = 0
  /\ pc = "hup" => state \in {"RECEIVING", "SENDING", "LOGGED"}

NoSlotYet ==
  pc \in {"top", "loop"} /\ state \in {"WAITING_STORE_START", "WAITING_RETR_START"} /\ allocated
    => \A s \in Streams : mychildren[s] \notin Pids

OwnSlots == Forking => \A s \in Streams : mychildren[s] \in Pids => mychildren[s][1] = cur

ChildrenWait ==
  \A p \in Pids : /\ NotStarted /\ p[1] = cur => child[p] = "none"
                  /\ Forking /\ p[1] = cur => child[p] \in {"none", "waiting"}
                  /\ p[1] > cur => child[p] = "none"

NoErrorYet == Forking => childendinerror = 0

AnswerAccounted == childendinerror = 0 /\ nbpidchild > 0 => sent = <<>>

AnswerInv ==
  /\ OneAnswer /\ NothingSent /\ NothingCounted /\ NoSlotYet /\ OwnSlots /\ ChildrenWait
  /\ NoErrorYet /\ AnswerAccounted

\* The first answer is one answer.
LEMMA FirstAnswer ==
  ASSUME sent = <<>>,
         sent' = sent \/ sent' = Append(sent, "OK") \/ sent' = Append(sent, "BAD")
  PROVE  OneAnswer'
<1>1. Len(Append(<<>>, "OK")) = 1 /\ Len(Append(<<>>, "BAD")) = 1 /\ Len(<<>>) = 0
  OBVIOUS
<1>2. sent' \in {<<>>, Append(<<>>, "OK"), Append(<<>>, "BAD")}
  OBVIOUS
<1>3. Len(sent') <= 1
  <2>1. CASE sent' = <<>>
    BY <1>1, <2>1
  <2>2. CASE sent' = Append(<<>>, "OK")
    BY <1>1, <2>2
  <2>3. CASE sent' = Append(<<>>, "BAD")
    BY <1>1, <2>3
  <2> QED BY <1>2, <2>1, <2>2, <2>3
<1> QED BY <1>3 DEF OneAnswer

\* What an unwritten slot holds is no pid.
LEMMA PidsAreNotZero == NoPid \notin Pids /\ Junk \notin Pids
BY MaxTransfersAssumption DEF NoPid, Junk, Pids, Transfers

\* No answer is sent at the beginning.
LEMMA AnswerInit == Init => AnswerInv
BY DEF Init, AnswerInv, OneAnswer, NotStarted, Forking, NothingSent, NothingCounted,
       NoSlotYet, OwnSlots, ChildrenWait, NoErrorYet, AnswerAccounted

\* Steps of the father that concern no child.
LEMMA ControlAnswer == ASSUME TypeInv, AnswerInv, Control PROVE AnswerInv'
<1> USE DEF AnswerInv, OneAnswer, NotStarted, Forking, NothingSent, NothingCounted,
            NoSlotYet, OwnSlots, ChildrenWait, NoErrorYet, AnswerAccounted,
            InState, FreeAllVar, ctlVars, memVars, flagVars, askVars
<1>1. CASE Select
  BY <1>1 DEF Select
<1>2. CASE \E kind \in Kinds : Request(kind)
  BY <1>2, ChoicesAssumption DEF Request, TypeInv, ValueInv, ValueType, Pids, Transfers
<1>3. CASE StoreRefused \/ StoreEmpty \/ StoreNoMemory \/ RetrRefused
  <2>1. /\ nbpidchild' = 0 /\ state' = "LOGGED" /\ pc' \in {"top", "exit"}
        /\ sent' = Append(sent, "OK") \/ sent' = Append(sent, "BAD") \/ sent' = sent
        /\ sent = <<>>
        /\ UNCHANGED <<cur, child>>
    BY <1>3 DEF StoreRefused, StoreEmpty, StoreNoMemory, RetrRefused, ReplyThen, Answer
  <2>2. OneAnswer'
    BY <2>1, FirstAnswer
  <2> QED BY <2>1, <2>2
<1>4. CASE StoreAccepted \/ RetrAccepted
  BY <1>4, PidsAreNotZero DEF StoreAccepted, RetrAccepted, Allocate
<1>5. CASE StoreNoSocket \/ RetrNoSocket \/ RetrEmpty \/ CreateZero
  BY <1>5 DEF StoreNoSocket, RetrNoSocket, RetrEmpty, CreateZero
<1>6. CASE \E sim \in BOOLEAN : TransStart(sim)
  BY <1>6 DEF TransStart, WaitingStart
<1>7. CASE TransStartFreed \/ FreedName \/ AbortStart
  BY <1>7 DEF TransStartFreed, FreedName, AbortStart, WaitingStart
<1>8. CASE InvalidMessage \/ NameUnread
  <2>1. /\ pc' \in {"quit", "exit", "unread"} /\ nbpidchild' = 0
        /\ UNCHANGED <<cur, child>>
        /\ sent' = sent \/ (sent = <<>> /\ sent' = Append(sent, "BAD"))
    BY <1>8 DEF InvalidMessage, NameUnread, ReplyThen, WaitingStart, TypeInv, ValueInv, ValueType
  <2>2. OneAnswer'
    BY <2>1, FirstAnswer
  <2> QED BY <2>1, <2>2
<1>9. CASE InterruptTransfer \/ Disconnect \/ IdleTimeout \/ CloseConn
  BY <1>9 DEF InterruptTransfer, Disconnect, IdleTimeout, CloseConn
<1>10. CASE Exit
  BY <1>10 DEF Exit, CleanChildThen, CleanChild, KilledBy, Victims, Live
<1> QED
  BY <1>1, <1>2, <1>3, <1>4, <1>5, <1>6, <1>7, <1>8, <1>9, <1>10 DEF Control

\* The father while it starts the children.
LEMMA EngineAnswer == ASSUME TypeInv, AnswerInv, Engine PROVE AnswerInv'
<1> USE DEF AnswerInv, OneAnswer, NotStarted, Forking, NothingSent, NothingCounted,
            NoSlotYet, OwnSlots, ChildrenWait, NoErrorYet, AnswerAccounted,
            FreeAllVar, ctlVars, memVars, flagVars, askVars
<1>1. CASE Spawn
  <2>1. /\ pc = "spawn" /\ pc' \in {"forked", "ub"}
        /\ \A p \in Pids : child'[p] = child[p] \/ (p[1] = cur /\ child'[p] = "waiting")
        /\ UNCHANGED <<state, cur, sent, mychildren, allocated, nbpidchild, childendinerror>>
    <3>1. child' = [child EXCEPT ![<<cur, i>>] = "waiting"] \/ child' = child
      BY <1>1 DEF Spawn
    <3>2. ASSUME NEW p \in Pids
          PROVE  child'[p] = child[p] \/ (p = <<cur, i>> /\ child'[p] = "waiting")
      BY <3>1 DEF TypeInv, ValueInv, ValueType, ChildType
    <3>3. ASSUME NEW p \in Pids, p = <<cur, i>>
          PROVE  p[1] = cur
      BY <3>3
    <3>4. /\ pc = "spawn" /\ pc' \in {"forked", "ub"}
          /\ UNCHANGED <<state, cur, sent, mychildren, allocated, nbpidchild, childendinerror>>
      BY <1>1 DEF Spawn
    <3> QED BY <3>2, <3>3, <3>4
  <2>2. ChildrenWait'
    <3>1. ASSUME NEW p \in Pids
          PROVE  /\ (NotStarted /\ p[1] = cur => child[p] = "none")'
                 /\ (Forking /\ p[1] = cur => child[p] \in {"none", "waiting"})'
                 /\ (p[1] > cur => child[p] = "none")'
      <4>1. cur \in Nat /\ p[1] \in Nat
        BY DEF TypeInv, ValueInv, ValueType, Pids, Transfers
      <4>2. ~NotStarted'
        BY <2>1
      <4>3. Forking /\ p[1] = cur => child[p] \in {"none", "waiting"}
        OBVIOUS
      <4> QED BY <2>1, <4>1, <4>2, <4>3
    <3> QED BY <3>1
  <2>3. OneAnswer' /\ NothingSent' /\ NothingCounted' /\ NoSlotYet'
    BY <2>1
  <2>4. OwnSlots' /\ NoErrorYet' /\ AnswerAccounted'
    BY <2>1
  <2> QED BY <2>2, <2>3, <2>4
<1>2. CASE SpawnFails
  BY <1>2 DEF SpawnFails
<1>3. CASE Report
  <2>1. sent = <<>> /\ (sent' = Append(sent, "BAD") \/ sent' = sent)
    BY <1>3 DEF Report
  <2>2. \A p \in Pids : p[1] > cur => child'[p] = "none"
    BY <1>3 DEF Report, CleanChildThen, CleanChild, KilledBy, Victims, Live
  <2>3. pc' \in {"failed", "exit", "ub"} /\ childendinerror' = 1 /\ cur' = cur
    BY <1>3 DEF Report, CleanChildThen
  <2>4. OneAnswer'
    BY <2>1, FirstAnswer
  <2> QED BY <2>2, <2>3, <2>4
<1>4. CASE KillStarted
  BY <1>4 DEF KillStarted, CleanChildThen, CleanChild, KilledBy, Victims, Live
<1>5. CASE GiveUp
  BY <1>5 DEF GiveUp
<1>6. CASE Count
  BY <1>6 DEF Count
<1>7. CASE Record
  BY <1>7 DEF Record, TypeInv, ValueInv, ValueType, SlotType
<1>8. CASE AllForked
  BY <1>8 DEF AllForked
<1>9. CASE Release
  BY <1>9 DEF Release
<1>10. CASE Released
  BY <1>10 DEF Released
<1> QED
  BY <1>1, <1>2, <1>3, <1>4, <1>5, <1>6, <1>7, <1>8, <1>9, <1>10 DEF Engine

\* While the children are being forked none of them is a zombie to collect, so
\* the handler neither answers nor forgets a running child.
LEMMA NothingToCollect ==
  ASSUME TypeInv, AnswerInv, NotStarted \/ Forking, Signal
  PROVE  /\ SigchldNone \/ SigchldFreed \/ SigchldPart
         /\ Collected = {}
<1> USE DEF AnswerInv
<1>1. Collected = {}
  <2> SUFFICES ASSUME NEW s \in Collected PROVE FALSE
    OBVIOUS
  <2>1. s \in Streams /\ nbpidchild # 0
    BY NAssumption DEF Collected, Slots, TypeInv, ValueInv, ValueType, Streams
  <2>2. Forking
    BY <2>1 DEF NothingCounted, NotStarted
  <2>3. mychildren[s] \in Pids /\ child[mychildren[s]] \in {"none", "waiting"}
    BY <2>1, <2>2 DEF Collected, OwnSlots, ChildrenWait
  <2> QED BY <2>3 DEF Collected, Zombie
<1>2. CollectedBad = {}
  BY <1>1 DEF CollectedBad
<1>3. ~SigchldFailure
  <2>1. CASE NotStarted
    BY <2>1 DEF SigchldFailure, SigchldCollects, AllEnded, NothingCounted, NotStarted
  <2>2. CASE Forking
    BY <2>2, <1>2 DEF SigchldFailure, InError, NoErrorYet
  <2> QED BY <2>1, <2>2
<1>4. ~SigchldSuccess
  BY <1>1 DEF SigchldSuccess, SigchldCollects, AllEnded, Left
<1> QED BY <1>1, <1>3, <1>4 DEF Signal

\* The handler collects only children that have ended.
LEMMA NotZombieNotReaped ==
  ASSUME NEW p \in Pids, child[p] \notin Zombie
  PROVE  Reaped[p] = child[p]
BY DEF Reaped, Collected

\* The handler.
LEMMA SignalAnswer == ASSUME TypeInv, AnswerInv, Signal PROVE AnswerInv'
<1> USE DEF AnswerInv, OneAnswer, NotStarted, Forking, NothingSent, NothingCounted,
            NoSlotYet, OwnSlots, ChildrenWait, NoErrorYet, AnswerAccounted,
            FreeAllVar, ctlVars, memVars, flagVars, askVars
<1>1. CASE SigchldNone \/ SigchldFreed
  BY <1>1 DEF SigchldNone, SigchldFreed
<1>2. CASE SigchldPart
  <2>1. UNCHANGED <<pc, state, cur, sent, childendinerror, nbpidchild, allocated>>
    BY <1>2 DEF SigchldPart
  <2>2. \A s \in Streams : mychildren'[s] \in {mychildren[s], NoPid}
    BY <1>2 DEF SigchldPart, SlotsLeft
  <2>3. NoSlotYet' /\ OwnSlots'
    BY <2>1, <2>2, PidsAreNotZero
  <2>4. ASSUME NEW p \in Pids, child[p] \in {"none", "waiting"}
        PROVE  child'[p] = child[p]
    BY <1>2, <2>4, NotZombieNotReaped DEF SigchldPart, Zombie
  <2>5. ChildrenWait'
    BY <2>1, <2>4
  <2> QED BY <2>1, <2>3, <2>5
<1>3. CASE SigchldSuccess
  <2>1. ~(NotStarted \/ Forking)
    BY <1>3, NothingToCollect DEF Signal, SigchldNone, SigchldFreed, SigchldPart, SigchldSuccess,
       SigchldCollects
  <2>2. sent = <<>>
    BY <1>3 DEF SigchldSuccess, SigchldCollects, AllEnded, InError, TypeInv, ValueInv, ValueType
  <2>3. OneAnswer'
    BY <1>3, <2>2, FirstAnswer DEF SigchldSuccess, Told, Answer
  <2>4. /\ nbpidchild' = 0 /\ state' = "LOGGED" /\ pc' \in {pc, "exit"}
        /\ UNCHANGED cur /\ child' = Reaped
    BY <1>3 DEF SigchldSuccess
  <2>5. \A p \in Pids : p[1] > cur => child'[p] = "none"
    BY <2>4, NotZombieNotReaped DEF Zombie
  <2> QED BY <2>1, <2>3, <2>4, <2>5
<1>4. CASE SigchldFailure
  <2>1. ~(NotStarted \/ Forking)
    BY <1>4, NothingToCollect DEF Signal, SigchldNone, SigchldFreed, SigchldPart, SigchldFailure,
       SigchldCollects
  <2>2. sent' = sent \/ sent = <<>>
    BY <1>4 DEF SigchldFailure, SigchldCollects, AllEnded, FirstError, TypeInv, ValueInv, ValueType
  <2>3. OneAnswer'
    BY <1>4, <2>2, FirstAnswer DEF SigchldFailure, Told
  <2>4. \/ childendinerror' = 1 /\ nbpidchild' = nbpidchild /\ state' = state
        \/ nbpidchild' = 0 /\ state' = "LOGGED"
    <3>1. CASE Left = {}
      BY <1>4, <3>1 DEF SigchldFailure
    <3>2. CASE Left # {}
      BY <1>4, <3>2 DEF SigchldFailure
    <3> QED BY <3>1, <3>2
  <2>5. pc' \in {pc, "exit", "ub"} /\ UNCHANGED cur /\ child' = KilledBy(Victims, Reaped)
    BY <1>4 DEF SigchldFailure
  <2>6. \A p \in Pids : p[1] > cur => child'[p] = "none"
    BY <2>5, NotZombieNotReaped DEF Zombie, KilledBy, Victims, Live
  <2> QED BY <2>1, <2>3, <2>4, <2>5, <2>6
<1> QED BY <1>1, <1>2, <1>3, <1>4 DEF Signal

\* The children, unless one can end before all are started.
LEMMA ChildrenAnswer ==
  ASSUME TypeInv, AnswerInv, {"slow", "earlykill"} \cap Faults = {},
         NEW p \in Pids, Serve(p) \/ StreamFails(p) \/ ChildKilled(p)
  PROVE  AnswerInv'
<1> USE DEF AnswerInv, OneAnswer, NotStarted, Forking, NothingSent, NothingCounted,
            NoSlotYet, OwnSlots, ChildrenWait, NoErrorYet, AnswerAccounted
<1>1. child[p] # "none"
  BY DEF Serve, OpenFragment, OpenFails, MayStart, Stream, StreamFails, ChildExit, ChildKilled, Live
<1>2. \E life : child' = [child EXCEPT ![p] = life]
  BY DEF Serve, OpenFragment, OpenFails, Stream, StreamFails, ChildExit, ChildKilled, Die
<1>3. UNCHANGED fatherVars
  BY DEF Serve, OpenFragment, OpenFails, Stream, StreamFails, ChildExit, ChildKilled, Die
<1>4. ~(Forking /\ p[1] = cur)
  <2> SUFFICES ASSUME Forking, p[1] = cur PROVE FALSE
    OBVIOUS
  <2>1. child[p] = "waiting"
    BY <1>1
  <2>2. ~MayStart(p)
    BY <2>1 DEF MayStart, Starting
  <2> QED
    BY <2>1, <2>2 DEF Serve, OpenFragment, OpenFails, Stream, StreamFails, ChildExit, ChildKilled
<1>5. ~(NotStarted /\ p[1] = cur) /\ ~(p[1] > cur)
  BY <1>1
<1>6. ChildrenWait'
  BY <1>2, <1>3, <1>4, <1>5 DEF fatherVars, ctlVars, askVars
<1> QED BY <1>3, <1>6 DEF fatherVars, ctlVars, memVars, flagVars, askVars

\* Every step keeps the account of the answers.
LEMMA AnswerNext ==
  ASSUME {"slow", "earlykill"} \cap Faults = {}, TypeInv, AnswerInv, [Next]_vars
  PROVE  AnswerInv'
<1>1. CASE Sigterm
  <2>1. pc' \in {"exit", "ub"} /\ UNCHANGED <<nbpidchild, childendinerror, cur, sent>>
    BY <1>1 DEF Sigterm, CleanChildThen, memVars, askVars
  <2>2. \A p \in Pids : p[1] > cur => child'[p] = "none"
    BY <1>1 DEF Sigterm, CleanChildThen, CleanChild, KilledBy, Victims, Live, AnswerInv, ChildrenWait
  <2> QED BY <2>1, <2>2
      DEF AnswerInv, OneAnswer, NotStarted, Forking, NothingSent, NothingCounted,
          NoSlotYet, OwnSlots, ChildrenWait, NoErrorYet, AnswerAccounted
<1>2. CASE UNCHANGED vars
  BY <1>2 DEF vars, AnswerInv, OneAnswer, NotStarted, Forking, NothingSent, NothingCounted,
      NoSlotYet, OwnSlots, ChildrenWait, NoErrorYet, AnswerAccounted
<1> QED
  BY <1>1, <1>2, ControlAnswer, EngineAnswer, SignalAnswer, ChildrenAnswer DEF Next, Gone

\* The client gets at most one final answer per request, however many streams
\* and transfers there are and whatever fails, as long as no child can end
\* before all are started (no start takes 20 s, nothing kills a child then).
THEOREM OneAnswerHolds ==
  ASSUME {"slow", "earlykill"} \cap Faults = {}
  PROVE  Spec => []OneAnswer
<1>1. Init => TypeInv /\ AnswerInv
  BY TypeInit, AnswerInit
<1>2. TypeInv /\ AnswerInv /\ [Next]_vars => (TypeInv /\ AnswerInv)'
  BY TypeNext, AnswerNext
<1>3. AnswerInv => OneAnswer
  BY DEF AnswerInv
<1> QED BY <1>1, <1>2, <1>3, PTL DEF Spec

-----------------------------------------------------------------------------
(* What is undefined comes only from a file name that was not read, from a *)
(* start without its storage, or from the two loops over the children.     *)
(* The argument: a counted child has a slot with a pid in it, except in    *)
(* the step between the two, and the slots are given and taken only while  *)
(* no child is counted.                                                    *)

SlotsWritten == Running /\ pc # "counted" /\ nbpidchild > 0 =>
                  allocated /\ \A s \in Slots : mychildren[s] # Junk
LoopWritten == pc \in {"spawn", "forked", "counted"} /\ allocated =>
                 \A s \in Streams : s < i => mychildren[s] # Junk
DefinedInv == NothingCounted /\ SlotsWritten /\ LoopWritten

\* A step of the father, or of a child, that leaves the slots alone.
LEMMA SlotsKeptDefined ==
  ASSUME DefinedInv, UNCHANGED <<memVars, i>>, NothingCounted', Running' => Running,
         pc = "counted" => pc' \in {"counted", "exit", "ub"},
         pc' \in {"spawn", "forked", "counted"} => pc \in {"spawn", "forked", "counted"}
  PROVE  DefinedInv'
<1>1. SlotsWritten'
  <2>1. Slots' = Slots
    BY DEF Slots, memVars
  <2>2. Running' /\ pc' # "counted" => Running /\ pc # "counted"
    BY DEF Running
  <2> QED BY <2>1, <2>2 DEF DefinedInv, SlotsWritten, memVars
<1>2. LoopWritten'
  BY DEF DefinedInv, LoopWritten, memVars
<1> QED BY <1>1, <1>2 DEF DefinedInv

\* A step after which no child is counted.
LEMMA SlotsFreedDefined ==
  ASSUME nbpidchild' = 0, pc' = "hup" => state' \in {"RECEIVING", "SENDING", "LOGGED"},
         pc' \notin {"spawn", "forked", "counted"} \/ ~allocated'
  PROVE  DefinedInv'
BY DEF DefinedInv, NothingCounted, SlotsWritten, LoopWritten

LEMMA DefinedInit == Init => DefinedInv
BY DEF Init, DefinedInv, NothingCounted, SlotsWritten, LoopWritten

LEMMA ControlDefined == ASSUME TypeInv, DefinedInv, Control PROVE DefinedInv'
<1> USE DEF InState, flagVars, askVars
<1>1. CASE \/ Select \/ (\E kind \in Kinds : Request(kind)) \/ CreateZero \/ TransStartFreed
           \/ FreedName \/ NameUnread \/ InterruptTransfer \/ Disconnect \/ IdleTimeout
           \/ CloseConn \/ Exit
  <2>1. /\ UNCHANGED <<memVars, i>> /\ pc \in {"top", "loop", "unread", "quit"}
        /\ pc' \in {"top", "loop", "quit", "exit", "ub", "unread"}
    BY <1>1 DEF Select, Request, CreateZero, TransStartFreed, FreedName, NameUnread,
                InterruptTransfer, Disconnect, IdleTimeout, CloseConn, Exit, CleanChildThen,
                ReplyThen, WaitingStart
  <2>2. NothingCounted'
    <3>1. CASE Select
      BY <3>1 DEF Select, memVars, DefinedInv, NothingCounted
    <3>2. CASE \E kind \in Kinds : Request(kind)
      BY <3>2 DEF Request, memVars, DefinedInv, NothingCounted
    <3>3. CASE CreateZero
      BY <3>3 DEF CreateZero, memVars, DefinedInv, NothingCounted
    <3>4. CASE ~Select /\ ~(\E kind \in Kinds : Request(kind)) /\ ~CreateZero
      <4>1. pc' \notin {"top", "loop", "hup"}
        BY <1>1, <3>4 DEF TransStartFreed, FreedName, NameUnread, InterruptTransfer, Disconnect,
                          IdleTimeout, CloseConn, Exit, CleanChildThen, ReplyThen
      <4> QED BY <4>1 DEF NothingCounted
    <3> QED BY <3>1, <3>2, <3>3, <3>4
  <2>3. Running
    BY <2>1 DEF Running
  <2> QED BY <2>1, <2>2, <2>3, SlotsKeptDefined
<1>2. CASE \/ StoreRefused \/ StoreEmpty \/ StoreNoMemory \/ StoreNoSocket \/ RetrRefused
           \/ RetrEmpty \/ RetrNoSocket \/ AbortStart
  <2>1. nbpidchild' = 0 /\ pc' \in {"top", "quit", "exit"}
    BY <1>2 DEF StoreRefused, StoreEmpty, StoreNoMemory, StoreNoSocket, RetrRefused,
                RetrEmpty, RetrNoSocket, AbortStart, FreeAllVar, ReplyThen
  <2> QED BY <2>1, SlotsFreedDefined
<1>3. CASE StoreAccepted \/ RetrAccepted
  <2>1. pc = "loop" /\ state \notin {"RECEIVING", "SENDING"} /\ pc' = "top" /\ UNCHANGED nbpidchild
    BY <1>3 DEF StoreAccepted, RetrAccepted, Allocate
  <2>2. nbpidchild' = 0
    BY <2>1 DEF DefinedInv, NothingCounted
  <2> QED BY <2>1, <2>2, SlotsFreedDefined
<1>4. CASE InvalidMessage
  <2>1. pc = "loop" /\ state \notin {"RECEIVING", "SENDING"} /\ pc' \in {"quit", "exit"}
    BY <1>4 DEF InvalidMessage, ReplyThen
  <2>2. nbpidchild = 0
    BY <2>1 DEF DefinedInv, NothingCounted
  <2>3. nbpidchild' = 0
    BY <1>4, <2>2 DEF InvalidMessage, FreeAllVar, memVars
  <2> QED BY <2>1, <2>3, SlotsFreedDefined
<1>5. CASE \E sim \in BOOLEAN : TransStart(sim)
  <2>1. pc' = "spawn" /\ i' = 1 /\ nbpidchild' = 0
    BY <1>5 DEF TransStart
  <2> QED BY <2>1 DEF DefinedInv, NothingCounted, SlotsWritten, LoopWritten, Streams
<1> QED BY <1>1, <1>2, <1>3, <1>4, <1>5 DEF Control

LEMMA EngineDefined == ASSUME TypeInv, DefinedInv, Engine PROVE DefinedInv'
<1> USE DEF ctlVars, flagVars, askVars
<1>1. CASE Spawn \/ SpawnFails \/ Report \/ KillStarted
  <2>1. /\ UNCHANGED <<memVars, i>> /\ pc \in {"spawn", "report", "failed"}
        /\ pc' \in {"forked", "report", "failed", "killed", "exit", "ub"}
        /\ pc' = "forked" => pc = "spawn"
    BY <1>1 DEF Spawn, SpawnFails, Report, KillStarted, CleanChildThen
  <2>2. NothingCounted'
    BY <2>1 DEF NothingCounted
  <2> QED BY <2>1, <2>2, SlotsKeptDefined DEF Running
<1>2. CASE GiveUp
  BY <1>2, SlotsFreedDefined DEF GiveUp, FreeAllVar
<1>3. CASE Count
  BY <1>3 DEF Count, DefinedInv, NothingCounted, SlotsWritten, LoopWritten, memVars
<1>4. CASE Record
  <2>1. /\ pc = "counted" /\ i \in Streams /\ nbpidchild <= i /\ nbpidchild \in Nat
        /\ mychildren \in SlotType /\ nbpidchild' = nbpidchild /\ allocated' = allocated
    BY <1>4, NAssumption
       DEF Record, TypeInv, ValueInv, ValueType, CountBound, Streams
  <2>2. CASE ~allocated
    BY <1>4, <2>1, <2>2 DEF Record, DefinedInv, NothingCounted, SlotsWritten, LoopWritten, Running
  <2>3. CASE allocated
    <3>1. /\ pc' = "spawn" /\ i' = i + 1 /\ mychildren' = [mychildren EXCEPT ![i] = <<cur, i>>]
      BY <1>4, <2>3 DEF Record
    <3>2. <<cur, i>> \in Pids
      BY <2>1, MaxTransfersAssumption
         DEF TypeInv, ValueInv, ValueType, Asked, Pids, Transfers
    <3>3. mychildren'[i] # Junk
      BY <2>1, <3>1, <3>2, PidsAreNotZero DEF SlotType
    <3>4. \A s \in Streams : s < i => mychildren'[s] # Junk
      BY <2>1, <2>3, <3>1 DEF DefinedInv, LoopWritten, SlotType, Streams
    <3>5. \A s \in Streams : s < i' => mychildren'[s] # Junk
      BY <2>1, <3>1, <3>3, <3>4 DEF Streams
    <3>6. SlotsWritten'
      <4>1. \A s \in Slots' : s \in Streams /\ s < i'
        BY NAssumption, <2>1, <3>1 DEF Slots, Streams
      <4> QED BY <2>1, <2>3, <3>5, <4>1 DEF SlotsWritten
    <3>7. LoopWritten' /\ NothingCounted'
      BY <3>1, <3>5 DEF LoopWritten, NothingCounted
    <3> QED BY <3>6, <3>7 DEF DefinedInv
  <2> QED BY <2>2, <2>3
<1>5. CASE AllForked
  <2>1. pc = "spawn" /\ pc' = "hup" /\ state' \in {"RECEIVING", "SENDING"} /\ UNCHANGED memVars
    BY <1>5 DEF AllForked
  <2>2. Slots' = Slots
    BY <2>1 DEF Slots, memVars
  <2> QED BY <2>1, <2>2
          DEF DefinedInv, NothingCounted, SlotsWritten, LoopWritten, memVars, Running
<1>6. CASE Release \/ Released
  <2>1. /\ pc = "hup" /\ pc' \in {"hup", "top", "ub"} /\ UNCHANGED <<memVars, state>>
    BY <1>6 DEF Release, Released
  <2>2. Slots' = Slots
    BY <2>1 DEF Slots, memVars
  <2> QED BY <2>1, <2>2
          DEF DefinedInv, NothingCounted, SlotsWritten, LoopWritten, memVars, Running
<1> QED BY <1>1, <1>2, <1>3, <1>4, <1>5, <1>6 DEF Engine

\* The handler empties slots, or frees them all.
LEMMA SignalDefined == ASSUME TypeInv, DefinedInv, Signal PROVE DefinedInv'
<1> USE DEF ctlVars, flagVars, askVars
<1>1. Running
  BY DEF Signal, SigchldNone, SigchldFreed, SigchldPart, SigchldSuccess, SigchldFailure,
         SigchldCollects, SigchldRaised
<1>2. CASE SigchldNone
  <2>1. nbpidchild' = 0 /\ allocated' = FALSE /\ UNCHANGED <<pc, state>>
    BY <1>2 DEF SigchldNone, FreeAllVar
  <2> QED BY <2>1, SlotsFreedDefined DEF DefinedInv, NothingCounted
<1>3. CASE SigchldFreed
  BY <1>3 DEF SigchldFreed, DefinedInv, NothingCounted, SlotsWritten, LoopWritten, Running
<1>4. \A s \in Streams : SlotsLeft[s] \in {mychildren[s], NoPid}
  BY DEF SlotsLeft
<1>5. ASSUME mychildren' = SlotsLeft, UNCHANGED <<allocated, nbpidchild, state, i>>,
             pc' \in {pc, "exit", "ub"}
      PROVE  DefinedInv'
  <2>1. Slots' = Slots /\ Slots \subseteq Streams
    BY <1>5, NAssumption DEF Slots, Streams, TypeInv, ValueInv, ValueType
  <2>2. NoPid # Junk
    BY DEF NoPid, Junk
  <2>3. NothingCounted'
    BY <1>5 DEF DefinedInv, NothingCounted
  <2>4. SlotsWritten'
    BY <1>1, <1>4, <1>5, <2>1, <2>2 DEF DefinedInv, SlotsWritten, Running
  <2>5. LoopWritten'
    BY <1>4, <1>5, <2>2 DEF DefinedInv, LoopWritten
  <2> QED BY <2>3, <2>4, <2>5 DEF DefinedInv
<1>6. CASE SigchldPart
  BY <1>5, <1>6 DEF SigchldPart
<1>7. CASE SigchldSuccess
  <2>1. nbpidchild' = 0 /\ allocated' = FALSE /\ state' = "LOGGED"
    BY <1>7 DEF SigchldSuccess, FreeAllVar
  <2> QED BY <2>1, SlotsFreedDefined
<1>8. CASE SigchldFailure
  <2>1. CASE Left = {}
    <3>1. nbpidchild' = 0 /\ allocated' = FALSE /\ state' = "LOGGED"
      BY <1>8, <2>1 DEF SigchldFailure, FreeAllVar
    <3> QED BY <3>1, SlotsFreedDefined
  <2>2. CASE Left # {}
    <3>1. mychildren' = SlotsLeft /\ UNCHANGED <<allocated, nbpidchild, state, i>>
      BY <1>8, <2>2 DEF SigchldFailure
    <3>2. pc' \in {pc, "exit", "ub"}
      BY <1>8 DEF SigchldFailure
    <3> QED BY <1>5, <3>1, <3>2
  <2> QED BY <2>1, <2>2
<1> QED BY <1>2, <1>3, <1>6, <1>7, <1>8 DEF Signal

LEMMA DefinedNext == TypeInv /\ DefinedInv /\ [Next]_vars => DefinedInv'
<1> SUFFICES ASSUME TypeInv, DefinedInv, [Next]_vars PROVE DefinedInv'
  OBVIOUS
<1>1. CASE Sigterm
  <2>1. UNCHANGED <<memVars, i>> /\ pc' \in {"exit", "ub"}
    BY <1>1 DEF Sigterm, CleanChildThen
  <2>2. NothingCounted'
    BY <2>1 DEF NothingCounted
  <2> QED BY <2>1, <2>2, SlotsKeptDefined DEF Running
<1>2. ASSUME NEW p \in Pids, Serve(p) \/ StreamFails(p) \/ ChildKilled(p) PROVE DefinedInv'
  <2>1. UNCHANGED fatherVars
    BY <1>2 DEF Serve, OpenFragment, OpenFails, Stream, StreamFails, ChildExit, ChildKilled, Die
  <2>2. UNCHANGED <<pc, state, memVars, i>> /\ NothingCounted'
    BY <2>1 DEF fatherVars, ctlVars, memVars, DefinedInv, NothingCounted
  <2> QED BY <2>2, SlotsKeptDefined DEF Running
<1>3. CASE UNCHANGED vars
  <2>1. UNCHANGED <<pc, state, memVars, i>> /\ NothingCounted'
    BY <1>3 DEF vars, memVars, DefinedInv, NothingCounted
  <2> QED BY <2>1, SlotsKeptDefined DEF Running
<1> QED
  BY <1>1, <1>2, <1>3, ControlDefined, EngineDefined, SignalDefined DEF Next, Gone

\* Wherever else the father is, clean_child finds a pid or 0 in every slot it walks, ...
LEMMA CleanDefinedElsewhere ==
  ASSUME DefinedInv, Running, pc # "counted" PROVE ~CleanChildUndefined
BY DEF DefinedInv, SlotsWritten, CleanChildUndefined, Recorded

\* ... and so does the handler.
LEMMA UndefinedStep ==
  ASSUME TypeInv, DefinedInv, [Next]_vars, pc' = "ub", pc # "ub"
  PROVE  WaitingStart \/ pc \in {"unread", "spawn", "counted", "hup"}
<1>1. SUFFICES ASSUME pc \notin {"unread", "spawn", "counted", "hup"}, ~WaitingStart PROVE FALSE
  OBVIOUS
<1>2. nbpidchild \in Nat
  BY NAssumption DEF TypeInv, ValueInv, ValueType
<1>3. ASSUME Running PROVE ~CleanChildUndefined
  BY <1>1, <1>3, CleanDefinedElsewhere
<1>4. CASE Control
  <2>1. ~TransStartFreed /\ ~FreedName
    BY <1>1 DEF TransStartFreed, FreedName
  <2>2. ~Exit
    BY <1>3 DEF Exit, CleanChildThen, Running
  <2> QED
    BY <1>4, <2>1, <2>2
       DEF Control, Select, Request, StoreRefused, StoreEmpty, StoreAccepted, StoreNoMemory,
           StoreNoSocket, RetrRefused, RetrEmpty, RetrAccepted, RetrNoSocket, CreateZero,
           TransStart, AbortStart, InvalidMessage, NameUnread, InterruptTransfer, Disconnect,
           IdleTimeout, CloseConn, ReplyThen
<1>5. CASE Engine
  <2>1. ~Report
    BY <1>3 DEF Report, CleanChildThen, Running
  <2>2. ~KillStarted
    BY <1>3 DEF KillStarted, CleanChildThen, Running
  <2> QED
    BY <1>1, <1>5, <2>1, <2>2
       DEF Engine, Spawn, SpawnFails, GiveUp, Count, Record, AllForked, Release, Released
<1>6. CASE Signal
  <2>1. Running
    BY <1>6 DEF Signal, SigchldNone, SigchldFreed, SigchldPart, SigchldSuccess, SigchldFailure,
                SigchldCollects, SigchldRaised
  <2>2. nbpidchild > 0 => allocated /\ \A s \in Slots : mychildren[s] # Junk
    BY <1>1, <2>1 DEF DefinedInv, SlotsWritten
  <2>3. ~SigchldFreed
    BY <2>2 DEF SigchldFreed
  <2>4. ~SigchldFailure
    <3>1. SUFFICES ASSUME SigchldFailure PROVE FALSE
      OBVIOUS
    <3>2. nbpidchild > 0
      BY <1>2, <3>1 DEF SigchldFailure, SigchldCollects, AllEnded
    <3>3. Junk \notin {mychildren[s] : s \in Left}
      BY <2>2, <3>2 DEF Left
    <3> QED BY <3>1, <3>3 DEF SigchldFailure
  <2> QED BY <1>6, <2>3, <2>4 DEF Signal, SigchldNone, SigchldPart, SigchldSuccess
<1>7. CASE Sigterm
  BY <1>3, <1>7 DEF Sigterm, CleanChildThen
<1>8. ASSUME NEW p \in Pids, Serve(p) \/ StreamFails(p) \/ ChildKilled(p) PROVE FALSE
  BY <1>8 DEF Serve, OpenFragment, OpenFails, Stream, StreamFails, ChildExit, ChildKilled, Die,
              fatherVars
<1>9. CASE UNCHANGED vars
  BY <1>9 DEF vars
<1> QED BY <1>4, <1>5, <1>6, <1>7, <1>8, <1>9 DEF Next, Gone

\* Whatever fails (a start that takes too long, children killed before they are released,
\* a SIGTERM at any moment), the father does something undefined only while it reads the
\* file name, between the file name and the start, and in the loops that fork and release
\* the children: never in the handler, in clean_child or in free_all_var at another time.
THEOREM UndefinedOnlyStartingHolds == Spec => UndefinedOnlyStarting
<1>1. Init => TypeInv /\ DefinedInv
  BY TypeInit, DefinedInit
<1>2. TypeInv /\ DefinedInv /\ [Next]_vars => (TypeInv /\ DefinedInv)'
  BY TypeNext, DefinedNext
<1>3. TypeInv /\ DefinedInv /\ [Next]_vars =>
        [pc' = "ub" /\ pc # "ub" =>
           WaitingStart \/ pc \in {"unread", "spawn", "counted", "hup"}]_vars
  BY UndefinedStep
<1> QED BY <1>1, <1>2, <1>3, PTL DEF Spec, UndefinedOnlyStarting

-----------------------------------------------------------------------------
(* What a transfer leaves behind, when its start is not disturbed: no fork *)
(* or connection fails in the loop that starts the children, and no child  *)
(* ends before it is released.                                             *)

Undisturbed == /\ {"fork", "slow", "earlykill"} \cap Faults = {}
               /\ "connect" \in Faults => Passive

Ended == {"none", "reaped"}
Starts == {"WAITING_STORE_START", "WAITING_RETR_START"}
Started == {"RECEIVING", "SENDING"}
StartLoop == pc \in {"spawn", "forked", "counted"}

\* Where the father is: the paths of a failed start are not taken, and what is undefined
\* comes from a file name that could not be read or from a SIGTERM in the fork loop.
Place == /\ pc \in {"top", "loop", "quit", "exit", "spawn", "forked", "counted", "hup",
                   "unread", "ub"}
         /\ pc \in {"unread", "ub"} => {"unread", "term"} \cap Faults # {}
         /\ StartLoop => state \in Starts
         /\ pc = "hup" => state \in Started \cup {"LOGGED"}

\* Only the current transfer has children.
OthersEnded == \A p \in Pids : p[1] # cur => child[p] \in Ended

\* Between two transfers nothing is left of the one before.
AtRest == Running /\ ~StartLoop /\ state \notin Started =>
  /\ \A p \in Pids : child[p] \in Ended
  /\ ~sigchld /\ nbpidchild = 0 /\ killdone = 0
Storage == pc \in {"top", "loop", "hup"} /\ state \notin Started => (allocated <=> state \in Starts)

\* In the fork loop the children that have been started wait, and their slots are filled.
InLoop == StartLoop =>
  /\ allocated /\ ~sigchld /\ killdone = 0 /\ childendinerror = 0
  /\ nbpidchild = IF pc = "counted" THEN i ELSE i - 1
  /\ pc # "spawn" => i \in Streams /\ child[<<cur, i>>] = "waiting"
  /\ \A s \in Streams : s < i => mychildren[s] = <<cur, s>> /\ child[<<cur, s>>] = "waiting"
  /\ \A s \in Streams : s > i \/ (s = i /\ pc = "spawn") => child[<<cur, s>>] \in Ended

\* Once they are released a slot is empty when its child was collected, a SIGCHLD is
\* pending as long as one has to be, and after an error no child lives.
InWork == Running /\ state \in Started =>
  /\ allocated /\ nbpidchild = N
  /\ \A s \in Streams : \/ mychildren[s] = <<cur, s>> /\ child[<<cur, s>>] \in Live \cup Zombie
                        \/ mychildren[s] = NoPid /\ child[<<cur, s>>] = "reaped"
  /\ \E s \in Streams : child[<<cur, s>>] # "reaped"
  /\ sigchld <=> \E s \in Streams : child[<<cur, s>>] \in Zombie
  /\ killdone = childendinerror
  /\ killdone = 1 => \A s \in Streams : child[<<cur, s>>] \notin Live

\* A father that is not stopped by SIGTERM has no child left when it ends.
NoneLeft == "term" \notin Faults => (pc = "exit" => \A p \in Pids : child[p] \notin Live)

CleanInv == Place /\ OthersEnded /\ AtRest /\ Storage /\ InLoop /\ InWork /\ NoneLeft

LEMMA PidParts ==
  \A p \in Pids : p[1] \in Transfers /\ p[2] \in Streams /\ p = <<p[1], p[2]>>
BY DEF Pids

\* A transfer that was asked for has a number, and its children have pids.
LEMMA OwnPids ==
  ASSUME TypeInv, Place, state # "LOGGED" \/ StartLoop
  PROVE  cur \in Transfers /\ \A s \in Streams : <<cur, s>> \in Pids
<1>1. cur \in 0..MaxTransfers /\ cur # 0
  BY DEF TypeInv, ValueInv, ValueType, Asked, Place, Starts, StartLoop
<1>2. cur \in Transfers
  BY <1>1, MaxTransfersAssumption DEF Transfers
<1> QED BY <1>2 DEF Pids

LEMMA CleanInit == Init => CleanInv
BY DEF Init, CleanInv, Place, OthersEnded, AtRest, Storage, InLoop, InWork, NoneLeft, StartLoop,
       Starts, Started, Ended, Live

\* A step with no child around: nothing is left, and nothing is started.
LEMMA RestClean ==
  ASSUME CleanInv, Running, ~StartLoop, state \notin Started,
         UNCHANGED <<child, sigchld, killdone>>, nbpidchild' = 0,
         pc' \in {"top", "loop", "quit", "exit"} \/ (pc' = "unread" /\ "unread" \in Faults),
         state' \notin Started, Storage'
  PROVE  CleanInv'
<1>1. \A p \in Pids : child'[p] \in Ended
  BY DEF CleanInv, AtRest
<1>2. Place' /\ ~StartLoop'
  BY DEF Place, StartLoop
<1>3. OthersEnded' /\ AtRest' /\ NoneLeft'
  BY <1>1 DEF CleanInv, OthersEnded, AtRest, NoneLeft, Ended, Live
<1>4. InLoop' /\ InWork'
  BY <1>2 DEF InLoop, InWork
<1> QED BY <1>2, <1>3, <1>4 DEF CleanInv

\* A step of the father that changes only where it is, outside the fork loop.
LEMMA MoveClean ==
  ASSUME CleanInv, pc \in {"top", "loop", "hup"}, pc' \in {"top", "loop", "quit"},
         UNCHANGED <<state, allocated, nbpidchild, mychildren, childendinerror, killdone,
                     sigchld, child, cur>>
  PROVE  CleanInv'
<1>1. Place' /\ ~StartLoop' /\ ~StartLoop /\ Running' /\ Running
  BY DEF CleanInv, Place, StartLoop, Running
<1>2. OthersEnded' /\ AtRest' /\ NoneLeft'
  BY <1>1 DEF CleanInv, OthersEnded, AtRest, NoneLeft
<1>3. Storage'
  BY DEF CleanInv, Storage, Place, Starts
<1>4. InLoop' /\ InWork'
  BY <1>1 DEF CleanInv, InLoop, InWork
<1> QED BY <1>1, <1>2, <1>3, <1>4 DEF CleanInv

\* clean_child kills all children that live.
LEMMA AllKilled ==
  ASSUME TypeInv, CleanInv, pc \notin {"exit", "ub"}, ~StartLoop, NEW p \in Pids
  PROVE  /\ KilledBy(Victims, child)[p] \notin Live
         /\ child[p] \in Ended => KilledBy(Victims, child)[p] \in Ended
<1>1. KilledBy(Victims, child)[p] = IF p \in Victims THEN "bad" ELSE child[p]
  BY DEF KilledBy
<1>2. ASSUME child[p] \in Live PROVE p \in Victims
  <2>1. state \in Started /\ p[1] = cur
    BY <1>2 DEF CleanInv, AtRest, OthersEnded, Running, Ended, Live
  <2>2. InWork /\ p[2] \in Streams /\ p = <<cur, p[2]>>
    BY <2>1, PidParts DEF CleanInv
  <2>3. mychildren[p[2]] = p /\ nbpidchild = N /\ killdone = 0
    BY <1>2, <2>1, <2>2 DEF InWork, Running, Live, TypeInv, ValueInv, ValueType
  <2> QED BY <1>2, <2>2, <2>3 DEF Victims, Recorded, Slots, Streams
<1> QED BY <1>1, <1>2 DEF Live, Ended, Victims

\* Nothing undefined can happen in clean_child.
LEMMA CleanDefined ==
  ASSUME TypeInv, CleanInv, pc = "quit"
  PROVE  ~CleanChildUndefined
<1>1. CASE state \in Started
  <2>1. allocated /\ nbpidchild = N
    BY <1>1 DEF CleanInv, InWork, Running
  <2>2. ASSUME NEW s \in Streams PROVE mychildren[s] # Junk
    <3>1. <<cur, s>> \in Pids
      BY <1>1, OwnPids DEF CleanInv, Started
    <3>2. mychildren[s] \in {<<cur, s>>, NoPid}
      BY <1>1 DEF CleanInv, InWork, Running
    <3>3. NoPid # Junk
      BY DEF NoPid, Junk
    <3> QED BY <3>1, <3>2, <3>3, PidsAreNotZero
  <2> QED BY <2>1, <2>2 DEF CleanChildUndefined, Recorded, Slots, Streams
<1>2. CASE state \notin Started
  BY <1>2 DEF CleanInv, AtRest, Running, StartLoop, CleanChildUndefined
<1> QED BY <1>1, <1>2

LEMMA ControlClean == ASSUME TypeInv, CleanInv, Control PROVE CleanInv'
<1> USE DEF InState, ctlVars, memVars, flagVars, askVars
<1>1. CASE Select
  BY <1>1, MoveClean DEF Select
<1>2. CASE InterruptTransfer \/ Disconnect \/ IdleTimeout \/ CloseConn
  BY <1>2, MoveClean DEF InterruptTransfer, Disconnect, IdleTimeout, CloseConn
<1>3. ASSUME pc = "loop"
      PROVE  Running /\ ~StartLoop /\ (state \notin Started => nbpidchild = 0)
  BY <1>3 DEF CleanInv, AtRest, Running, StartLoop
<1>4. CASE (\E kind \in Kinds : Request(kind)) \/ RetrEmpty \/ CreateZero
  <2>1. /\ pc = "loop" /\ pc' = "top" /\ state' \notin Starts \cup Started
        /\ state \notin Starts \cup Started
        /\ UNCHANGED <<child, sigchld, killdone>>
        /\ UNCHANGED <<allocated, nbpidchild>> \/ (allocated' = FALSE /\ nbpidchild' = 0)
    BY <1>4 DEF Request, RetrEmpty, CreateZero, FreeAllVar, Starts, Started
  <2>2. Storage'
    BY <2>1 DEF CleanInv, Storage
  <2> QED BY <1>3, <2>1, <2>2, RestClean
<1>5. CASE StoreRefused \/ StoreEmpty \/ StoreNoMemory \/ RetrRefused \/ AbortStart
  <2>1. /\ pc = "loop" /\ pc' \in {"top", "exit"} /\ state' = "LOGGED" /\ state \notin Started
        /\ UNCHANGED <<child, sigchld, killdone>>
        /\ allocated' = FALSE /\ nbpidchild' = 0
    BY <1>5 DEF StoreRefused, StoreEmpty, StoreNoMemory, RetrRefused, AbortStart, WaitingStart,
                ReplyThen, FreeAllVar, Started
  <2>2. Storage' /\ state' \notin Started
    BY <2>1 DEF Storage, Starts, Started
  <2> QED BY <1>3, <2>1, <2>2, RestClean
<1>6. CASE StoreAccepted \/ RetrAccepted
  <2>1. /\ pc = "loop" /\ pc' = "top" /\ state' \in Starts /\ state \notin Started
        /\ UNCHANGED <<child, sigchld, killdone, nbpidchild>> /\ allocated' = TRUE
    BY <1>6 DEF StoreAccepted, RetrAccepted, Allocate, Starts, Started
  <2>2. Storage' /\ state' \notin Started
    BY <2>1 DEF Storage, Starts, Started
  <2> QED BY <1>3, <2>1, <2>2, RestClean
<1>7. CASE StoreNoSocket \/ RetrNoSocket
  <2>1. /\ pc = "loop" /\ pc' = "quit" /\ state' = state /\ state \notin Started
        /\ UNCHANGED <<child, sigchld, killdone>> /\ nbpidchild' = 0
    BY <1>7 DEF StoreNoSocket, RetrNoSocket, FreeAllVar, Started
  <2>2. Storage'
    BY <2>1 DEF Storage
  <2> QED BY <1>3, <2>1, <2>2, RestClean
<1>8. CASE InvalidMessage \/ NameUnread
  <2>1. /\ pc = "loop" /\ state' = state /\ state \notin Started
        /\ pc' \in {"quit", "exit"} \/ (pc' = "unread" /\ "unread" \in Faults)
        /\ UNCHANGED <<child, sigchld, killdone>>
        /\ nbpidchild' = 0 \/ nbpidchild' = nbpidchild
    BY <1>8 DEF InvalidMessage, NameUnread, ReplyThen, FreeAllVar, Started
  <2>2. Storage'
    BY <2>1 DEF Storage
  <2> QED BY <1>3, <2>1, <2>2, RestClean
<1>9. CASE TransStartFreed
  BY <1>9 DEF TransStartFreed, WaitingStart, CleanInv, Storage, Starts, Started
<1>10. CASE \E sim \in BOOLEAN : TransStart(sim)
  <2>1. /\ pc = "loop" /\ state \in Starts /\ allocated
        /\ pc' = "spawn" /\ i' = 1 /\ nbpidchild' = 0 /\ childendinerror' = 0
        /\ UNCHANGED <<state, allocated, killdone, sigchld, child, cur>>
    BY <1>10 DEF TransStart, WaitingStart, Starts
  <2>2. ~sigchld /\ killdone = 0 /\ \A p \in Pids : child[p] \in Ended
    BY <2>1 DEF CleanInv, AtRest, Running, StartLoop, Starts, Started
  <2>3. \A s \in Streams : child[<<cur, s>>] \in Ended
    BY <2>1, <2>2, OwnPids DEF CleanInv, Starts
  <2>4. Place' /\ StartLoop' /\ OthersEnded' /\ NoneLeft'
    BY <2>1, <2>2 DEF Place, StartLoop, OthersEnded, NoneLeft, Starts
  <2>5. AtRest' /\ Storage' /\ InWork'
    BY <2>1, <2>4 DEF AtRest, Storage, InWork, Starts, Started
  <2>6. InLoop'
    BY <2>1, <2>2, <2>3 DEF InLoop, Streams
  <2> QED BY <2>4, <2>5, <2>6 DEF CleanInv
<1>11. CASE Exit
  <2>1. pc = "quit" /\ pc' = "exit" /\ CleanChild /\ UNCHANGED <<state, cur>>
    BY <1>11, CleanDefined DEF Exit, CleanChildThen
  <2>2. \A p \in Pids : /\ child'[p] \notin Live
                        /\ child[p] \in Ended => child'[p] \in Ended
    BY <2>1, AllKilled DEF CleanChild, StartLoop
  <2>3. Place' /\ OthersEnded' /\ NoneLeft'
    BY <2>1, <2>2 DEF CleanInv, Place, OthersEnded, NoneLeft, StartLoop
  <2>4. AtRest' /\ Storage' /\ InLoop' /\ InWork'
    BY <2>1 DEF AtRest, Storage, InLoop, InWork, Running, StartLoop
  <2> QED BY <2>3, <2>4 DEF CleanInv
<1>12. CASE FreedName
  <2>1. pc = "unread" /\ pc' = "ub" /\ UNCHANGED <<child, cur>>
    BY <1>12 DEF FreedName
  <2>2. Place' /\ OthersEnded' /\ NoneLeft'
    BY <2>1 DEF CleanInv, Place, OthersEnded, NoneLeft, StartLoop
  <2>3. AtRest' /\ Storage' /\ InLoop' /\ InWork'
    BY <2>1 DEF AtRest, Storage, InLoop, InWork, Running, StartLoop
  <2> QED BY <2>2, <2>3 DEF CleanInv
<1> QED
  BY <1>1, <1>2, <1>4, <1>5, <1>6, <1>7, <1>8, <1>9, <1>10, <1>11, <1>12 DEF Control

LEMMA EngineClean == ASSUME Undisturbed, TypeInv, CleanInv, Engine PROVE CleanInv'
<1> USE DEF ctlVars, memVars, flagVars, askVars
<1>0. child \in ChildType /\ mychildren \in SlotType /\ i \in 1..(N + 1) /\ N \in Nat \ {0}
  BY NAssumption DEF TypeInv, ValueInv, ValueType
<1>1. CASE Spawn
  <2>1. pc = "spawn" /\ i \in Streams /\ InLoop /\ state \in Starts /\ OthersEnded
    BY <1>0, <1>1 DEF Spawn, CleanInv, Place, StartLoop, Streams
  <2>2. allocated /\ cur \in Transfers /\ <<cur, i>> \in Pids
    BY <2>1, OwnPids DEF InLoop, StartLoop, CleanInv
  <2>3. /\ pc' = "forked" /\ child' = [child EXCEPT ![<<cur, i>>] = "waiting"]
        /\ UNCHANGED <<state, i, allocated, mychildren, nbpidchild, childendinerror, killdone,
                       sigchld, cur>>
    BY <1>1, <2>2 DEF Spawn
  <2>4. /\ child'[<<cur, i>>] = "waiting"
        /\ \A p \in Pids : p # <<cur, i>> => child'[p] = child[p]
    BY <1>0, <2>2, <2>3 DEF ChildType
  <2>5. \A s \in Streams : s # i => child'[<<cur, s>>] = child[<<cur, s>>]
    <3> SUFFICES ASSUME NEW s \in Streams, s # i PROVE child'[<<cur, s>>] = child[<<cur, s>>]
      OBVIOUS
    <3>1. <<cur, s>> \in Pids /\ <<cur, s>> # <<cur, i>>
      BY <2>2 DEF Pids
    <3> QED BY <2>4, <3>1
  <2>6. InLoop'
    BY <2>1, <2>3, <2>4, <2>5 DEF InLoop, StartLoop, Streams
  <2>7. OthersEnded'
    <3> SUFFICES ASSUME NEW p \in Pids, p[1] # cur PROVE child'[p] \in Ended
      BY <2>3 DEF OthersEnded
    <3>1. p # <<cur, i>>
      OBVIOUS
    <3> QED BY <2>1, <2>4, <3>1 DEF OthersEnded
  <2>8. Place' /\ StartLoop' /\ NoneLeft'
    BY <2>1, <2>3 DEF Place, StartLoop, NoneLeft
  <2>9. AtRest' /\ Storage' /\ InWork'
    BY <2>1, <2>3, <2>8 DEF AtRest, Storage, InWork, Starts, Started
  <2> QED BY <2>6, <2>7, <2>8, <2>9 DEF CleanInv
<1>2. CASE SpawnFails
  BY <1>2 DEF SpawnFails, Undisturbed
<1>3. CASE Report \/ KillStarted \/ GiveUp
  BY <1>3 DEF Report, KillStarted, GiveUp, CleanInv, Place
<1>4. CASE Count \/ Record
  <2>1. StartLoop /\ InLoop /\ state \in Starts /\ i \in Streams /\ pc # "spawn"
    BY <1>4 DEF Count, Record, CleanInv, Place, StartLoop, InLoop
  <2>2. /\ StartLoop' /\ UNCHANGED <<state, allocated, childendinerror, killdone, sigchld, child, cur>>
        /\ pc' \in {"counted", "spawn"}
    BY <1>4, <2>1 DEF Count, Record, StartLoop, InLoop
  <2>3. InLoop'
    <3>1. CASE Count
      BY <1>0, <2>1, <2>2, <3>1 DEF Count, InLoop, Streams
    <3>2. CASE Record
      <4>1. /\ pc = "counted" /\ pc' = "spawn" /\ i' = i + 1 /\ nbpidchild' = i
            /\ mychildren' = [mychildren EXCEPT ![i] = <<cur, i>>]
        BY <2>1, <3>2 DEF Record, InLoop
      <4>2. mychildren'[i] = <<cur, i>> /\ \A s \in Streams : s # i => mychildren'[s] = mychildren[s]
        BY <1>0, <2>1, <4>1 DEF SlotType
      <4>3. \A s \in Streams : s < i' => s = i \/ s < i
        BY <2>1, <4>1 DEF Streams
      <4>4. \A s \in Streams : s > i' \/ s = i' => s > i
        BY <2>1, <4>1 DEF Streams
      <4>5. \A s \in Streams : s < i' => mychildren'[s] = <<cur, s>> /\ child'[<<cur, s>>] = "waiting"
        BY <2>1, <2>2, <4>1, <4>2, <4>3 DEF InLoop
      <4>6. \A s \in Streams : s > i' \/ s = i' => child'[<<cur, s>>] \in Ended
        BY <2>1, <2>2, <4>4 DEF InLoop
      <4> QED BY <2>1, <2>2, <4>1, <4>5, <4>6 DEF InLoop, Streams
    <3> QED BY <1>4, <3>1, <3>2
  <2>4. Place' /\ OthersEnded' /\ NoneLeft'
    BY <2>1, <2>2 DEF CleanInv, Place, StartLoop, OthersEnded, NoneLeft
  <2>5. AtRest' /\ Storage' /\ InWork'
    BY <2>1, <2>2 DEF AtRest, Storage, InWork, StartLoop, Starts, Started
  <2> QED BY <2>3, <2>4, <2>5 DEF CleanInv
<1>5. CASE AllForked
  <2>1. /\ pc = "spawn" /\ i = N + 1 /\ pc' = "hup" /\ state' \in Started
        /\ UNCHANGED <<allocated, mychildren, nbpidchild, childendinerror, killdone, sigchld, child, cur>>
    BY <1>0, <1>5 DEF AllForked, Started
  <2>2. InLoop /\ StartLoop /\ cur \in Transfers
    BY <2>1, OwnPids DEF CleanInv, StartLoop
  <2>3. \A s \in Streams : mychildren[s] = <<cur, s>> /\ child[<<cur, s>>] = "waiting"
    BY <1>0, <2>1, <2>2 DEF InLoop, Streams
  <2>4. allocated /\ nbpidchild = N /\ ~sigchld /\ killdone = 0 /\ childendinerror = 0
    BY <1>0, <2>1, <2>2 DEF InLoop
  <2>5. 1 \in Streams
    BY <1>0 DEF Streams
  <2>6. InWork'
    <3>1. \A s \in Streams : /\ mychildren'[s] = <<cur', s>> /\ child'[<<cur', s>>] \in Live
                            /\ child'[<<cur', s>>] \notin Zombie \cup {"reaped"}
      BY <2>1, <2>3 DEF Live, Zombie
    <3>2. allocated' /\ nbpidchild' = N /\ ~sigchld' /\ killdone' = 0 /\ childendinerror' = 0
      BY <2>1, <2>4
    <3>3. (sigchld <=> \E s \in Streams : child[<<cur, s>>] \in Zombie)'
      BY <3>1, <3>2
    <3>4. (\E s \in Streams : child[<<cur, s>>] # "reaped")'
      BY <2>5, <3>1
    <3> QED BY <3>1, <3>2, <3>3, <3>4 DEF InWork
  <2>7. Place' /\ OthersEnded' /\ NoneLeft' /\ InLoop'
    BY <2>1 DEF CleanInv, Place, OthersEnded, NoneLeft, InLoop, StartLoop
  <2>8. AtRest' /\ Storage'
    BY <2>1 DEF AtRest, Storage
  <2> QED BY <2>6, <2>7, <2>8 DEF CleanInv
<1>6. CASE Release
  <2>1. pc = "hup" /\ i <= nbpidchild /\ state \in Started /\ InWork
    BY <1>0, <1>6 DEF Release, CleanInv, Place, AtRest, Running, StartLoop
  <2>2. allocated
    BY <2>1 DEF InWork, Running
  <2>3. /\ pc' = "hup" /\ UNCHANGED <<state, allocated, mychildren, nbpidchild, childendinerror,
                                      killdone, sigchld, cur>>
        /\ child' = [p \in Pids |-> IF p = mychildren[i] /\ child[p] = "waiting"
                                    THEN "ready" ELSE child[p]]
    BY <1>6, <2>1, <2>2 DEF Release
  <2>4. \A p \in Pids : child'[p] = child[p] \/ (child[p] = "waiting" /\ child'[p] = "ready")
    BY <2>3
  <2>5. \A s \in Streams : \/ child'[<<cur, s>>] = child[<<cur, s>>]
                           \/ child[<<cur, s>>] = "waiting" /\ child'[<<cur, s>>] = "ready"
    BY <2>1, <2>4, OwnPids DEF CleanInv, Started
  <2> HIDE DEF ctlVars
  <2>6. InWork'
    <3>1. /\ \A s \in Streams : child[<<cur, s>>] \in Live <=> child'[<<cur, s>>] \in Live
          /\ \A s \in Streams : child[<<cur, s>>] \in Zombie <=> child'[<<cur, s>>] \in Zombie
          /\ \A s \in Streams : child[<<cur, s>>] = "reaped" <=> child'[<<cur, s>>] = "reaped"
      BY <2>5 DEF Live, Zombie
    <3>2. Running /\ state \in Started
      BY <2>1 DEF Running
    <3> QED BY <2>1, <2>3, <3>1, <3>2 DEF InWork
  <2>7. Place' /\ OthersEnded' /\ NoneLeft' /\ InLoop'
    BY <2>1, <2>3, <2>4 DEF CleanInv, Place, OthersEnded, NoneLeft, InLoop, StartLoop, Ended
  <2>8. AtRest' /\ Storage'
    BY <2>1, <2>3 DEF AtRest, Storage
  <2> QED BY <2>6, <2>7, <2>8 DEF CleanInv
<1>7. CASE Released
  <2>1. /\ pc = "hup" /\ i > nbpidchild /\ pc' = "top"
        /\ UNCHANGED <<state, allocated, nbpidchild, mychildren, childendinerror, killdone,
                       sigchld, child, cur>>
    BY <1>7 DEF Released
  <2> QED BY <2>1, MoveClean
<1> QED BY <1>1, <1>2, <1>3, <1>4, <1>5, <1>6, <1>7 DEF Engine

\* The handler runs only in a transfer whose children are released, and finds one that
\* has ended.
LEMMA SignalWorks ==
  ASSUME TypeInv, CleanInv, Signal
  PROVE  /\ Running /\ ~StartLoop /\ state \in Started /\ allocated /\ nbpidchild = N /\ ~AllEnded
         /\ sigchld /\ (SigchldPart \/ SigchldSuccess \/ SigchldFailure)
<1>1. Running /\ sigchld
  BY DEF Signal, SigchldNone, SigchldFreed, SigchldPart, SigchldSuccess, SigchldFailure,
         SigchldCollects, SigchldRaised
<1>2. ~StartLoop /\ state \in Started
  BY <1>1 DEF CleanInv, InLoop, AtRest
<1>3. InWork /\ allocated /\ nbpidchild = N
  BY <1>1, <1>2 DEF CleanInv, InWork
<1>4. PICK s \in Streams : child[<<cur, s>>] \in Zombie
  BY <1>1, <1>2, <1>3 DEF InWork
<1>5. <<cur, s>> \in Pids /\ mychildren[s] = <<cur, s>>
  BY <1>1, <1>2, <1>3, <1>4, OwnPids DEF InWork, CleanInv, Started, Zombie
<1>6. ~AllEnded
  BY <1>3, <1>5, NAssumption, PidsAreNotZero DEF AllEnded, Slots, Streams
<1> QED BY <1>1, <1>2, <1>3, <1>6 DEF Signal, SigchldNone, SigchldFreed

\* What it collects, and what is left.
LEMMA Collecting ==
  ASSUME TypeInv, CleanInv, Running, state \in Started, NEW s \in Streams
  PROVE  /\ s \in Collected <=> child[<<cur, s>>] \in Zombie
         /\ s \in Left <=> child[<<cur, s>>] \in Live
         /\ <<cur, s>> \in Pids
         /\ Reaped[<<cur, s>>] = IF child[<<cur, s>>] \in Zombie THEN "reaped" ELSE child[<<cur, s>>]
         /\ SlotsLeft[s] = IF child[<<cur, s>>] \in Live THEN <<cur, s>> ELSE NoPid
<1>1. <<cur, s>> \in Pids /\ Slots = Streams
  BY OwnPids DEF CleanInv, InWork, Started, Slots, Streams
<1>2. \A t \in Streams :
        \/ mychildren[t] = <<cur, t>> /\ child[<<cur, t>>] \in Live \cup Zombie
        \/ mychildren[t] = NoPid /\ child[<<cur, t>>] = "reaped"
  BY DEF CleanInv, InWork
<1>3. <<cur, s>> # NoPid /\ NoPid \notin Pids
  BY <1>1, PidsAreNotZero
<1>4. s \in Collected <=> child[<<cur, s>>] \in Zombie
  BY <1>1, <1>2, <1>3 DEF Collected, Live, Zombie
<1>5. s \in Left <=> child[<<cur, s>>] \in Live
  BY <1>1, <1>2, <1>3, <1>4 DEF Left, Live, Zombie
<1>6. (\E t \in Collected : mychildren[t] = <<cur, s>>) <=> s \in Collected
  <2>1. ASSUME NEW t \in Collected, mychildren[t] = <<cur, s>> PROVE t = s
    <3>1. t \in Streams /\ mychildren[t] # NoPid
      BY <1>1, <1>3 DEF Collected
    <3>2. <<cur, t>> = <<cur, s>>
      BY <1>2, <2>1, <3>1
    <3> QED BY <3>2
  <2>2. s \in Collected => mychildren[s] = <<cur, s>>
    BY <1>2, <1>4 DEF Zombie
  <2> QED BY <2>1, <2>2
<1>7. Reaped[<<cur, s>>] = IF child[<<cur, s>>] \in Zombie THEN "reaped" ELSE child[<<cur, s>>]
  BY <1>1, <1>4, <1>6 DEF Reaped
<1>8. SlotsLeft[s] = IF child[<<cur, s>>] \in Live THEN <<cur, s>> ELSE NoPid
  BY <1>2, <1>4 DEF SlotsLeft, Live, Zombie
<1> QED BY <1>1, <1>4, <1>5, <1>7, <1>8

\* Other children were collected before.
LEMMA OthersReaped ==
  ASSUME TypeInv, CleanInv, Running, state \in Started
  PROVE  /\ \A p \in Pids : p[1] # cur => Reaped[p] = child[p] /\ child[p] \in Ended
         /\ ~(\E s \in Streams : child[<<cur, s>>] \in Live) =>
              \A p \in Pids : Reaped[p] \in Ended
<1>1. \A p \in Pids : p[1] # cur => Reaped[p] = child[p] /\ child[p] \in Ended
  BY NotZombieNotReaped DEF CleanInv, OthersEnded, Ended, Zombie
<1>2. ASSUME ~(\E s \in Streams : child[<<cur, s>>] \in Live), NEW p \in Pids
      PROVE  Reaped[p] \in Ended
  <2>1. CASE p[1] # cur
    BY <1>1, <2>1
  <2>2. CASE p[1] = cur
    <3>1. p[2] \in Streams /\ p = <<cur, p[2]>>
      BY <2>2, PidParts
    <3>2. child[p] \in Zombie \cup {"reaped"} /\ child[p] \notin Live
      BY <1>2, <3>1 DEF CleanInv, InWork
    <3>3. Reaped[p] = IF child[p] \in Zombie THEN "reaped" ELSE child[p]
      BY <3>1, Collecting
    <3> QED BY <3>2, <3>3 DEF Ended
  <2> QED BY <2>1, <2>2
<1> QED BY <1>1, <1>2

\* The last child was collected.
LEMMA LastClean ==
  ASSUME TypeInv, CleanInv, Running, ~StartLoop, state \in Started,
         ~(\E s \in Streams : child[<<cur, s>>] \in Live),
         child' = Reaped, sigchld' = FALSE, state' = "LOGGED", killdone' = 0, FreeAllVar,
         cur' = cur, pc' \in {pc, "exit"}
  PROVE  CleanInv'
<1>1. \A p \in Pids : child'[p] \in Ended
  BY OthersReaped
<1>2. Place' /\ ~StartLoop'
  BY DEF CleanInv, Place, StartLoop
<1>3. OthersEnded' /\ AtRest' /\ NoneLeft'
  BY <1>1 DEF OthersEnded, AtRest, NoneLeft, FreeAllVar, Ended, Live
<1>4. Storage' /\ InLoop' /\ InWork'
  BY <1>2 DEF Storage, InLoop, InWork, FreeAllVar, Starts, Started
<1> QED BY <1>2, <1>3, <1>4 DEF CleanInv

LEMMA SignalClean == ASSUME TypeInv, CleanInv, Signal PROVE CleanInv'
<1> USE DEF ctlVars, memVars, flagVars, askVars
<1>0. /\ Running /\ ~StartLoop /\ state \in Started /\ allocated /\ nbpidchild = N
      /\ SigchldPart \/ SigchldSuccess \/ SigchldFailure
  BY SignalWorks
<1>1. Left = {} <=> ~(\E s \in Streams : child[<<cur, s>>] \in Live)
  <2>1. Left \subseteq Streams
    BY <1>0 DEF Left, Slots, Streams
  <2> QED BY <1>0, <2>1, Collecting
<1>2. InWork /\ OthersEnded /\ Place
  BY DEF CleanInv
<1>3. CASE SigchldPart
  <2>1. /\ sigchld' = FALSE /\ child' = Reaped /\ mychildren' = SlotsLeft /\ childendinerror = 0
        /\ UNCHANGED <<pc, state, allocated, nbpidchild, childendinerror, killdone, cur>>
    BY <1>3 DEF SigchldPart, InError, TypeInv, ValueInv, ValueType
  <2>2. PICK t \in Streams : child[<<cur, t>>] \in Live
    BY <1>1, <1>3 DEF SigchldPart
  <2>3. ASSUME NEW s \in Streams
        PROVE  /\ \/ mychildren'[s] = <<cur, s>> /\ child'[<<cur, s>>] \in Live
                  \/ mychildren'[s] = NoPid /\ child'[<<cur, s>>] = "reaped"
               /\ child'[<<cur, s>>] \notin Zombie
               /\ child[<<cur, s>>] \in Live => child'[<<cur, s>>] # "reaped"
    BY <1>0, <1>2, <2>1, Collecting DEF InWork, Live, Zombie
  <2>4. killdone' = 0
    BY <1>0, <1>2, <2>1 DEF InWork
  <2>5. InWork'
    <3>1. (sigchld <=> \E s \in Streams : child[<<cur, s>>] \in Zombie)'
      BY <2>1, <2>3
    <3>2. (\E s \in Streams : child[<<cur, s>>] # "reaped")'
      BY <2>1, <2>2, <2>3
    <3>3. \A s \in Streams :
            (\/ mychildren[s] = <<cur, s>> /\ child[<<cur, s>>] \in Live \cup Zombie
             \/ mychildren[s] = NoPid /\ child[<<cur, s>>] = "reaped")'
      BY <2>1, <2>3
    <3>4. allocated' /\ nbpidchild' = N /\ killdone' = 0 /\ childendinerror' = 0
      BY <1>0, <2>1, <2>4
    <3> QED BY <3>1, <3>2, <3>3, <3>4 DEF InWork
  <2>6. Place' /\ OthersEnded'
    BY <1>0, <1>2, <2>1, OthersReaped DEF Place, OthersEnded, StartLoop
  <2>7. NoneLeft' /\ AtRest' /\ Storage' /\ InLoop'
    BY <1>0, <2>1 DEF NoneLeft, AtRest, Storage, InLoop, Running, StartLoop
  <2> QED BY <2>5, <2>6, <2>7 DEF CleanInv
<1>4. CASE SigchldSuccess
  <2>1. /\ child' = Reaped /\ sigchld' = FALSE /\ state' = "LOGGED" /\ killdone' = 0
        /\ FreeAllVar /\ cur' = cur /\ pc' \in {pc, "exit"} /\ Left = {}
    BY <1>4 DEF SigchldSuccess
  <2> QED BY <1>0, <1>1, <2>1, LastClean
<1>5. CASE SigchldFailure
  <2>1. /\ child' = KilledBy(Victims, Reaped) /\ sigchld' = (Victims # {}) /\ cur' = cur
    BY <1>5 DEF SigchldFailure
  <2>2. \A s \in Streams : mychildren[s] # Junk
    <3> SUFFICES ASSUME NEW s \in Streams PROVE mychildren[s] # Junk
      OBVIOUS
    <3>1. <<cur, s>> \in Pids
      BY <1>0, Collecting
    <3>2. mychildren[s] \in {<<cur, s>>, NoPid}
      BY <1>0, <1>2 DEF InWork
    <3>3. NoPid # Junk
      BY DEF NoPid, Junk
    <3> QED BY <3>1, <3>2, <3>3, PidsAreNotZero
  <2>3. pc' \in {pc, "exit"}
    <3>1. Junk \notin {mychildren[s] : s \in Left}
      BY <1>0, <2>2 DEF Left, Slots, Streams
    <3> QED BY <1>5, <3>1 DEF SigchldFailure
  <2>4. CASE Left = {}
    <3>1. /\ state' = "LOGGED" /\ killdone' = 0 /\ FreeAllVar
      BY <1>5, <2>4 DEF SigchldFailure
    <3>2. Victims = {}
      <4> SUFFICES ASSUME NEW p \in Victims PROVE FALSE
        OBVIOUS
      <4>1. PICK s \in Streams : mychildren[s] = p /\ p \in Pids /\ child[p] \in Live
        BY <1>0 DEF Victims, Recorded, Slots, Streams
      <4>2. p = <<cur, s>>
        BY <1>0, <1>2, <4>1, PidsAreNotZero DEF InWork
      <4> QED BY <1>1, <2>4, <4>1, <4>2
    <3>3. child' = Reaped /\ sigchld' = FALSE
      BY <2>1, <3>2 DEF KilledBy, Reaped
    <3> QED BY <1>0, <1>1, <2>1, <2>3, <2>4, <3>1, <3>3, LastClean
  <2>5. CASE Left # {}
    <3>1. /\ childendinerror' = 1 /\ killdone' = 1 /\ mychildren' = SlotsLeft
          /\ UNCHANGED <<state, allocated, nbpidchild>>
      BY <1>5, <2>5 DEF SigchldFailure
    <3>2. PICK t \in Streams : child[<<cur, t>>] \in Live
      BY <1>1, <2>5
    <3>3. killdone = 0
      BY <1>0, <1>2, <3>2 DEF InWork, TypeInv, ValueInv, ValueType
    <3>4. ASSUME NEW s \in Streams
          PROVE  /\ child[<<cur, s>>] \in Live => /\ mychildren'[s] = <<cur, s>>
                                                  /\ child'[<<cur, s>>] = "bad"
                                                  /\ <<cur, s>> \in Victims
                 /\ child[<<cur, s>>] \notin Live => /\ mychildren'[s] = NoPid
                                                     /\ child'[<<cur, s>>] = "reaped"
      <4>1. /\ <<cur, s>> \in Pids
            /\ Reaped[<<cur, s>>] = IF child[<<cur, s>>] \in Zombie THEN "reaped" ELSE child[<<cur, s>>]
            /\ SlotsLeft[s] = IF child[<<cur, s>>] \in Live THEN <<cur, s>> ELSE NoPid
        BY <1>0, Collecting
      <4>2. child'[<<cur, s>>] = IF <<cur, s>> \in Victims THEN "bad" ELSE Reaped[<<cur, s>>]
        BY <2>1, <4>1 DEF KilledBy
      <4>3. /\ mychildren[s] = <<cur, s>> \/ child[<<cur, s>>] = "reaped"
            /\ child[<<cur, s>>] \in Live \cup Zombie \cup {"reaped"}
        BY <1>0, <1>2 DEF InWork
      <4>4. <<cur, s>> \in Victims <=> child[<<cur, s>>] \in Live
        BY <1>0, <3>3, <4>1, <4>3 DEF Victims, Recorded, Slots, Streams, Live
      <4> QED BY <3>1, <4>1, <4>2, <4>3, <4>4
    <3>5. sigchld' = TRUE
      BY <2>1, <3>2, <3>4
    <3>6. InWork'
      <4>1. \A s \in Streams : \/ mychildren'[s] = <<cur, s>> /\ child'[<<cur, s>>] \in Zombie
                               \/ mychildren'[s] = NoPid /\ child'[<<cur, s>>] = "reaped"
        BY <3>4 DEF Zombie
      <4>2. child'[<<cur, t>>] \in Zombie
        BY <3>2, <3>4 DEF Zombie
      <4>3. \A s \in Streams : child'[<<cur, s>>] \notin Live
        BY <3>4 DEF Live
      <4> QED BY <1>0, <2>1, <3>1, <3>5, <4>1, <4>2, <4>3 DEF InWork, Zombie
    <3>7. \A p \in Pids : p[1] # cur => child'[p] \in Ended
      <4> SUFFICES ASSUME NEW p \in Pids, p[1] # cur PROVE child'[p] \in Ended
        OBVIOUS
      <4>1. Reaped[p] = child[p] /\ child[p] \in Ended
        BY <1>0, OthersReaped
      <4>2. p \notin Victims
        BY <4>1 DEF Victims, Ended, Live
      <4> QED BY <2>1, <4>1, <4>2 DEF KilledBy
    <3>8. \A p \in Pids : child'[p] \notin Live
      <4> SUFFICES ASSUME NEW p \in Pids PROVE child'[p] \notin Live
        OBVIOUS
      <4>1. CASE p[1] = cur
        <5>1. p[2] \in Streams /\ p = <<cur, p[2]>>
          BY <4>1, PidParts
        <5> QED BY <3>4, <5>1 DEF Live
      <4> QED BY <3>7, <4>1 DEF Ended, Live
    <3>9. Place' /\ OthersEnded' /\ NoneLeft'
      BY <1>0, <1>2, <2>1, <2>3, <3>1, <3>7, <3>8 DEF Place, OthersEnded, NoneLeft, StartLoop
    <3>10. AtRest' /\ Storage' /\ InLoop'
      BY <1>0, <2>3, <3>1 DEF AtRest, Storage, InLoop, Running, StartLoop
    <3> QED BY <3>6, <3>9, <3>10 DEF CleanInv
  <2> QED BY <2>4, <2>5
<1> QED BY <1>0, <1>3, <1>4, <1>5

\* A step of a child.
LEMMA ChildrenClean ==
  ASSUME Undisturbed, TypeInv, CleanInv, NEW p \in Pids,
         Serve(p) \/ StreamFails(p) \/ ChildKilled(p)
  PROVE  CleanInv'
<1>1. /\ child[p] \in Live
      /\ UNCHANGED fatherVars
      /\ \/ sigchld' = sigchld /\ child' = [child EXCEPT ![p] = "open"]
         \/ sigchld' = sigchld /\ child' = [child EXCEPT ![p] = "done"]
         \/ sigchld' = sigchld /\ child' = [child EXCEPT ![p] = "failing"]
         \/ sigchld' = TRUE /\ child' = [child EXCEPT ![p] = "ok"]
         \/ sigchld' = TRUE /\ child' = [child EXCEPT ![p] = "bad"]
  BY DEF Serve, OpenFragment, OpenFails, MayStart, Stream, StreamFails, ChildExit, ChildKilled, Die,
         Live
<1>2. UNCHANGED <<pc, state, i, allocated, mychildren, nbpidchild, killdone, childendinerror, cur>>
  BY <1>1 DEF fatherVars, ctlVars, memVars, flagVars, askVars
<1>3. /\ \A q \in Pids : q # p => child'[q] = child[q]
      /\ child'[p] \in Live \cup Zombie
      /\ child'[p] \in Zombie => sigchld'
      /\ child'[p] \notin Zombie => sigchld' = sigchld
  <2>1. child \in ChildType
    BY DEF TypeInv, ValueInv, ValueType
  <2> QED BY <1>1, <2>1 DEF ChildType, Live, Zombie
<1>4. p[1] = cur /\ p[2] \in Streams /\ p = <<cur, p[2]>>
  <2>1. p[1] = cur
    BY <1>1 DEF CleanInv, OthersEnded, Ended, Live
  <2> QED BY <2>1, PidParts
<1>5. ~StartLoop
  <2> SUFFICES ASSUME StartLoop PROVE FALSE
    OBVIOUS
  <2>1. child[p] = "waiting"
    <3>1. /\ \A s \in Streams : s < i => child[<<cur, s>>] = "waiting"
          /\ \A s \in Streams : s > i \/ (s = i /\ pc = "spawn") => child[<<cur, s>>] \in Ended
          /\ pc # "spawn" => child[<<cur, i>>] = "waiting"
      BY DEF CleanInv, InLoop
    <3>2. p[2] < i \/ p[2] = i \/ p[2] > i
      BY <1>4 DEF TypeInv, ValueInv, ValueType, Streams
    <3> QED BY <1>1, <1>4, <3>1, <3>2 DEF Ended, Live
  <2>2. ~MayStart(p)
    BY <1>4, <2>1 DEF MayStart, Starting, StartLoop, Undisturbed
  <2> QED
    BY <2>1, <2>2
       DEF Serve, OpenFragment, OpenFails, Stream, StreamFails, ChildExit, ChildKilled, Undisturbed
<1>6. Running => state \in Started
  BY <1>1, <1>5 DEF CleanInv, AtRest, Ended, Live
<1>7. Place' /\ Storage' /\ InLoop'
  BY <1>2, <1>5 DEF CleanInv, Place, Storage, InLoop, StartLoop
<1>8. AtRest'
  BY <1>2, <1>6 DEF AtRest, Running
<1>9. OthersEnded'
  BY <1>2, <1>3, <1>4 DEF CleanInv, OthersEnded
<1>10. NoneLeft'
  BY <1>1, <1>2 DEF CleanInv, NoneLeft
<1>11. InWork'
  <2> SUFFICES ASSUME Running, state \in Started PROVE InWork'
    BY <1>2 DEF InWork, Running
  <2>1. InWork
    BY DEF CleanInv
  <2>2. killdone # 1
    BY <1>1, <1>4, <2>1 DEF InWork
  <2>3. \A s \in Streams : <<cur, s>> \in Pids
    BY OwnPids DEF CleanInv, Started
  <2>4. \A s \in Streams : s # p[2] => child'[<<cur, s>>] = child[<<cur, s>>]
    <3> SUFFICES ASSUME NEW s \in Streams, s # p[2] PROVE child'[<<cur, s>>] = child[<<cur, s>>]
      OBVIOUS
    <3>1. <<cur, s>> # p
      BY <1>4
    <3> QED BY <1>3, <2>3, <3>1
  <2>5. child'[<<cur, p[2]>>] \in Live \cup Zombie /\ child[<<cur, p[2]>>] \in Live
    BY <1>1, <1>3, <1>4
  <2>6. \A s \in Streams :
          \/ mychildren'[s] = <<cur, s>> /\ child'[<<cur, s>>] \in Live \cup Zombie
          \/ mychildren'[s] = NoPid /\ child'[<<cur, s>>] = "reaped"
    BY <1>2, <2>1, <2>4, <2>5 DEF InWork, Live
  <2>7. \E s \in Streams : child'[<<cur, s>>] # "reaped"
    BY <1>4, <2>5 DEF Live, Zombie
  <2>8. sigchld' <=> \E s \in Streams : child'[<<cur, s>>] \in Zombie
    <3>1. sigchld <=> \E s \in Streams : child[<<cur, s>>] \in Zombie
      BY <2>1 DEF InWork
    <3>2. CASE child'[p] \in Zombie
      BY <1>3, <1>4, <3>2
    <3>3. CASE child'[p] \notin Zombie
      BY <1>3, <1>4, <2>4, <2>5, <3>1, <3>3 DEF Live, Zombie
    <3> QED BY <3>2, <3>3
  <2>9. allocated' /\ nbpidchild' = N /\ killdone' = childendinerror' /\ killdone' # 1
    BY <1>2, <2>1, <2>2 DEF InWork
  <2> QED BY <1>2, <2>6, <2>7, <2>8, <2>9 DEF InWork
<1> QED BY <1>7, <1>8, <1>9, <1>10, <1>11 DEF CleanInv

LEMMA SigtermClean == ASSUME TypeInv, CleanInv, Sigterm PROVE CleanInv'
<1>1. /\ pc' \in {"exit", "ub"} /\ "term" \in Faults /\ UNCHANGED <<state, cur>>
      /\ child' = KilledBy(Victims, child) \/ child' = child
  BY DEF Sigterm, CleanChildThen, CleanChild, ctlVars, askVars
<1>2. OthersEnded'
  BY <1>1 DEF CleanInv, OthersEnded, KilledBy, Victims, Ended, Live
<1>3. Place' /\ AtRest' /\ Storage' /\ InLoop' /\ InWork' /\ NoneLeft'
  BY <1>1 DEF Place, AtRest, Storage, InLoop, InWork, NoneLeft, StartLoop, Running
<1> QED BY <1>2, <1>3 DEF CleanInv

LEMMA CleanNext == ASSUME Undisturbed PROVE TypeInv /\ CleanInv /\ [Next]_vars => CleanInv'
<1> SUFFICES ASSUME TypeInv, CleanInv, [Next]_vars PROVE CleanInv'
  OBVIOUS
<1>1. CASE UNCHANGED vars
  BY <1>1 DEF vars, CleanInv, Place, OthersEnded, AtRest, Storage, InLoop, InWork, NoneLeft,
       StartLoop, Running
<1> QED
  BY <1>1, ControlClean, EngineClean, SignalClean, SigtermClean, ChildrenClean DEF Next, Gone
LEMMA CleanAlways == ASSUME Undisturbed PROVE Spec => [](TypeInv /\ CleanInv)
<1>1. Init => TypeInv /\ CleanInv
  BY TypeInit, CleanInit
<1>2. TypeInv /\ CleanInv /\ [Next]_vars => (TypeInv /\ CleanInv)'
  BY TypeNext, CleanNext
<1> QED BY <1>1, <1>2, PTL DEF Spec

\* When the session is ready for a request nothing of the transfer before is left: no
\* child runs, free_all_var has cleared the storage and killdone is 0 again
\* (bbftpd_sigchld resets it after the last child only).  It holds for any number of
\* streams and whatever fails once the children are started, also when SIGCHLDs are merged
\* and when the handler runs between two steps of the release loop.
THEOREM ReadyIsCleanHolds == ASSUME Undisturbed PROVE Spec => []ReadyIsClean
<1>1. TypeInv /\ CleanInv => ReadyIsClean
  <2> SUFFICES ASSUME CleanInv, Ready
               PROVE  (\A p \in Pids : child[p] \notin Live) /\ killdone = 0 /\ ~allocated
    BY DEF ReadyIsClean
  <2>1. pc = "loop" /\ state = "LOGGED"
    BY DEF Ready
  <2>2. AtRest /\ Storage
    BY DEF CleanInv
  <2> QED BY <2>1, <2>2
    DEF AtRest, Storage, Running, StartLoop, Starts, Started, Ended, Live
<1> QED BY <1>1, CleanAlways, PTL

\* The father never follows a pointer that free_all_var has cleared, nor kills what an
\* unwritten slot holds: the globals that bbftpd_sigchld frees are those of a transfer
\* whose children were all released, and the loops over them are over or see none.
THEOREM NoUndefinedBehaviourHolds ==
  ASSUME Undisturbed, {"unread", "term"} \cap Faults = {}
  PROVE  Spec => []NoUndefinedBehaviour
<1>1. TypeInv /\ CleanInv => NoUndefinedBehaviour
  BY DEF CleanInv, Place, NoUndefinedBehaviour
<1> QED BY <1>1, CleanAlways, PTL

\* A session that ends, whether its client left, broke the protocol or was silent, or an
\* answer could not be written, leaves no child that still works on the file, unless it
\* was sent a SIGTERM: clean_child reaches every child that lives.
THEOREM ExitLeavesNoChildHolds ==
  ASSUME Undisturbed, "term" \notin Faults PROVE Spec => []ExitLeavesNoChild
<1>1. TypeInv /\ CleanInv => ExitLeavesNoChild
  BY DEF CleanInv, NoneLeft, ExitLeavesNoChild
<1> QED BY <1>1, CleanAlways, PTL

-----------------------------------------------------------------------------
(* A store that fails leaves no file.  The file that a transfer made is    *)
(* removed with its first error, and until then the state of the session   *)
(* tells that there is one; afterwards no child makes it again.  A         *)
(* simulated store is left aside: the handler does not remove its file.    *)

RealOnly == "malloc" \notin Faults /\ TRUE \notin Simulations

\* The kind of the request is that of the state, and unlinkfile tells it to the handler.
KindOfState ==
  /\ state \in {"WAITING_FILENAME_STORE", "WAITING_STORE_START", "RECEIVING"} => kindOf[cur] = "store"
  /\ state \in {"WAITING_FILENAME_RETR", "WAITING_RETR_START", "SENDING"} => kindOf[cur] = "retr"
  /\ state = "RECEIVING" \/ (StartLoop /\ state = "WAITING_STORE_START") => unlinkfile = 1
NotSimulated == \A t \in Transfers : simOf[t] = FALSE

\* A file that this transfer made is the one it writes to, until its first error, or the
\* one it has answered for.
NoNew(files) == \A x \in Paths : files[x] # "new"
NewFile ==
  pc \notin {"quit", "exit", "ub"} /\ ~OkSent => \A x \in Paths : fs[x] = "new" =>
    /\ x = Real
    /\ state = "WAITING_STORE_START" \/ (state = "RECEIVING" /\ childendinerror = 0)

FileInv == KindOfState /\ NotSimulated /\ NewFile
SessionInv == TypeInv /\ AnswerInv /\ CleanInv /\ FileInv

\* What is sent is never taken back.
LEMMA OkOfSent ==
  /\ sent = <<>> => ~OkSent
  /\ sent' = sent => (OkSent' <=> OkSent)
  /\ sent = <<>> /\ sent' = Append(sent, "OK") => OkSent'
<1>1. sent = <<>> => ~OkSent
  BY DEF OkSent
<1>2. sent' = sent => (OkSent' <=> OkSent)
  BY DEF OkSent
<1>3. ASSUME sent = <<>>, sent' = Append(sent, "OK") PROVE OkSent'
  <2>1. Len(Append(<<>>, "OK")) = 1 /\ Append(<<>>, "OK")[1] = "OK"
    OBVIOUS
  <2>2. Len(sent') = 1 /\ sent'[1] = "OK"
    BY <1>3, <2>1
  <2>3. 1 \in 1..Len(sent')
    BY <2>2
  <2> QED BY <2>2, <2>3 DEF OkSent
<1> QED BY <1>1, <1>2, <1>3

\* Removing a file makes none, and removes the one of the transfer.
LEMMA RemovedFile ==
  ASSUME TypeInv
  PROVE  /\ \A x \in Paths : Unlink(Real)[x] = "new" => fs[x] = "new" /\ x # Real
         /\ \A x \in Paths : UnlinkReal[x] = "new" => fs[x] = "new"
         /\ \A p : \A x \in Paths : ChildUnlink(p)[x] = "new" => fs[x] = "new"
BY DEF Unlink, UnlinkReal, ChildUnlink, TypeInv, ValueInv, ValueType, FsType

\* A step that keeps the request where it is.
LEMMA SameFile ==
  ASSUME SessionInv, UNCHANGED <<state, kindOf, cur, simOf, sent, childendinerror>>,
         unlinkfile' = unlinkfile,
         pc' \in {"quit", "exit", "ub"} \/ pc \notin {"quit", "exit", "ub"},
         \A x \in Paths : fs'[x] = "new" => fs[x] = "new",
         StartLoop' => StartLoop
  PROVE  FileInv'
<1>1. KindOfState' /\ NotSimulated'
  BY DEF SessionInv, FileInv, KindOfState, NotSimulated
<1>2. NewFile'
  BY OkOfSent DEF SessionInv, FileInv, NewFile
<1> QED BY <1>1, <1>2 DEF FileInv

\* A step after which there is no file of the transfer, or the client is told of it, and
\* the session is ready or has ended.
LEMMA EndedFile ==
  ASSUME SessionInv, state' = "LOGGED" \/ pc' \in {"quit", "exit", "ub"}, ~StartLoop', UNCHANGED simOf,
         state' # "LOGGED" => UNCHANGED <<state, kindOf, cur, unlinkfile>>,
         pc' \in {"quit", "exit", "ub"} \/ OkSent' \/ NoNew(fs')
  PROVE  FileInv'
BY DEF SessionInv, FileInv, KindOfState, NotSimulated, NewFile, NoNew

\* No file has been made for a request that waits for its file name, and none is made for
\* a retrieve.
LEMMA NoFileYet ==
  ASSUME SessionInv, pc \notin {"quit", "exit", "ub"}, ~OkSent,
         state \notin {"WAITING_STORE_START", "RECEIVING"} \/ (state = "RECEIVING" /\ childendinerror = 1)
  PROVE  NoNew(fs)
BY DEF SessionInv, FileInv, NewFile, NoNew

LEMMA ControlFile == ASSUME RealOnly, SessionInv, Control PROVE FileInv'
<1> USE DEF InState, ctlVars, memVars, flagVars, askVars
<1>0. TypeInv /\ FileInv /\ CleanInv
  BY DEF SessionInv
<1>1. CASE Select \/ InterruptTransfer \/ Disconnect \/ IdleTimeout \/ CloseConn
  <2>1. \A x \in Paths : fs'[x] = "new" => fs[x] = "new"
    BY <1>0, <1>1, RemovedFile DEF Select, InterruptTransfer, Disconnect, IdleTimeout, CloseConn
  <2> QED BY <1>1, <2>1, SameFile
          DEF Select, InterruptTransfer, Disconnect, IdleTimeout, CloseConn, StartLoop
<1>2. CASE \E kind \in Kinds : Request(kind)
  <2>1. PICK kind \in Kinds : Request(kind)
    BY <1>2
  <2>2. kind \in {"store", "retr"} /\ cur + 1 \in Transfers /\ kindOf \in [Transfers -> {"none", "store", "retr"}]
    BY <1>0, <2>1, ChoicesAssumption, MaxTransfersAssumption
       DEF Request, Transfers, TypeInv, ValueInv, ValueType
  <2>3. kindOf'[cur'] = kind
    BY <2>1, <2>2 DEF Request
  <2>4. /\ pc' = "top" /\ UNCHANGED simOf
        /\ state' = IF kind = "store" THEN "WAITING_FILENAME_STORE" ELSE "WAITING_FILENAME_RETR"
    BY <2>1 DEF Request
  <2>5. NoNew(fs')
    BY <2>1 DEF Request, NoNew
  <2> QED BY <1>0, <2>2, <2>3, <2>4, <2>5 DEF FileInv, KindOfState, NotSimulated, NewFile, NoNew, StartLoop
<1>3. ASSUME pc = "loop", state \in {"WAITING_FILENAME_STORE", "WAITING_FILENAME_RETR",
             "WAITING_STORE_START", "WAITING_RETR_START", "WAITING_CREATE_ZERO"}
      PROVE  /\ sent = <<>> /\ ~OkSent
             /\ state # "WAITING_STORE_START" => NoNew(fs)
  <2>1. sent = <<>> /\ ~OkSent
    BY <1>3, OkOfSent DEF SessionInv, AnswerInv, NothingSent, NotStarted
  <2> QED BY <1>3, <2>1, NoFileYet
<1>4. CASE StoreRefused \/ RetrRefused
  <2>1. /\ state' = "LOGGED" /\ pc' \in {"top", "exit"} /\ UNCHANGED simOf
        /\ fs' = fs \/ fs' = Unlink(Real)
        /\ pc = "loop" /\ state \in {"WAITING_FILENAME_STORE", "WAITING_FILENAME_RETR"}
    BY <1>4 DEF StoreRefused, RetrRefused, ReplyThen
  <2>2. NoNew(fs')
    BY <1>0, <1>3, <2>1, RemovedFile DEF NoNew
  <2> QED BY <2>1, <2>2, EndedFile DEF StartLoop
<1>5. CASE StoreEmpty
  <2>1. PICK ok \in BOOLEAN : /\ fs' = Processed([fs EXCEPT ![Real] = "new"], ok)
                              /\ ReplyThen(Answer(ok), "top")
    BY <1>5 DEF StoreEmpty
  <2>2. /\ state' = "LOGGED" /\ pc' \in {"top", "exit"} /\ UNCHANGED simOf
        /\ pc = "loop" /\ state = "WAITING_FILENAME_STORE"
    BY <1>5, <2>1 DEF StoreEmpty, ReplyThen
  <2>3. CASE ok
    <3>1. pc' = "exit" \/ sent' = Append(sent, "OK")
      BY <2>1, <2>3 DEF ReplyThen, Answer
    <3> QED BY <1>3, <2>2, <3>1, OkOfSent, EndedFile DEF StartLoop
  <2>4. CASE ~ok
    <3>1. NoNew(fs')
      BY <1>0, <1>3, <2>1, <2>2, <2>4 DEF NoNew, Processed, TypeInv, ValueInv, ValueType, FsType
    <3> QED BY <2>2, <3>1, EndedFile DEF StartLoop
  <2> QED BY <2>3, <2>4
<1>6. CASE StoreAccepted
  <2>1. /\ pc = "loop" /\ state = "WAITING_FILENAME_STORE"
        /\ pc' = "top" /\ state' = "WAITING_STORE_START" /\ fs' = [fs EXCEPT ![Real] = "new"]
        /\ UNCHANGED <<kindOf, cur, simOf, unlinkfile>>
    BY <1>6 DEF StoreAccepted
  <2>2. \A x \in Paths : fs'[x] = "new" => x = Real
    BY <1>0, <1>3, <2>1 DEF NoNew, TypeInv, ValueInv, ValueType, FsType
  <2> QED BY <1>0, <2>1, <2>2 DEF FileInv, KindOfState, NotSimulated, NewFile, StartLoop
<1>7. CASE StoreNoMemory
  BY <1>7 DEF StoreNoMemory, RealOnly
<1>8. CASE StoreNoSocket \/ RetrNoSocket \/ InvalidMessage \/ FreedName
  <2>1. /\ pc' \in {"quit", "exit", "ub"} /\ UNCHANGED <<simOf, state, kindOf, cur, unlinkfile>>
    BY <1>8 DEF StoreNoSocket, RetrNoSocket, InvalidMessage, FreedName, ReplyThen
  <2> QED BY <2>1, EndedFile DEF StartLoop
<1>9. CASE RetrEmpty \/ RetrAccepted
  <2>1. /\ pc = "loop" /\ state = "WAITING_FILENAME_RETR" /\ pc' = "top"
        /\ state' \in {"WAITING_CREATE_ZERO", "WAITING_RETR_START"}
        /\ UNCHANGED <<fs, kindOf, cur, simOf, unlinkfile>>
    BY <1>9 DEF RetrEmpty, RetrAccepted
  <2> QED BY <1>0, <1>3, <2>1 DEF FileInv, KindOfState, NotSimulated, NewFile, NoNew, StartLoop
<1>10. CASE CreateZero
  <2>1. /\ pc = "loop" /\ state = "WAITING_CREATE_ZERO" /\ pc' = "top" /\ state' = "LOGGED"
        /\ UNCHANGED <<fs, simOf>>
    BY <1>10 DEF CreateZero
  <2> QED BY <1>3, <2>1, EndedFile DEF StartLoop
<1>11. CASE \E sim \in BOOLEAN : TransStart(sim)
  <2>1. PICK sim \in BOOLEAN : TransStart(sim)
    BY <1>11
  <2>2. sim = FALSE
    BY <2>1 DEF TransStart, RealOnly
  <2>3. /\ pc = "loop" /\ state \in Starts /\ pc' = "spawn" /\ UNCHANGED <<state, fs, kindOf, cur, sent>>
        /\ simOf' = [simOf EXCEPT ![cur] = FALSE]
        /\ unlinkfile' = IF state = "WAITING_STORE_START" THEN 1 ELSE 3
    BY <2>1, <2>2 DEF TransStart, WaitingStart, Starts
  <2>4. NotSimulated'
    BY <1>0, <2>3 DEF FileInv, NotSimulated, TypeInv, ValueInv, ValueType
  <2>5. KindOfState'
    BY <1>0, <2>3 DEF FileInv, KindOfState, Starts
  <2>6. NewFile'
    BY <1>0, <2>3, OkOfSent DEF FileInv, NewFile, Starts
  <2> QED BY <2>4, <2>5, <2>6 DEF FileInv
<1>12. CASE TransStartFreed
  BY <1>0, <1>12 DEF TransStartFreed, WaitingStart, CleanInv, Storage, Starts, Started
<1>13. CASE AbortStart
  <2>1. /\ pc = "loop" /\ state \in Starts /\ state' = "LOGGED" /\ pc' = "top" /\ UNCHANGED simOf
        /\ fs' = IF state = "WAITING_STORE_START" THEN UnlinkReal ELSE fs
    BY <1>13 DEF AbortStart, WaitingStart, Starts
  <2>2. allocated
    BY <1>0, <2>1 DEF CleanInv, Storage, Starts, Started
  <2>3. NoNew(fs')
    <3>1. CASE state = "WAITING_STORE_START"
      <4>1. fs' = Unlink(Real)
        BY <2>1, <2>2, <3>1 DEF UnlinkReal
      <4>2. \A x \in Paths : fs[x] = "new" => x = Real
        BY <1>0, <1>3, <2>1 DEF FileInv, NewFile, Starts
      <4> QED BY <1>0, <4>1, <4>2, RemovedFile DEF NoNew
    <3>2. CASE state # "WAITING_STORE_START"
      BY <1>3, <2>1, <3>2 DEF Starts
    <3> QED BY <3>1, <3>2
  <2> QED BY <2>1, <2>3, EndedFile DEF StartLoop
<1>14. CASE Exit
  <2>1. /\ pc' \in {"ub", "exit"} /\ UNCHANGED <<simOf, state, kindOf, cur, unlinkfile>>
    BY <1>14 DEF Exit, CleanChildThen
  <2> QED BY <2>1, EndedFile DEF StartLoop
<1>15. CASE NameUnread
  <2>1. /\ pc = "loop" /\ state \in {"WAITING_FILENAME_STORE", "WAITING_FILENAME_RETR"}
        /\ pc' \in {"unread", "exit"}
        /\ UNCHANGED <<simOf, state, kindOf, cur, unlinkfile, fs>>
    BY <1>15 DEF NameUnread, ReplyThen
  <2>2. NoNew(fs')
    BY <1>3, <2>1
  <2> QED BY <1>0, <2>1, <2>2 DEF FileInv, KindOfState, NotSimulated, NewFile, NoNew, StartLoop
<1> QED
  BY <1>1, <1>2, <1>4, <1>5, <1>6, <1>7, <1>8, <1>9, <1>10, <1>11, <1>12, <1>13, <1>14,
     <1>15 DEF Control

LEMMA EngineFile == ASSUME Undisturbed, RealOnly, SessionInv, Engine PROVE FileInv'
<1> USE DEF ctlVars, memVars, flagVars, askVars
<1>0. TypeInv /\ FileInv /\ CleanInv
  BY DEF SessionInv
<1>1. CASE Spawn \/ Count \/ Record \/ Release
  <2>1. /\ UNCHANGED <<state, kindOf, cur, simOf, sent, childendinerror, unlinkfile, fs>>
        /\ pc \notin {"quit", "exit", "ub"} /\ (StartLoop' => StartLoop)
    BY <1>1 DEF Spawn, Count, Record, Release, StartLoop
  <2> QED BY <2>1, SameFile
<1>2. CASE SpawnFails
  BY <1>2 DEF SpawnFails, Undisturbed
<1>3. CASE Report \/ KillStarted \/ GiveUp
  BY <1>0, <1>3 DEF Report, KillStarted, GiveUp, CleanInv, Place
<1>4. CASE AllForked
  <2>1. /\ pc = "spawn" /\ pc' = "hup" /\ StartLoop /\ ~StartLoop'
        /\ state' = IF kindOf[cur] = "store" THEN "RECEIVING" ELSE "SENDING"
        /\ UNCHANGED <<kindOf, cur, simOf, sent, childendinerror, unlinkfile, fs>>
    BY <1>4 DEF AllForked, StartLoop
  <2>2. state \in Starts /\ childendinerror = 0
    BY <1>0, <2>1 DEF CleanInv, Place, InLoop
  <2>3. \/ state = "WAITING_STORE_START" /\ kindOf[cur] = "store" /\ state' = "RECEIVING"
        \/ state = "WAITING_RETR_START" /\ kindOf[cur] = "retr" /\ state' = "SENDING"
    BY <1>0, <2>1, <2>2 DEF FileInv, KindOfState, Starts
  <2>4. KindOfState' /\ NotSimulated'
    BY <1>0, <2>1, <2>3 DEF FileInv, KindOfState, NotSimulated
  <2>5. NewFile'
    BY <1>0, <2>1, <2>2, <2>3, OkOfSent DEF FileInv, NewFile
  <2> QED BY <2>4, <2>5 DEF FileInv
<1>5. CASE Released
  <2>1. /\ pc = "hup" /\ pc' = "top" /\ UNCHANGED <<state, kindOf, cur, simOf, sent, childendinerror, fs>>
        /\ unlinkfile' = IF kindOf[cur] = "store" /\ simOf[cur] THEN 4 ELSE unlinkfile
    BY <1>5 DEF Released
  <2>2. CASE state = "LOGGED"
    BY <1>0, <2>1, <2>2, OkOfSent DEF FileInv, KindOfState, NotSimulated, NewFile, StartLoop
  <2>3. CASE state # "LOGGED"
    <3>1. simOf[cur] = FALSE
      BY <1>0, <2>3, OwnPids DEF CleanInv, FileInv, NotSimulated
    <3> QED BY <2>1, <3>1, SameFile DEF StartLoop
  <2> QED BY <2>2, <2>3
<1> QED BY <1>1, <1>2, <1>3, <1>4, <1>5 DEF Engine

LEMMA SignalFile == ASSUME RealOnly, SessionInv, Signal PROVE FileInv'
<1> USE DEF ctlVars, memVars, flagVars, askVars
<1>0. TypeInv /\ FileInv /\ CleanInv
  BY DEF SessionInv
<1>1. /\ Running /\ ~StartLoop /\ state \in Started /\ allocated /\ nbpidchild = N /\ N > 0
      /\ SigchldPart \/ SigchldSuccess \/ SigchldFailure
  BY <1>0, SignalWorks, NAssumption
<1>2. childendinerror = 0 => sent = <<>> /\ ~OkSent
  BY <1>1, OkOfSent DEF SessionInv, AnswerInv, AnswerAccounted
<1>3. CASE SigchldPart
  <2>1. /\ UNCHANGED <<pc, state, kindOf, cur, simOf, sent, childendinerror, unlinkfile, fs>>
    BY <1>3 DEF SigchldPart
  <2>2. (StartLoop' => StartLoop) /\ (pc' \in {"quit", "exit", "ub"} \/ pc \notin {"quit", "exit", "ub"})
    BY <2>1 DEF StartLoop
  <2> QED BY <2>1, <2>2, SameFile
<1>4. CASE SigchldSuccess
  <2>1. PICK ok \in IF unlinkfile \in {1, 4} THEN ProcessOutcomes ELSE {TRUE} :
          LET files == IF unlinkfile \in {1, 4} THEN Processed(fs, ok) ELSE fs IN
          \/ /\ sent' = Told(Answer(ok)) /\ UNCHANGED pc
             /\ fs' = IF unlinkfile = 4 THEN [files EXCEPT !["cur"] = "absent"] ELSE files
          \/ "reply" \in Faults /\ pc' = "exit" /\ UNCHANGED sent /\ fs' = files
    BY <1>4 DEF SigchldSuccess
  <2>2. state' = "LOGGED" /\ UNCHANGED simOf /\ childendinerror = 0 /\ pc' \in {pc, "exit"}
    BY <1>0, <1>4, <2>1 DEF SigchldSuccess, InError, TypeInv, ValueInv, ValueType
  <2>3. ~StartLoop'
    BY <1>1, <2>2 DEF StartLoop
  <2>4. CASE pc' \in {"quit", "exit", "ub"}
    BY <2>2, <2>3, <2>4, EndedFile
  <2>5. CASE pc' \notin {"quit", "exit", "ub"} /\ ok = TRUE
    <3>1. sent' = Append(sent, "OK")
      BY <2>1, <2>2, <2>5 DEF Told, Answer
    <3> QED BY <1>2, <2>2, <2>3, <3>1, OkOfSent, EndedFile
  <2>6. CASE pc' \notin {"quit", "exit", "ub"} /\ ok # TRUE
    <3>1. unlinkfile \in {1, 4} /\ ok = FALSE
      BY <2>1, <2>6 DEF ProcessOutcomes
    <3>2. Processed(fs, ok) = Unlink(Real)
      BY <3>1 DEF Processed, Unlink
    <3>3. fs' = Unlink(Real) \/ fs' = [Unlink(Real) EXCEPT !["cur"] = "absent"]
      BY <2>1, <2>6, <3>1, <3>2
    <3>4. \A x \in Paths : fs[x] = "new" => x = Real
      BY <1>0, <1>2, <2>2, <2>6 DEF FileInv, NewFile
    <3>5. NoNew(Unlink(Real))
      BY <1>0, <3>4, RemovedFile DEF NoNew
    <3>6. NoNew(fs')
      BY <1>0, <3>3, <3>5, UnlinkType DEF NoNew, FsType, TypeInv, ValueInv
    <3> QED BY <2>2, <2>3, <3>6, EndedFile
  <2> QED BY <2>4, <2>5, <2>6
<1>5. CASE SigchldFailure
  <2>1. /\ UNCHANGED <<kindOf, cur, simOf>> /\ pc' \in {pc, "exit", "ub"}
        /\ fs' = IF FirstError /\ unlinkfile = 1 THEN Unlink(Real) ELSE fs
        /\ \/ state' = "LOGGED"
           \/ state' = state /\ childendinerror' = 1 /\ unlinkfile' = unlinkfile
    BY <1>5 DEF SigchldFailure
  <2>2. ~FirstError => sent' = sent
    BY <1>5 DEF SigchldFailure
  <2>3. pc \in {"quit", "exit", "ub"} => pc' \in {"quit", "exit", "ub"}
    <3>1. CleanInv'
      BY <1>0, SignalClean DEF Signal
    <3> QED BY <2>1, <3>1 DEF CleanInv, Place
  <2>4. pc' \in {"quit", "exit", "ub"} \/ OkSent' \/ NoNew(fs')
    <3> SUFFICES ASSUME pc' \notin {"quit", "exit", "ub"}, ~OkSent' PROVE NoNew(fs')
      OBVIOUS
    <3>1. pc \notin {"quit", "exit", "ub"}
      BY <2>3
    <3>2. CASE FirstError
      <4>1. ~OkSent /\ childendinerror = 0
        BY <1>2, <3>2 DEF FirstError
      <4>2. CASE state = "RECEIVING"
        <5>1. fs' = Unlink(Real)
          BY <1>0, <2>1, <3>2, <4>2 DEF FileInv, KindOfState
        <5>2. \A x \in Paths : fs[x] = "new" => x = Real
          BY <1>0, <3>1, <4>1 DEF FileInv, NewFile
        <5> QED BY <1>0, <5>1, <5>2, RemovedFile DEF NoNew
      <4>3. CASE state = "SENDING"
        <5>1. NoNew(fs)
          BY <3>1, <4>1, <4>3, NoFileYet
        <5> QED BY <1>0, <2>1, <5>1, RemovedFile DEF NoNew
      <4> QED BY <1>1, <4>2, <4>3 DEF Started
    <3>3. CASE ~FirstError
      <4>1. childendinerror = 1 /\ ~OkSent /\ fs' = fs
        BY <1>0, <2>1, <2>2, <3>3, OkOfSent DEF FirstError, TypeInv, ValueInv, ValueType
      <4> QED BY <1>1, <3>1, <4>1, NoFileYet DEF Started
    <3> QED BY <3>2, <3>3
  <2>5. ~StartLoop'
    BY <1>1, <2>1 DEF StartLoop
  <2>6. CASE state' = "LOGGED"
    BY <2>1, <2>4, <2>5, <2>6, EndedFile
  <2>7. CASE state' = state /\ childendinerror' = 1 /\ unlinkfile' = unlinkfile
    <3>1. KindOfState' /\ NotSimulated'
      BY <1>0, <2>1, <2>5, <2>7 DEF FileInv, KindOfState, NotSimulated
    <3>2. NewFile'
      BY <2>4 DEF NewFile, NoNew
    <3> QED BY <3>1, <3>2 DEF FileInv
  <2> QED BY <2>1, <2>6, <2>7
<1> QED BY <1>1, <1>3, <1>4, <1>5

LEMMA ChildrenFile ==
  ASSUME SessionInv, NEW p \in Pids, Serve(p) \/ StreamFails(p) \/ ChildKilled(p)
  PROVE  FileInv'
<1>1. UNCHANGED fatherVars /\ (fs' = fs \/ fs' = ChildUnlink(p))
  BY DEF Serve, OpenFragment, OpenFails, Stream, StreamFails, ChildExit, ChildKilled, Die
<1>2. UNCHANGED <<pc, state, kindOf, cur, simOf, sent, childendinerror, unlinkfile>>
  BY <1>1 DEF fatherVars, ctlVars, memVars, flagVars, askVars
<1>3. \A x \in Paths : fs'[x] = "new" => fs[x] = "new"
  BY <1>1, RemovedFile DEF SessionInv
<1>4. (StartLoop' => StartLoop) /\ (pc' \in {"quit", "exit", "ub"} \/ pc \notin {"quit", "exit", "ub"})
  BY <1>2 DEF StartLoop
<1> QED BY <1>2, <1>3, <1>4, SameFile

LEMMA SessionInit == Init => SessionInv
<1> SUFFICES ASSUME Init PROVE FileInv
  BY TypeInit, AnswerInit, CleanInit DEF SessionInv
<1>1. state = "LOGGED" /\ pc = "top" /\ simOf = [t \in Transfers |-> FALSE]
  BY DEF Init
<1>2. \A x \in Paths : fs[x] # "new"
  BY DEF Init
<1> QED BY <1>1, <1>2 DEF FileInv, KindOfState, NotSimulated, NewFile, StartLoop
LEMMA SessionNext ==
  ASSUME Undisturbed, RealOnly PROVE SessionInv /\ [Next]_vars => SessionInv'
<1> SUFFICES ASSUME SessionInv, [Next]_vars PROVE SessionInv'
  OBVIOUS
<1>1. TypeInv' /\ AnswerInv' /\ CleanInv'
  BY TypeNext, AnswerNext, CleanNext DEF SessionInv, Undisturbed
<1>2. CASE UNCHANGED vars
  <2>1. UNCHANGED <<pc, state, kindOf, cur, simOf, sent, childendinerror, unlinkfile, fs>>
    BY <1>2 DEF vars
  <2>2. (StartLoop' => StartLoop) /\ (pc' \in {"quit", "exit", "ub"} \/ pc \notin {"quit", "exit", "ub"})
    BY <2>1 DEF StartLoop
  <2>3. FileInv'
    BY <2>1, <2>2, SameFile
  <2> QED BY <1>1, <2>3 DEF SessionInv
<1>3. CASE Sigterm
  <2>1. pc' \in {"exit", "ub"} /\ UNCHANGED <<state, kindOf, cur, simOf, unlinkfile>>
    BY <1>3 DEF Sigterm, CleanChildThen, ctlVars, askVars
  <2>2. FileInv'
    BY <2>1, EndedFile DEF StartLoop
  <2> QED BY <1>1, <2>2 DEF SessionInv
<1> QED
  BY <1>1, <1>2, <1>3, ControlFile, EngineFile, SignalFile, ChildrenFile DEF Next, Gone, SessionInv

\* A store that was refused, that failed or that was aborted leaves nothing of its file,
\* neither under the temporary nor under the final name, when the session is ready again:
\* bbftpd_sigchld removes it at the first error, a child that fails removes it before it
\* ends, and an abort or a failed utime, chmod or rename removes it too.  It holds for any
\* number of streams and with or without a temporary name, for a store that is not
\* simulated; without memory for the buffers the file stays (do_msg_filename_store).
THEOREM FailureLeavesNoFileHolds ==
  ASSUME Undisturbed, RealOnly PROVE Spec => []FailureLeavesNoFile
<1>1. SessionInv => FailureLeavesNoFile
  BY DEF SessionInv, FileInv, NewFile, FailureLeavesNoFile, Ready
<1> QED BY <1>1, SessionInit, SessionNext, PTL DEF Spec

=============================================================================
