--------------------------- MODULE AtomicStoreProof ---------------------------
(***************************************************************************)
(* With temporary names and no simulated transfers, Transfer implements    *)
(* AtomicStore, and MSG_OK means that the file is complete, for every      *)
(* number of streams and transfers, protocol 2 and 3, and a client that    *)
(* does not wait between two requests.  Children may be killed before all  *)
(* are started, and starting them may fail: a request may then be told     *)
(* twice that it failed, which OneAnswerHolds excludes, but never          *)
(* anything else.  Only a start that takes longer than the children wait   *)
(* is left aside: with it MSG_OK is said of a part of the streams.         *)
(***************************************************************************)
EXTENDS TransferProof, SequenceTheorems

Assumed == /\ "slow" \notin Faults
           /\ "tmp" \in Options /\ TRUE \notin Simulations

-----------------------------------------------------------------------------
(* The answers, when children may be killed before all are started: the    *)
(* handler may then tell the client of the failure, and even finish the    *)
(* transfer, while the father is still in the fork loop.                   *)

\* A request that was answered MSG_OK gets no other answer.
FewAnswers ==
  /\ sent \in {<<>>, <<"OK">>, <<"BAD">>, <<"BAD", "BAD">>}
  /\ NotStarted => sent = <<>>
  /\ Forking => sent \in {<<>>, <<"BAD">>}

\* In the fork loop a child waits or was killed: it has received nothing.
ChildrenEarly ==
  \A p \in Pids : /\ NotStarted /\ p[1] = cur => child[p] = "none"
                  /\ Forking /\ p[1] = cur => child[p] \in {"none", "waiting", "bad", "reaped"}
                  /\ p[1] > cur => child[p] = "none"

\* As long as the handler could answer nothing was sent, and in the fork loop an error,
\* or a transfer the handler has finished, was reported.
FailureSaid ==
  /\ allocated /\ childendinerror = 0 /\ (nbpidchild > 0 \/ Forking) => sent = <<>>
  /\ Forking /\ (childendinerror = 1 \/ state = "LOGGED") => sent # <<>>

EarlyInv == FewAnswers /\ NothingCounted /\ NoSlotYet /\ OwnSlots /\ ChildrenEarly /\ FailureSaid

-----------------------------------------------------------------------------
InTransfer == state \in {"RECEIVING", "SENDING"}

\* The state tells what was asked for, ...
KindKnown ==
  /\ state \in {"WAITING_FILENAME_STORE", "WAITING_STORE_START", "RECEIVING"} =>
       kindOf[cur] = "store"
  /\ state \in {"WAITING_FILENAME_RETR", "WAITING_CREATE_ZERO", "WAITING_RETR_START", "SENDING"} =>
       kindOf[cur] = "retr"
  /\ Forking => /\ state \in {"WAITING_STORE_START", "WAITING_RETR_START", "LOGGED"}
                /\ allocated => state # "LOGGED"
                /\ kindOf[cur] # "none"
  /\ pc \in {"failed", "killed"} => ~InTransfer
  /\ \A t \in Transfers : ~simOf[t]

\* ... and unlinkfile tells the handler the same, as long as there is something to free.
FlagKnown ==
  (Forking \/ InTransfer) /\ allocated => unlinkfile = IF kindOf[cur] = "store" THEN 1 ELSE 3

\* The temporary file is the one of this request, or it is gone.
TmpIsNew ==
  /\ state \in {"WAITING_STORE_START", "RECEIVING"} => fs["tmp"] # "old"
  /\ Forking /\ kindOf[cur] = "store" => fs["tmp"] # "old"

\* The handler has nobody to wait for outside of a transfer, ...
CountedInTransfer ==
  /\ pc \in {"quit", "unread"} /\ ~InTransfer => nbpidchild = 0
  /\ pc \in {"failed", "killed"} => sent # <<>>

\* ... and in one that was interrupted it finds no file to rename.
NothingToRename ==
  /\ pc = "loop" /\ InTransfer => timeout = 0
  /\ pc = "quit" /\ nbpidchild > 0 /\ allocated /\ state = "RECEIVING" => fs["tmp"] = "absent"

AtomicInv == KindKnown /\ FlagKnown /\ TmpIsNew /\ CountedInTransfer /\ NothingToRename

-----------------------------------------------------------------------------

\* While the globals are there and no child was found to have failed, every stream up to
\* the one being started has its slot.
SlotsFilled ==
  /\ pc \in {"spawn", "forked", "counted"} /\ allocated /\ childendinerror = 0 =>
       \A s \in Streams : s < i => mychildren[s] = <<cur, s>>
  /\ pc \in {"spawn", "forked"} /\ allocated => nbpidchild = i - 1
  /\ pc = "counted" /\ allocated => nbpidchild = i

\* Afterwards, while no child was found to have failed, a slot is empty only if its stream
\* was received.
Counting == InTransfer /\ allocated /\ childendinerror = 0 /\ Running

CollectedIsReceived ==
  Counting =>
    /\ nbpidchild = N
    /\ \A s \in Streams : mychildren[s] = <<cur, s>> \/ (mychildren[s] = NoPid /\ s \in recvd)

\* A child that ends well has received its stream.
DoneIsReceived ==
  \A s \in Streams : cur > 0 /\ child[<<cur, s>>] \in {"done", "ok"} => s \in recvd

OkIsComplete ==
  sent = <<"OK">> => recvd = Streams /\ (kindOf[cur] = "store" => fs["cur"] = "new")

CompleteInv == SlotsFilled /\ CollectedIsReceived /\ DoneIsReceived /\ OkIsComplete

-----------------------------------------------------------------------------
(* EarlyInv is inductive.                                                  *)

LEMMA Twice == Append(<<"BAD">>, "BAD") = <<"BAD", "BAD">>
<1> DEFINE q == Append(<<"BAD">>, "BAD")
           p == <<"BAD", "BAD">>
           S == {"BAD"}
<1>1. <<"BAD">> \in Seq(S) /\ p \in Seq(S) /\ "BAD" \in S
  OBVIOUS
<1>2. /\ Len(<<"BAD">>) = 1 /\ <<"BAD">>[1] = "BAD"
      /\ Len(p) = 2 /\ p[1] = "BAD" /\ p[2] = "BAD"
  OBVIOUS
<1> HIDE DEF S, p
<1>3. q \in Seq(S) /\ Len(q) = 2 /\ q[1] = "BAD" /\ q[2] = "BAD"
  BY <1>1, <1>2, AppendProperties
<1> HIDE DEF q
<1>4. \A n \in 1..Len(q) : q[n] = p[n]
  BY <1>2, <1>3
<1>5. q = p
  BY <1>1, <1>2, <1>3, <1>4, SeqEqual
<1> QED BY <1>5 DEF q, p

LEMMA Answers == /\ Append(<<>>, "OK") = <<"OK">> /\ Append(<<>>, "BAD") = <<"BAD">>
                 /\ <<"OK">> # <<>> /\ <<"BAD">> # <<>> /\ <<"BAD">> # <<"OK">>
OBVIOUS

LEMMA TwiceIsBad == <<"BAD", "BAD">> # <<>> /\ <<"BAD", "BAD">> # <<"OK">> /\ <<"BAD", "BAD">>[1] = "BAD"
<1>1. <<"BAD", "BAD">>[1] = "BAD" /\ Len(<<"BAD", "BAD">>) = 2
  OBVIOUS
<1>2. Len(<<>>) = 0 /\ Len(<<"OK">>) = 1
  OBVIOUS
<1> QED BY <1>1, <1>2

\* A first answer, and one more failure.
LEMMA AnswersAreFew ==
  ASSUME \/ sent' = sent /\ FewAnswers
         \/ sent = <<>> /\ (sent' = Append(sent, "OK") \/ sent' = Append(sent, "BAD"))
         \/ sent = <<"BAD">> /\ sent' = Append(sent, "BAD"),
         ~NotStarted', ~Forking'
  PROVE  FewAnswers'
<1>1. sent' \in {<<>>, <<"OK">>, <<"BAD">>, <<"BAD", "BAD">>}
  <2>1. CASE sent' = sent /\ FewAnswers
    BY <2>1 DEF FewAnswers
  <2>2. CASE sent = <<>> /\ (sent' = Append(sent, "OK") \/ sent' = Append(sent, "BAD"))
    BY <2>2, Answers
  <2>3. CASE sent = <<"BAD">> /\ sent' = Append(sent, "BAD")
    BY <2>3, Twice
  <2> QED BY <2>1, <2>2, <2>3
<1> QED BY <1>1 DEF FewAnswers

LEMMA EarlyInit == Init => EarlyInv
BY DEF Init, EarlyInv, FewAnswers, NotStarted, Forking, NothingCounted, NoSlotYet, OwnSlots,
       ChildrenEarly, FailureSaid

\* Steps of the father that concern no child.
LEMMA ControlEarly == ASSUME TypeInv, EarlyInv, Control PROVE EarlyInv'
<1> USE DEF EarlyInv, NotStarted, Forking, NothingCounted, NoSlotYet, OwnSlots, ChildrenEarly,
            FailureSaid, InState, FreeAllVar, ctlVars, memVars, flagVars, askVars
<1>1. CASE Select
  BY <1>1 DEF Select, FewAnswers
<1>2. CASE \E kind \in Kinds : Request(kind)
  BY <1>2, ChoicesAssumption DEF Request, FewAnswers, TypeInv, ValueInv, ValueType, Pids, Transfers
<1>3. CASE StoreRefused \/ StoreEmpty \/ StoreNoMemory \/ RetrRefused
  <2>1. /\ nbpidchild' = 0 /\ state' = "LOGGED" /\ pc' \in {"top", "exit"}
        /\ sent' = Append(sent, "OK") \/ sent' = Append(sent, "BAD") \/ sent' = sent
        /\ sent = <<>>
        /\ UNCHANGED <<cur, child>>
    BY <1>3 DEF StoreRefused, StoreEmpty, StoreNoMemory, RetrRefused, ReplyThen, Answer, FewAnswers
  <2>2. FewAnswers'
    BY <2>1, AnswersAreFew
  <2> QED BY <2>1, <2>2
<1>4. CASE StoreAccepted \/ RetrAccepted
  BY <1>4, PidsAreNotZero DEF StoreAccepted, RetrAccepted, Allocate, FewAnswers
<1>5. CASE StoreNoSocket \/ RetrNoSocket \/ RetrEmpty \/ CreateZero
  BY <1>5 DEF StoreNoSocket, RetrNoSocket, RetrEmpty, CreateZero, FewAnswers
<1>6. CASE \E sim \in BOOLEAN : TransStart(sim)
  BY <1>6 DEF TransStart, WaitingStart, FewAnswers
<1>7. CASE TransStartFreed \/ FreedName \/ AbortStart
  BY <1>7 DEF TransStartFreed, FreedName, AbortStart, WaitingStart, FewAnswers
<1>8. CASE InvalidMessage \/ NameUnread
  <2>1. /\ pc' \in {"quit", "exit", "unread"} /\ nbpidchild' = 0
        /\ UNCHANGED <<cur, child>>
        /\ sent' = sent \/ (sent = <<>> /\ sent' = Append(sent, "BAD"))
    BY <1>8 DEF InvalidMessage, NameUnread, ReplyThen, WaitingStart, FewAnswers, TypeInv, ValueInv, ValueType
  <2>2. FewAnswers'
    BY <2>1, AnswersAreFew
  <2> QED BY <2>1, <2>2
<1>9. CASE InterruptTransfer \/ Disconnect \/ IdleTimeout \/ CloseConn
  BY <1>9 DEF InterruptTransfer, Disconnect, IdleTimeout, CloseConn, FewAnswers
<1>10. CASE Exit
  BY <1>10 DEF Exit, CleanChildThen, CleanChild, KilledBy, Victims, Live, FewAnswers
<1> QED
  BY <1>1, <1>2, <1>3, <1>4, <1>5, <1>6, <1>7, <1>8, <1>9, <1>10 DEF Control

\* The father while it starts the children.
LEMMA EngineEarly == ASSUME TypeInv, EarlyInv, Engine PROVE EarlyInv'
<1> USE DEF EarlyInv, NotStarted, Forking, NothingCounted, NoSlotYet, OwnSlots, ChildrenEarly,
            FailureSaid, FreeAllVar, ctlVars, memVars, flagVars, askVars
<1>1. CASE Spawn
  <2>1. /\ pc = "spawn" /\ pc' \in {"forked", "ub"}
        /\ \A p \in Pids : child'[p] = child[p] \/ (p[1] = cur /\ child'[p] = "waiting")
        /\ UNCHANGED <<state, cur, sent, mychildren, allocated, nbpidchild, childendinerror>>
    <3>1. child' = [child EXCEPT ![<<cur, i>>] = "waiting"] \/ child' = child
      BY <1>1 DEF Spawn
    <3>2. ASSUME NEW p \in Pids
          PROVE  child'[p] = child[p] \/ (p = <<cur, i>> /\ child'[p] = "waiting")
      <4>1. child \in ChildType
        BY DEF TypeInv, ValueInv, ValueType
      <4> QED BY <3>1, <4>1 DEF ChildType
    <3>3. ASSUME NEW p \in Pids, p = <<cur, i>>
          PROVE  p[1] = cur
      BY <3>3
    <3>4. /\ pc = "spawn" /\ pc' \in {"forked", "ub"}
          /\ UNCHANGED <<state, cur, sent, mychildren, allocated, nbpidchild, childendinerror>>
      BY <1>1 DEF Spawn
    <3> QED BY <3>2, <3>3, <3>4
  <2>2. ChildrenEarly'
    <3>1. ASSUME NEW p \in Pids
          PROVE  /\ (NotStarted /\ p[1] = cur => child[p] = "none")'
                 /\ (Forking /\ p[1] = cur => child[p] \in {"none", "waiting", "bad", "reaped"})'
                 /\ (p[1] > cur => child[p] = "none")'
      <4>1. cur \in Nat /\ p[1] \in Nat
        BY DEF TypeInv, ValueInv, ValueType, Pids, Transfers
      <4>2. ~NotStarted'
        BY <2>1
      <4>3. Forking /\ p[1] = cur => child[p] \in {"none", "waiting", "bad", "reaped"}
        OBVIOUS
      <4> QED BY <2>1, <4>1, <4>2, <4>3
    <3> QED BY <3>1
  <2>3. FewAnswers' /\ NothingCounted' /\ NoSlotYet'
    BY <2>1 DEF FewAnswers
  <2>4. OwnSlots' /\ FailureSaid'
    BY <2>1
  <2> QED BY <2>2, <2>3, <2>4
<1>2. CASE SpawnFails
  BY <1>2 DEF SpawnFails, FewAnswers
<1>3. CASE Report
  <2>1. sent \in {<<>>, <<"BAD">>} /\ (sent' = Append(sent, "BAD") \/ sent' = sent)
    BY <1>3 DEF Report, FewAnswers
  <2>2. \A p \in Pids : p[1] > cur => child'[p] = "none"
    BY <1>3 DEF Report, CleanChildThen, CleanChild, KilledBy, Victims, Live
  <2>3. pc' \in {"failed", "exit", "ub"} /\ childendinerror' = 1 /\ cur' = cur
    BY <1>3 DEF Report, CleanChildThen
  <2>4. FewAnswers'
    BY <2>1, <2>3, AnswersAreFew
  <2> QED BY <2>2, <2>3, <2>4
<1>4. CASE KillStarted
  BY <1>4 DEF KillStarted, CleanChildThen, CleanChild, KilledBy, Victims, Live, FewAnswers
<1>5. CASE GiveUp
  BY <1>5 DEF GiveUp, FewAnswers
<1>6. CASE Count
  BY <1>6 DEF Count, FewAnswers
<1>7. CASE Record
  BY <1>7 DEF Record, FewAnswers, TypeInv, ValueInv, ValueType, SlotType
<1>8. CASE AllForked
  BY <1>8 DEF AllForked, FewAnswers
<1>9. CASE Release
  BY <1>9 DEF Release, FewAnswers
<1>10. CASE Released
  BY <1>10 DEF Released, FewAnswers
<1> QED
  BY <1>1, <1>2, <1>3, <1>4, <1>5, <1>6, <1>7, <1>8, <1>9, <1>10 DEF Engine

\* Before the children are released the handler finds none that ended well, and before a
\* transfer starts it finds none at all.
LEMMA NoSuccessYet ==
  ASSUME TypeInv, EarlyInv, SigchldCollects
  PROVE  /\ ~NotStarted
         /\ Forking => Collected = CollectedBad /\ ~SigchldSuccess
<1>1. ~NotStarted
  BY DEF SigchldCollects, AllEnded, EarlyInv, NothingCounted, NotStarted
<1>2. ASSUME Forking PROVE Collected \subseteq CollectedBad
  <2> SUFFICES ASSUME NEW s \in Collected PROVE s \in CollectedBad
    OBVIOUS
  <2>1. s \in Streams
    BY NAssumption DEF Collected, Slots, TypeInv, ValueInv, ValueType, Streams
  <2>2. mychildren[s] \in Pids /\ child[mychildren[s]] \in {"none", "waiting", "bad", "reaped"}
    BY <1>2, <2>1 DEF Collected, EarlyInv, OwnSlots, ChildrenEarly
  <2> QED BY <2>2 DEF Collected, CollectedBad, Zombie
<1>3. ASSUME Forking PROVE ~SigchldSuccess
  <2> SUFFICES ASSUME SigchldSuccess PROVE FALSE
    OBVIOUS
  <2>1. CollectedBad = {} /\ Left = {} /\ allocated
    BY DEF SigchldSuccess, SigchldCollects, InError
  <2>2. Collected = {}
    BY <1>2, <1>3, <2>1
  <2> QED BY <2>1, <2>2 DEF SigchldCollects, AllEnded, Left
<1> QED BY <1>1, <1>2, <1>3 DEF CollectedBad

\* A failure that the handler finds is reported, once.
LEMMA FailureTold ==
  ASSUME TypeInv, EarlyInv, SigchldFailure
  PROVE  /\ \/ UNCHANGED sent
            \/ sent = <<>> /\ sent' = Append(sent, "BAD")
         /\ pc' \in {pc, "exit", "ub"}
         /\ Forking' => Forking /\ sent' # <<>>
         /\ \/ childendinerror' = 1 /\ nbpidchild' = nbpidchild /\ state' = state
               /\ UNCHANGED allocated
            \/ nbpidchild' = 0 /\ state' = "LOGGED" /\ ~allocated'
<1>1. /\ SigchldCollects /\ allocated /\ Running /\ nbpidchild > 0
      /\ childendinerror \in {0, 1}
  BY DEF SigchldFailure, SigchldCollects, SigchldRaised, AllEnded, TypeInv, ValueInv, ValueType
<1>2. FirstError => sent = <<>>
  BY <1>1 DEF FirstError, EarlyInv, FailureSaid
<1>3. pc' \in {pc, "exit", "ub"}
  BY DEF SigchldFailure
<1>4. \/ UNCHANGED sent /\ (~FirstError \/ pc' \in {"exit", "ub"})
      \/ FirstError /\ sent' = Told("BAD") /\ UNCHANGED pc
  BY DEF SigchldFailure
<1>5. \/ UNCHANGED sent
      \/ sent = <<>> /\ sent' = Append(sent, "BAD")
  BY <1>2, <1>4 DEF Told
<1>6. ASSUME Forking' PROVE Forking /\ sent' # <<>>
  <2>1. Forking /\ pc # "quit" /\ pc' \notin {"exit", "ub"}
    BY <1>3, <1>6 DEF Forking
  <2>2. CASE ~FirstError /\ UNCHANGED sent
    BY <1>1, <2>1, <2>2 DEF FirstError, EarlyInv, FailureSaid
  <2>3. CASE FirstError /\ sent' = Told("BAD")
    BY <1>2, <2>1, <2>3, Answers DEF Told
  <2> QED BY <1>4, <2>1, <2>2, <2>3
<1>7. \/ childendinerror' = 1 /\ nbpidchild' = nbpidchild /\ state' = state /\ UNCHANGED allocated
      \/ nbpidchild' = 0 /\ state' = "LOGGED" /\ ~allocated'
  <2>1. CASE Left = {}
    BY <2>1 DEF SigchldFailure, FreeAllVar
  <2>2. CASE Left # {}
    BY <2>2 DEF SigchldFailure
  <2> QED BY <2>1, <2>2
<1> QED BY <1>3, <1>5, <1>6, <1>7

\* The handler.
LEMMA SignalEarly == ASSUME TypeInv, EarlyInv, Signal PROVE EarlyInv'
<1> USE DEF EarlyInv, NotStarted, Forking, NothingCounted, NoSlotYet, OwnSlots, ChildrenEarly,
            FailureSaid, FreeAllVar, ctlVars, memVars, flagVars, askVars
<1>1. CASE SigchldNone \/ SigchldFreed
  BY <1>1 DEF SigchldNone, SigchldFreed, FewAnswers
<1>2. ASSUME NEW p \in Pids, child[p] \in {"none", "waiting", "reaped"}
      PROVE  Reaped[p] = child[p]
  BY <1>2, NotZombieNotReaped DEF Zombie
<1>3. ASSUME NEW p \in Pids PROVE Reaped[p] \in {child[p], "reaped"}
  BY DEF Reaped
<1>4. CASE SigchldPart
  <2>1. UNCHANGED <<pc, state, cur, sent, childendinerror, nbpidchild, allocated>> /\ child' = Reaped
    BY <1>4 DEF SigchldPart
  <2>2. \A s \in Streams : mychildren'[s] \in {mychildren[s], NoPid}
    BY <1>4 DEF SigchldPart, SlotsLeft
  <2>3. NoSlotYet' /\ OwnSlots'
    BY <2>1, <2>2, PidsAreNotZero
  <2>4. ChildrenEarly'
    BY <1>2, <1>3, <2>1
  <2> QED BY <2>1, <2>3, <2>4 DEF FewAnswers
<1>5. CASE SigchldSuccess
  <2>1. ~(NotStarted \/ Forking)
    BY <1>5, NoSuccessYet DEF SigchldSuccess
  <2>2. sent = <<>>
    BY <1>5 DEF SigchldSuccess, SigchldCollects, AllEnded, InError, TypeInv, ValueInv, ValueType
  <2>3. /\ nbpidchild' = 0 /\ state' = "LOGGED" /\ pc' \in {pc, "exit"}
        /\ UNCHANGED cur /\ child' = Reaped
        /\ sent' = sent \/ sent' = Append(sent, "OK") \/ sent' = Append(sent, "BAD")
    BY <1>5 DEF SigchldSuccess, Told, Answer
  <2>4. FewAnswers'
    BY <2>1, <2>2, <2>3, AnswersAreFew
  <2>5. \A p \in Pids : p[1] > cur => child'[p] = "none"
    BY <1>2, <2>3
  <2> QED BY <2>1, <2>3, <2>4, <2>5
<1>6. CASE SigchldFailure
  <2>1. ~NotStarted
    BY <1>6, NoSuccessYet DEF SigchldFailure
  <2>2. /\ \/ UNCHANGED sent
           \/ sent = <<>> /\ sent' = Append(sent, "BAD")
        /\ pc' \in {pc, "exit", "ub"}
        /\ Forking' => Forking /\ sent' # <<>>
        /\ \/ childendinerror' = 1 /\ nbpidchild' = nbpidchild /\ state' = state
              /\ UNCHANGED allocated
           \/ nbpidchild' = 0 /\ state' = "LOGGED" /\ ~allocated'
    BY <1>6, FailureTold
  <2>3. UNCHANGED cur /\ child' = KilledBy(Victims, Reaped)
    BY <1>6 DEF SigchldFailure
  <2>4. ASSUME NEW p \in Pids
        PROVE  /\ child[p] = "none" => child'[p] = "none"
               /\ child[p] \in {"none", "waiting", "bad", "reaped"}
                    => child'[p] \in {"none", "waiting", "bad", "reaped"}
    BY <1>2, <1>3, <2>3 DEF KilledBy, Victims, Live
  <2>5. ChildrenEarly'
    BY <2>1, <2>2, <2>3, <2>4
  <2>6. \A s \in Streams : mychildren'[s] \in {mychildren[s], NoPid}
    BY <1>6 DEF SigchldFailure, SlotsLeft
  <2>7. OwnSlots'
    BY <2>2, <2>3, <2>6, PidsAreNotZero
  <2>8. ~NotStarted'
    BY <2>1, <2>2
  <2>9. FewAnswers'
    BY <2>2, <2>8, Answers DEF FewAnswers
  <2>10. NothingCounted' /\ NoSlotYet' /\ FailureSaid'
    BY <2>1, <2>2
  <2> QED BY <2>5, <2>7, <2>9, <2>10
<1> QED BY <1>1, <1>4, <1>5, <1>6 DEF Signal

\* The children: one that is not released can only be killed.
LEMMA ServeEarly ==
  ASSUME "slow" \notin Faults, TypeInv, EarlyInv,
         NEW p \in Pids, Serve(p) \/ StreamFails(p) \/ ChildKilled(p)
  PROVE  EarlyInv'
<1> USE DEF EarlyInv, NotStarted, Forking, NothingCounted, NoSlotYet, OwnSlots, ChildrenEarly,
            FailureSaid
<1>1. child[p] \notin {"none", "bad", "reaped"}
  BY DEF Serve, OpenFragment, OpenFails, MayStart, Stream, StreamFails, ChildExit, ChildKilled, Live
<1>2. \E life : child' = [child EXCEPT ![p] = life]
  BY DEF Serve, OpenFragment, OpenFails, Stream, StreamFails, ChildExit, ChildKilled, Die
<1>3. UNCHANGED fatherVars
  BY DEF Serve, OpenFragment, OpenFails, Stream, StreamFails, ChildExit, ChildKilled, Die
<1>4. ASSUME Forking, p[1] = cur PROVE child' = [child EXCEPT ![p] = "bad"]
  <2>1. child[p] = "waiting"
    BY <1>1, <1>4
  <2>2. ~MayStart(p)
    BY <1>4, <2>1 DEF MayStart, Starting
  <2> QED
    BY <2>1, <2>2 DEF Serve, OpenFragment, OpenFails, Stream, StreamFails, ChildExit, ChildKilled, Die
<1>5. ~(NotStarted /\ p[1] = cur) /\ ~(p[1] > cur)
  BY <1>1
<1>6. ChildrenEarly'
  <2>1. child \in ChildType
    BY DEF TypeInv, ValueInv, ValueType
  <2> QED BY <1>2, <1>3, <1>4, <1>5, <2>1 DEF fatherVars, ctlVars, askVars, ChildType
<1> QED BY <1>3, <1>6 DEF fatherVars, ctlVars, memVars, flagVars, askVars, FewAnswers

LEMMA EarlyNext ==
  ASSUME "slow" \notin Faults, TypeInv, EarlyInv, [Next]_vars
  PROVE  EarlyInv'
<1>1. CASE Sigterm
  <2>1. /\ pc' \in {"exit", "ub"}
        /\ UNCHANGED <<allocated, nbpidchild, childendinerror, cur, sent>>
    BY <1>1 DEF Sigterm, CleanChildThen, memVars, askVars
  <2>2. \A p \in Pids : p[1] > cur => child'[p] = "none"
    BY <1>1 DEF Sigterm, CleanChildThen, CleanChild, KilledBy, Victims, Live, EarlyInv, ChildrenEarly
  <2> QED BY <2>1, <2>2
      DEF EarlyInv, FewAnswers, NotStarted, Forking, NothingCounted, NoSlotYet, OwnSlots,
          ChildrenEarly, FailureSaid
<1>2. CASE UNCHANGED vars
  BY <1>2 DEF vars, EarlyInv, FewAnswers, NotStarted, Forking, NothingCounted, NoSlotYet, OwnSlots,
      ChildrenEarly, FailureSaid
<1> QED
  BY <1>1, <1>2, ControlEarly, EngineEarly, SignalEarly, ServeEarly DEF Next, Gone

\* What the client is told of a request stands: MSG_OK is its only answer, and a failure
\* is told twice at most (once by the father, when it cannot start a child, and once by the
\* handler, for the children it had started), also when a child ends in the fork loop.
THEOREM AnswerStands == ASSUME "slow" \notin Faults PROVE Spec => []FewAnswers
<1>1. Init => TypeInv /\ EarlyInv
  BY TypeInit, EarlyInit
<1>2. TypeInv /\ EarlyInv /\ [Next]_vars => (TypeInv /\ EarlyInv)'
  BY TypeNext, EarlyNext
<1>3. EarlyInv => FewAnswers
  BY DEF EarlyInv
<1> QED BY <1>1, <1>2, <1>3, PTL DEF Spec

-----------------------------------------------------------------------------
(* The two paths.                                                          *)

LEMMA RealIsTmp == ASSUME Assumed PROVE Real = "tmp"
BY DEF Assumed, Real

LEMMA UnlinkTmp ==
  ASSUME Assumed, ValueType
  PROVE  /\ Unlink(Real)["cur"] = fs["cur"] /\ Unlink(Real)["tmp"] = "absent"
         /\ UnlinkReal["cur"] = fs["cur"] /\ UnlinkReal["tmp"] \in {fs["tmp"], "absent"}
         /\ allocated => UnlinkReal["tmp"] = "absent"
BY RealIsTmp DEF Unlink, UnlinkReal, ValueType, FsType, Paths

LEMMA CreateTmp ==
  ASSUME Assumed, ValueType
  PROVE  /\ [fs EXCEPT ![Real] = "new"]["tmp"] = "new"
         /\ [fs EXCEPT ![Real] = "new"]["cur"] = fs["cur"]
         /\ [fs EXCEPT ![Real] = "new"] \in FsType
BY RealIsTmp DEF ValueType, FsType, Paths

LEMMA ProcessTmp ==
  ASSUME Assumed, NEW files \in FsType, NEW ok \in BOOLEAN
  PROVE  /\ ok => Processed(files, ok)["cur"] = files["tmp"]
         /\ ~ok => Processed(files, ok)["cur"] = files["cur"]
BY RealIsTmp DEF Processed, FsType, Paths

\* A file that is gone cannot be renamed.
LEMMA OutcomeTmp ==
  ASSUME Assumed, fs["tmp"] = "absent" PROVE ProcessOutcomes = {FALSE}
BY RealIsTmp DEF ProcessOutcomes, Assumed

LEMMA OutcomesAreBoolean == ProcessOutcomes \subseteq BOOLEAN
BY DEF ProcessOutcomes

\* What a child does to the file system and to the father.
LEMMA ServeFrame ==
  ASSUME Assumed, TypeInv, NEW p \in Pids, Serve(p) \/ StreamFails(p) \/ ChildKilled(p)
  PROVE  /\ UNCHANGED fatherVars
         /\ fs'["cur"] = fs["cur"] /\ fs'["tmp"] \in {fs["tmp"], "absent"}
<1>1. UNCHANGED fatherVars
  BY DEF Serve, OpenFragment, OpenFails, Stream, StreamFails, ChildExit, ChildKilled, Die
<1>2. fs' = fs \/ fs' = Unlink(Real)
  BY DEF Serve, OpenFragment, OpenFails, Stream, StreamFails, ChildExit, ChildKilled, Die,
         ChildUnlink
<1> QED BY <1>1, <1>2, UnlinkTmp DEF TypeInv, ValueInv

-----------------------------------------------------------------------------
(* The invariant.                                                          *)

LEMMA AtomicInit == Init => AtomicInv
BY DEF Init, AtomicInv, KindKnown, FlagKnown, TmpIsNew, CountedInTransfer, NothingToRename,
       InTransfer, Forking

\* The state was that of a request of the session.
LEMMA AskedFor ==
  ASSUME TypeInv, state # "LOGGED" PROVE cur \in Transfers
BY MaxTransfersAssumption DEF TypeInv, ValueInv, ValueType, Asked, Transfers

LEMMA ControlAtomic ==
  ASSUME Assumed, TypeInv, EarlyInv, AtomicInv, Control PROVE AtomicInv'
<1> USE DEF AtomicInv, KindKnown, FlagKnown, TmpIsNew, CountedInTransfer, NothingToRename,
            InTransfer, Forking, InState, WaitingStart, FreeAllVar, ctlVars, memVars, flagVars,
            askVars
<1>0. ValueType
  BY DEF TypeInv, ValueInv
<1>1. CASE Select
  BY <1>1 DEF Select, Timer
<1>2. CASE \E kind \in Kinds : Request(kind)
  <2>1. PICK kind \in Kinds : Request(kind)
    BY <1>2
  <2>2. kind \in {"store", "retr"} /\ kindOf'[cur'] = kind
    <3>1. cur + 1 \in Transfers /\ kindOf \in [Transfers -> {"none", "store", "retr"}]
      BY <2>1, MaxTransfersAssumption DEF Request, TypeInv, ValueInv, ValueType, Transfers
    <3>2. cur' = cur + 1 /\ kindOf' = [kindOf EXCEPT ![cur + 1] = kind]
      BY <2>1 DEF Request
    <3>3. kind \in {"store", "retr"}
      BY ChoicesAssumption
    <3> QED BY <3>1, <3>2, <3>3
  <2> QED BY <2>1, <2>2 DEF Request
<1>3. CASE StoreRefused \/ StoreEmpty \/ StoreNoMemory \/ RetrRefused
  <2>1. state' = "LOGGED" /\ pc' \in {"top", "exit"} /\ UNCHANGED simOf
    BY <1>3 DEF StoreRefused, StoreEmpty, StoreNoMemory, RetrRefused, ReplyThen
  <2> QED BY <2>1
<1>4. CASE StoreAccepted
  BY <1>0, <1>4, CreateTmp DEF StoreAccepted
<1>5. CASE RetrAccepted \/ RetrEmpty \/ CreateZero
  BY <1>5 DEF RetrAccepted, RetrEmpty, CreateZero
<1>6. CASE StoreNoSocket \/ RetrNoSocket
  BY <1>0, <1>6, UnlinkTmp DEF StoreNoSocket, RetrNoSocket
<1>7. CASE \E sim \in BOOLEAN : TransStart(sim)
  <2>1. PICK sim \in BOOLEAN : TransStart(sim)
    BY <1>7
  <2>2. sim = FALSE
    BY <2>1 DEF TransStart, Assumed
  <2>3. \A t \in Transfers : ~simOf'[t]
    BY <2>1, <2>2 DEF TransStart, TypeInv, ValueInv, ValueType
  <2> QED BY <2>1, <2>3 DEF TransStart
<1>8. CASE TransStartFreed \/ FreedName \/ NameUnread
  BY <1>8 DEF TransStartFreed, FreedName, NameUnread, ReplyThen, EarlyInv, NothingCounted
<1>9. CASE AbortStart
  BY <1>9 DEF AbortStart
<1>10. CASE InvalidMessage
  <2>1. fs' = fs \/ fs' = UnlinkReal
    BY <1>10 DEF InvalidMessage
  <2>2. nbpidchild' = 0 /\ pc' \in {"quit", "exit"} /\ ~InTransfer'
    BY <1>10 DEF InvalidMessage, ReplyThen, EarlyInv, NothingCounted
  <2>3. UNCHANGED <<state, unlinkfile, cur, kindOf, simOf>>
    BY <1>10 DEF InvalidMessage
  <2>4. fs'["tmp"] \in {fs["tmp"], "absent"}
    BY <1>0, <2>1, UnlinkTmp
  <2> QED BY <2>2, <2>3, <2>4
<1>11. CASE InterruptTransfer \/ Disconnect
  <2>1. /\ fs' = IF state \in {"RECEIVING"} THEN UnlinkReal ELSE fs'
        /\ fs' = fs \/ fs' = UnlinkReal
        /\ pc = "loop" /\ pc' = "quit" /\ UNCHANGED <<state, memVars, unlinkfile, cur, kindOf, simOf>>
    BY <1>11 DEF InterruptTransfer, Disconnect
  <2>2. fs'["tmp"] \in {fs["tmp"], "absent"}
    BY <1>0, <2>1, UnlinkTmp
  <2>3. allocated /\ state = "RECEIVING" => fs'["tmp"] = "absent"
    BY <1>0, <2>1, UnlinkTmp
  <2>4. ~InTransfer => nbpidchild = 0
    BY <2>1 DEF EarlyInv, NothingCounted
  <2> QED BY <2>1, <2>2, <2>3, <2>4
<1>12. CASE IdleTimeout \/ CloseConn
  <2>1. ~InTransfer
    BY <1>12 DEF IdleTimeout, CloseConn
  <2>2. /\ fs' = fs \/ fs' = UnlinkReal
        /\ pc = "loop" /\ pc' = "quit" /\ UNCHANGED <<state, memVars, unlinkfile, cur, kindOf, simOf>>
    BY <1>12 DEF IdleTimeout, CloseConn
  <2>3. fs'["tmp"] \in {fs["tmp"], "absent"}
    BY <1>0, <2>2, UnlinkTmp
  <2>4. nbpidchild = 0
    BY <2>1, <2>2 DEF EarlyInv, NothingCounted
  <2> QED BY <2>1, <2>2, <2>3, <2>4
<1>13. CASE Exit
  BY <1>13 DEF Exit, CleanChildThen
<1> QED BY <1>1, <1>2, <1>3, <1>4, <1>5, <1>6, <1>7, <1>8, <1>9, <1>10, <1>11, <1>12, <1>13
        DEF Control

LEMMA EngineAtomic ==
  ASSUME Assumed, TypeInv, EarlyInv, AtomicInv, Engine PROVE AtomicInv'
<1> USE DEF AtomicInv, KindKnown, FlagKnown, TmpIsNew, CountedInTransfer, NothingToRename,
            InTransfer, Forking, FreeAllVar, ctlVars, memVars, flagVars, askVars
<1>0. ValueType
  BY DEF TypeInv, ValueInv
<1>1. CASE Spawn
  BY <1>1 DEF Spawn
<1>2. CASE SpawnFails
  <2>1. fs' = fs \/ fs' = UnlinkReal
    BY <1>2 DEF SpawnFails
  <2>2. fs'["tmp"] \in {fs["tmp"], "absent"}
    BY <1>0, <2>1, UnlinkTmp
  <2>3. /\ pc' \in {"report", "failed"} /\ UNCHANGED <<state, unlinkfile, cur, kindOf, simOf>>
        /\ pc' = "failed" => sent # <<>>
    BY <1>2 DEF SpawnFails, EarlyInv, FailureSaid, TypeInv, ValueInv, ValueType
  <2> QED BY <1>2, <2>2, <2>3 DEF SpawnFails
<1>3. CASE Report
  <2>1. sent \in {<<>>, <<"BAD">>} /\ Append(sent, "BAD") # <<>>
    BY <1>3, Answers DEF Report, EarlyInv, FewAnswers
  <2>2. pc' \in {"failed", "exit", "ub"} /\ (pc' = "failed" => sent' # <<>>)
    BY <1>3, <2>1 DEF Report, CleanChildThen
  <2> QED BY <1>3, <2>2 DEF Report
<1>4. CASE KillStarted
  BY <1>4 DEF KillStarted, CleanChildThen
<1>5. CASE GiveUp
  BY <1>5 DEF GiveUp
<1>6. CASE Count
  BY <1>6 DEF Count
<1>7. CASE Record
  BY <1>7 DEF Record
<1>8. CASE AllForked
  <2>1. kindOf[cur] \in {"store", "retr"}
    <3>1. cur \in Transfers /\ kindOf[cur] # "none"
      BY <1>8, MaxTransfersAssumption DEF AllForked, TypeInv, ValueInv, ValueType, Asked, Transfers
    <3> QED BY <1>0, <3>1 DEF ValueType
  <2>2. /\ pc = "spawn" /\ pc' = "hup" /\ UNCHANGED <<allocated, unlinkfile, fs, cur, kindOf, simOf>>
        /\ state' = IF kindOf[cur] = "store" THEN "RECEIVING" ELSE "SENDING"
    BY <1>8 DEF AllForked
  <2> QED BY <2>1, <2>2
<1>9. CASE Release
  BY <1>9 DEF Release
<1>10. CASE Released
  <2>1. InTransfer => cur \in Transfers
    BY AskedFor
  <2> QED BY <1>10, <2>1 DEF Released
<1> QED BY <1>1, <1>2, <1>3, <1>4, <1>5, <1>6, <1>7, <1>8, <1>9, <1>10 DEF Engine

\* Outside of a transfer the handler answers nobody.
LEMMA AnswersInTransfer ==
  ASSUME TypeInv, EarlyInv, AtomicInv, SigchldCollects, ~(NotStarted \/ Forking),
         childendinerror = 0
  PROVE  InTransfer /\ sent = <<>> /\ nbpidchild > 0 /\ pc \notin {"failed", "killed"}
<1>1. nbpidchild > 0 /\ Running
  BY DEF SigchldCollects, SigchldRaised, AllEnded, TypeInv, ValueInv, ValueType
<1>2. sent = <<>>
  BY <1>1 DEF EarlyInv, FailureSaid, SigchldCollects
<1>3. pc \in {"top", "loop", "quit", "hup", "unread"}
  BY <1>1, <1>2 DEF Running, AtomicInv, CountedInTransfer, Forking, TypeInv, ValueInv, ValueType
<1> QED BY <1>1, <1>2, <1>3
        DEF EarlyInv, NothingCounted, AtomicInv, CountedInTransfer, InTransfer

LEMMA SignalAtomic ==
  ASSUME Assumed, TypeInv, EarlyInv, AtomicInv, Signal PROVE AtomicInv'
<1> USE DEF AtomicInv, KindKnown, FlagKnown, TmpIsNew, CountedInTransfer, NothingToRename,
            InTransfer, Forking, FreeAllVar, ctlVars, memVars, flagVars, askVars
<1>0. ValueType
  BY DEF TypeInv, ValueInv
<1>1. CASE SigchldNone \/ SigchldFreed
  BY <1>1 DEF SigchldNone, SigchldFreed
<1>2. CASE SigchldPart
  BY <1>2 DEF SigchldPart
<1>3. CASE SigchldSuccess \/ SigchldFailure
  <2>1. ~NotStarted
    BY <1>3, NoSuccessYet DEF SigchldSuccess, SigchldFailure
  <2>2. /\ pc' \in {pc, "exit", "ub"} /\ UNCHANGED <<cur, kindOf, simOf, timeout>>
        /\ \/ state' = "LOGGED" /\ nbpidchild' = 0 /\ ~allocated'
           \/ UNCHANGED <<state, unlinkfile, allocated, nbpidchild>> /\ SigchldFailure
    BY <1>3 DEF SigchldSuccess, SigchldFailure
  <2>3. pc' = pc => sent' = sent \/ sent' # <<>> \/ pc = "quit"
    <3>1. \A code \in {"OK", "BAD"} : pc = "quit" \/ Told(code) # <<>>
      <4>1. sent \in Seq({"OK", "BAD"})
        BY <1>0 DEF ValueType
      <4> QED BY <4>1 DEF Told
    <3>2. CASE SigchldSuccess
      BY <3>1, <3>2 DEF SigchldSuccess, Answer
    <3>3. CASE SigchldFailure
      <4>1. pc' = pc => sent' = sent \/ sent' = Told("BAD")
        BY <3>3 DEF SigchldFailure
      <4> QED BY <3>1, <4>1
    <3> QED BY <1>3, <3>2, <3>3
  <2>4. fs'["tmp"] \in {fs["tmp"], "absent"} \/ (state' = "LOGGED" /\ ~Forking')
    <3>1. CASE SigchldSuccess
      BY <2>2, <3>1, NoSuccessYet DEF SigchldSuccess
    <3>2. CASE SigchldFailure
      <4>1. fs' = fs \/ fs' = Unlink(Real)
        BY <3>2 DEF SigchldFailure
      <4> QED BY <1>0, <4>1, UnlinkTmp
    <3> QED BY <1>3, <3>1, <3>2
  <2>5. CASE state' = "LOGGED" /\ nbpidchild' = 0 /\ ~allocated'
    BY <2>1, <2>2, <2>3, <2>4, <2>5
  <2>6. CASE UNCHANGED <<state, unlinkfile, allocated, nbpidchild>> /\ SigchldFailure
    <3>1. fs'["tmp"] \in {fs["tmp"], "absent"}
      <4>1. fs' = fs \/ fs' = Unlink(Real)
        BY <2>6 DEF SigchldFailure
      <4> QED BY <1>0, <4>1, UnlinkTmp
    <3> QED BY <2>1, <2>2, <2>3, <2>6, <3>1
  <2> QED BY <2>2, <2>5, <2>6
<1> QED BY <1>1, <1>2, <1>3 DEF Signal

LEMMA AtomicNext ==
  ASSUME Assumed PROVE TypeInv /\ EarlyInv /\ AtomicInv /\ [Next]_vars => AtomicInv'
<1> SUFFICES ASSUME TypeInv, EarlyInv, AtomicInv, [Next]_vars PROVE AtomicInv'
  OBVIOUS
<1>1. CASE Control \/ Engine \/ Signal
  BY <1>1, ControlAtomic, EngineAtomic, SignalAtomic
<1>2. CASE Sigterm
  <2>1. /\ pc' \in {"exit", "ub"}
        /\ UNCHANGED <<state, timeout, memVars, unlinkfile, askVars, sent>>
    BY <1>2 DEF Sigterm, CleanChildThen, ctlVars
  <2>2. fs' = fs \/ fs' = UnlinkReal
    BY <1>2 DEF Sigterm
  <2>3. fs'["tmp"] \in {fs["tmp"], "absent"}
    BY <2>2, UnlinkTmp DEF TypeInv, ValueInv
  <2> QED BY <2>1, <2>3 DEF memVars, askVars, AtomicInv, KindKnown, FlagKnown, TmpIsNew,
             CountedInTransfer, NothingToRename, InTransfer, Forking
<1>3. ASSUME NEW p \in Pids, Serve(p) \/ StreamFails(p) \/ ChildKilled(p) PROVE AtomicInv'
  BY <1>3, ServeFrame DEF fatherVars, ctlVars, memVars, flagVars, askVars, AtomicInv, KindKnown,
     FlagKnown, TmpIsNew, CountedInTransfer, NothingToRename, InTransfer, Forking
<1>4. CASE UNCHANGED vars
  BY <1>4 DEF vars, AtomicInv, KindKnown, FlagKnown, TmpIsNew, CountedInTransfer, NothingToRename,
              InTransfer, Forking
<1> QED BY <1>1, <1>2, <1>3, <1>4 DEF Next, Gone

-----------------------------------------------------------------------------
(* MSG_OK.                                                                 *)

FullInv == TypeInv /\ EarlyInv /\ AtomicInv /\ CompleteInv

LEMMA CompleteInit == Init => CompleteInv
<1> SUFFICES ASSUME Init PROVE CompleteInv
  OBVIOUS
<1>1. pc = "top" /\ state = "LOGGED" /\ cur = 0 /\ sent = <<>>
  BY DEF Init
<1> QED BY <1>1, Answers DEF CompleteInv, SlotsFilled, CollectedIsReceived, Counting, DoneIsReceived,
                             OkIsComplete, InTransfer

\* A step that starts no child, and only says OK when the file is there.
LEMMA CalmComplete ==
  ASSUME CompleteInv, UNCHANGED cur,
         \A p \in Pids : child'[p] \in {"done", "ok"} => child'[p] = child[p],
         \A s \in Streams : cur > 0 => <<cur, s>> \in Pids,
         recvd \subseteq recvd', recvd' \subseteq Streams,
         pc' \notin {"spawn", "forked", "counted"},
         Counting' => Counting /\ UNCHANGED <<nbpidchild, mychildren>>,
         sent' = <<"OK">> =>
           \/ sent = <<"OK">> /\ fs'["cur"] = fs["cur"] /\ UNCHANGED kindOf
           \/ recvd' = Streams /\ (kindOf'[cur'] = "store" => fs'["cur"] = "new")
  PROVE  CompleteInv'
<1>1. SlotsFilled'
  BY DEF SlotsFilled
<1>2. CollectedIsReceived'
  BY DEF CompleteInv, CollectedIsReceived, Counting, InTransfer
<1>3. DoneIsReceived'
  BY DEF CompleteInv, DoneIsReceived
<1>4. OkIsComplete'
  BY DEF CompleteInv, OkIsComplete
<1> QED BY <1>1, <1>2, <1>3, <1>4 DEF CompleteInv

LEMMA CurrentPids == ASSUME TypeInv PROVE \A s \in Streams : cur > 0 => <<cur, s>> \in Pids
BY MaxTransfersAssumption DEF TypeInv, ValueInv, ValueType, Pids, Transfers

LEMMA CleanFrame ==
  ASSUME CleanChild PROVE \A p \in Pids : child'[p] \in {"done", "ok"} => child'[p] = child[p]
BY DEF CleanChild, KilledBy

\* The usual case: nothing is received, and no answer is given but MSG_BAD.
LEMMA QuietComplete ==
  ASSUME FullInv, UNCHANGED <<cur, recvd, kindOf>>, fs'["cur"] = fs["cur"],
         sent' = <<"OK">> => sent = <<"OK">>,
         UNCHANGED child \/ CleanChild,
         pc' \notin {"spawn", "forked", "counted"},
         Counting' => Counting /\ UNCHANGED <<nbpidchild, mychildren>>
  PROVE  CompleteInv'
<1>1. \A p \in Pids : child'[p] \in {"done", "ok"} => child'[p] = child[p]
  BY CleanFrame
<1>2. recvd \subseteq recvd' /\ recvd' \subseteq Streams
  BY DEF FullInv, TypeInv, ValueInv, ValueType
<1> QED BY <1>1, <1>2, CurrentPids, CalmComplete DEF FullInv

LEMMA RequestComplete == ASSUME Assumed, FullInv, NEW kind \in Kinds, Request(kind) PROVE CompleteInv'
<1>1. /\ cur' = cur + 1 /\ cur \in Nat /\ cur' \in Transfers /\ UNCHANGED child /\ pc' = "top"
      /\ sent' = <<>> /\ ~InTransfer'
  <2>1. cur \in Nat /\ cur + 1 \in Transfers
    BY MaxTransfersAssumption DEF Request, FullInv, TypeInv, ValueInv, ValueType, Transfers
  <2> QED BY <2>1 DEF Request, InTransfer
<1>2. \A s \in Streams : child'[<<cur', s>>] = "none"
  <2> SUFFICES ASSUME NEW s \in Streams PROVE child[<<cur + 1, s>>] = "none"
    BY <1>1
  <2>1. <<cur + 1, s>> \in Pids /\ <<cur + 1, s>>[1] > cur
    BY <1>1 DEF Pids
  <2> QED BY <2>1 DEF FullInv, EarlyInv, ChildrenEarly
<1>3. DoneIsReceived'
  BY <1>2 DEF DoneIsReceived
<1> QED BY <1>1, <1>3, Answers DEF CompleteInv, SlotsFilled, CollectedIsReceived, Counting, OkIsComplete

LEMMA ControlComplete == ASSUME Assumed, FullInv, Control PROVE CompleteInv'
<1>0. /\ CompleteInv /\ ValueType /\ recvd \subseteq Streams
      /\ \A s \in Streams : cur > 0 => <<cur, s>> \in Pids
  BY CurrentPids DEF FullInv, TypeInv, ValueInv, ValueType
<1>1. CASE \E kind \in Kinds : Request(kind)
  BY <1>1, RequestComplete
<1>2. CASE StoreRefused \/ StoreNoMemory \/ RetrRefused
  <2>1. sent = <<>>
    BY <1>2 DEF StoreRefused, StoreNoMemory, RetrRefused, InState, FullInv, EarlyInv, FewAnswers,
                NotStarted
  <2>2. /\ sent' # <<"OK">> /\ pc' \in {"top", "exit"} /\ state' = "LOGGED"
        /\ UNCHANGED <<cur, child, recvd>>
    BY <1>2, <2>1, Answers DEF StoreRefused, StoreNoMemory, RetrRefused, ReplyThen, askVars
  <2>9. Counting' => Counting /\ UNCHANGED <<nbpidchild, mychildren>>
    BY <1>0, <2>2 DEF Counting, InTransfer, Running
  <2> QED BY <1>0, <2>2, <2>9, CalmComplete
<1>3. CASE StoreEmpty
  <2>1. /\ pc' \in {"top", "exit"} /\ state' = "LOGGED" /\ recvd' = Streams
        /\ UNCHANGED <<cur, child, kindOf>>
    BY <1>3 DEF StoreEmpty, ReplyThen, askVars
  <2>2. sent = <<>>
    BY <1>3 DEF StoreEmpty, InState, FullInv, EarlyInv, FewAnswers, NotStarted
  <2>3. sent' = <<"OK">> => fs'["cur"] = "new"
    <3>1. PICK ok \in BOOLEAN : /\ fs' = Processed([fs EXCEPT ![Real] = "new"], ok)
                                /\ ReplyThen(Answer(ok), "top")
      BY <1>3 DEF StoreEmpty
    <3>2. sent' = <<"OK">> => ok
      BY <2>2, <3>1, Answers DEF ReplyThen, Answer
    <3> QED BY <1>0, <3>1, <3>2, CreateTmp, ProcessTmp
  <2>9. Counting' => Counting /\ UNCHANGED <<nbpidchild, mychildren>>
    BY <1>0, <2>1, <2>3 DEF Counting, InTransfer, Running
  <2> QED BY <1>0, <2>1, <2>3, <2>9, CalmComplete
<1>4. CASE StoreAccepted \/ RetrAccepted \/ RetrEmpty \/ CreateZero \/ AbortStart
  <2>1. /\ pc' = "top" /\ ~InTransfer' /\ UNCHANGED <<cur, child, recvd, sent, kindOf>>
        /\ fs' = fs \/ fs' = UnlinkReal \/ fs' = [fs EXCEPT ![Real] = "new"]
    BY <1>4 DEF StoreAccepted, RetrAccepted, RetrEmpty, CreateZero, AbortStart, askVars, InTransfer
  <2>2. fs'["cur"] = fs["cur"]
    BY <1>0, <2>1, UnlinkTmp, CreateTmp
  <2>9. Counting' => Counting /\ UNCHANGED <<nbpidchild, mychildren>>
    BY <2>1, <2>2 DEF Counting, InTransfer, Running
  <2> QED BY <2>1, <2>2, <2>9, QuietComplete
<1>5. CASE \E sim \in BOOLEAN : TransStart(sim)
  <2>1. /\ pc' = "spawn" /\ i' = 1 /\ nbpidchild' = 0 /\ ~InTransfer'
        /\ UNCHANGED <<cur, child, recvd, sent, kindOf, fs>>
    BY <1>5 DEF TransStart, WaitingStart, InState, ctlVars, InTransfer
  <2>2. SlotsFilled'
    BY <2>1 DEF SlotsFilled, Streams
  <2> QED BY <1>0, <2>1, <2>2 DEF CompleteInv, CollectedIsReceived, Counting, DoneIsReceived, OkIsComplete
<1>6. CASE StoreNoSocket \/ RetrNoSocket \/ TransStartFreed \/ FreedName \/ CloseConn
  <2>1. /\ pc' \in {"quit", "ub"} /\ UNCHANGED <<cur, child, recvd, sent, kindOf>>
        /\ pc' = "ub" \/ ~InTransfer'
        /\ fs' = fs \/ fs' = Unlink(Real)
    BY <1>6 DEF StoreNoSocket, RetrNoSocket, TransStartFreed, FreedName, CloseConn, WaitingStart,
                InState, ctlVars, askVars, InTransfer
  <2>2. fs'["cur"] = fs["cur"]
    BY <1>0, <2>1, UnlinkTmp
  <2>9. Counting' => Counting /\ UNCHANGED <<nbpidchild, mychildren>>
    BY <2>1, <2>2 DEF Counting, InTransfer, Running
  <2> QED BY <2>1, <2>2, <2>9, QuietComplete, Answers
<1>7. CASE InvalidMessage \/ NameUnread
  <2>1. /\ pc' \in {"quit", "exit", "unread"} /\ ~InTransfer'
        /\ UNCHANGED <<cur, child, recvd, kindOf>>
        /\ fs' = fs \/ fs' = UnlinkReal
        /\ sent' = sent \/ (sent = <<>> /\ sent' = Append(sent, "BAD"))
    BY <1>7 DEF InvalidMessage, NameUnread, InState, ReplyThen, ctlVars, askVars, InTransfer, FullInv, EarlyInv,
                FewAnswers, NotStarted, TypeInv, ValueInv, ValueType
  <2>2. fs'["cur"] = fs["cur"] /\ (sent' = <<"OK">> => sent = <<"OK">>)
    BY <1>0, <2>1, UnlinkTmp, Answers
  <2>9. Counting' => Counting /\ UNCHANGED <<nbpidchild, mychildren>>
    BY <2>1, <2>2 DEF Counting, InTransfer, Running
  <2> QED BY <2>1, <2>2, <2>9, QuietComplete
<1>8. CASE InterruptTransfer \/ Disconnect \/ IdleTimeout
  <2>1. /\ pc = "loop" /\ pc' = "quit" /\ (fs' = fs \/ fs' = UnlinkReal)
        /\ UNCHANGED <<state, memVars, childendinerror, cur, child, recvd, sent, kindOf>>
    BY <1>8 DEF InterruptTransfer, Disconnect, IdleTimeout, ctlVars, askVars, flagVars, InState
  <2>2. fs'["cur"] = fs["cur"]
    BY <1>0, <2>1, UnlinkTmp
  <2>3. Running /\ pc' \notin {"spawn", "forked", "counted"}
    BY <2>1 DEF Running
  <2>9. Counting' => Counting /\ UNCHANGED <<nbpidchild, mychildren>>
    BY <2>1, <2>2 DEF Counting, InTransfer, Running, memVars
  <2> QED BY <2>1, <2>2, <2>9, QuietComplete
<1>9. CASE Select
  <2>1. /\ pc' = "loop" /\ pc = "top"
        /\ UNCHANGED <<state, memVars, childendinerror, cur, child, recvd, sent, kindOf, fs>>
    BY <1>9 DEF Select, flagVars, askVars
  <2>9. Counting' => Counting /\ UNCHANGED <<nbpidchild, mychildren>>
    BY <2>1 DEF Counting, InTransfer, Running, memVars
  <2> QED BY <2>1, <2>9, QuietComplete
<1>10. CASE Exit
  <2>1. /\ pc' \in {"exit", "ub"} /\ UNCHANGED <<cur, recvd, sent, kindOf, fs>>
        /\ CleanChild \/ UNCHANGED child
    BY <1>10 DEF Exit, CleanChildThen, askVars
  <2>9. Counting' => Counting /\ UNCHANGED <<nbpidchild, mychildren>>
    BY <2>1 DEF Counting, InTransfer, Running
  <2> QED BY <2>1, <2>9, QuietComplete
<1> QED BY <1>1, <1>2, <1>3, <1>4, <1>5, <1>6, <1>7, <1>8, <1>9, <1>10 DEF Control

LEMMA EngineComplete == ASSUME Assumed, FullInv, Engine PROVE CompleteInv'
<1>0. /\ CompleteInv /\ ValueType /\ recvd \subseteq Streams
      /\ \A s \in Streams : cur > 0 => <<cur, s>> \in Pids
  BY CurrentPids DEF FullInv, TypeInv, ValueInv, ValueType
<1>1. CASE Spawn
  <2>1. /\ pc = "spawn" /\ pc' \in {"forked", "ub"}
        /\ UNCHANGED <<state, i, allocated, mychildren, nbpidchild, childendinerror, cur, recvd,
                       sent, kindOf, fs>>
    BY <1>1 DEF Spawn, ctlVars, memVars, flagVars, askVars
  <2>2. ASSUME NEW p \in Pids, child'[p] \in {"done", "ok"} PROVE child'[p] = child[p]
    <3>1. child \in ChildType
      BY <1>0 DEF ValueType
    <3>2. CASE allocated
      BY <1>1, <2>2, <3>1, <3>2 DEF Spawn, ChildType
    <3>3. CASE ~allocated
      BY <1>1, <3>3 DEF Spawn
    <3> QED BY <3>2, <3>3
  <2>3. ~InTransfer
    BY <2>1 DEF FullInv, AtomicInv, KindKnown, Forking, InTransfer
  <2>4. SlotsFilled'
    BY <1>0, <2>1 DEF CompleteInv, SlotsFilled
  <2>5. DoneIsReceived'
    BY <1>0, <2>1, <2>2 DEF CompleteInv, DoneIsReceived
  <2> QED BY <1>0, <2>1, <2>3, <2>4, <2>5 DEF CompleteInv, CollectedIsReceived, Counting, OkIsComplete,
                                             InTransfer
<1>2. CASE SpawnFails
  <2>1. /\ pc' \in {"report", "failed"} /\ (fs' = fs \/ fs' = UnlinkReal)
        /\ UNCHANGED <<state, cur, child, recvd, sent, kindOf>> /\ pc = "spawn"
    BY <1>2 DEF SpawnFails, ctlVars, askVars
  <2>2. ~InTransfer'
    BY <2>1 DEF FullInv, AtomicInv, KindKnown, Forking, InTransfer
  <2>3. fs'["cur"] = fs["cur"]
    BY <1>0, <2>1, UnlinkTmp
  <2>9. Counting' => Counting /\ UNCHANGED <<nbpidchild, mychildren>>
    BY <2>1, <2>2, <2>3 DEF Counting, InTransfer, Running
  <2> QED BY <2>1, <2>2, <2>3, <2>9, QuietComplete
<1>3. CASE Report
  <2>1. /\ pc' \in {"failed", "exit", "ub"} /\ sent \in {<<>>, <<"BAD">>} /\ childendinerror' = 1
        /\ CleanChild \/ UNCHANGED child
        /\ UNCHANGED <<cur, recvd, kindOf, fs>>
        /\ sent' = sent \/ sent' = Append(sent, "BAD")
    BY <1>3 DEF Report, CleanChildThen, askVars, FullInv, EarlyInv, FewAnswers, Forking
  <2>9. Counting' => Counting /\ UNCHANGED <<nbpidchild, mychildren>>
    BY <2>1 DEF Counting, InTransfer, Running
  <2> QED BY <2>1, <2>9, QuietComplete, Answers
<1>4. CASE KillStarted
  <2>1. /\ pc' \in {"killed", "ub"} /\ (CleanChild \/ UNCHANGED child) /\ pc = "failed"
        /\ UNCHANGED <<state, allocated, mychildren, nbpidchild, childendinerror, cur, recvd, sent,
                       kindOf, fs>>
    BY <1>4 DEF KillStarted, CleanChildThen, ctlVars, memVars, askVars
  <2>2. CASE pc' = "ub"
    <3>1. ~Counting'
      BY <2>2 DEF Counting, Running
    <3> QED BY <2>1, <2>2, <3>1, QuietComplete
  <2>3. CASE pc' = "killed"
    <3>1. ~InTransfer'
      BY <2>1 DEF FullInv, AtomicInv, KindKnown, Forking, InTransfer
    <3> QED BY <2>1, <2>3, <3>1, QuietComplete DEF Counting
  <2> QED BY <2>1, <2>2, <2>3
<1>5. CASE GiveUp
  <2>1. /\ pc' = "top" /\ state' = "LOGGED" /\ (fs' = fs \/ fs' = UnlinkReal)
        /\ UNCHANGED <<cur, child, recvd, sent, kindOf>>
    BY <1>5 DEF GiveUp, askVars
  <2>2. fs'["cur"] = fs["cur"]
    BY <1>0, <2>1, UnlinkTmp
  <2>3. ~InTransfer' /\ pc' \notin {"spawn", "forked", "counted"}
    BY <2>1 DEF InTransfer
  <2>9. Counting' => Counting /\ UNCHANGED <<nbpidchild, mychildren>>
    BY <2>1, <2>2, <2>3 DEF Counting, InTransfer, Running
  <2> QED BY <2>1, <2>2, <2>3, <2>9, QuietComplete
<1>6. CASE Count
  <2>1. /\ pc = "forked" /\ pc' = "counted" /\ nbpidchild' = nbpidchild + 1
        /\ UNCHANGED <<state, i, allocated, mychildren, childendinerror, cur, child, recvd, sent,
                       kindOf, fs>>
    BY <1>6 DEF Count, ctlVars, flagVars, askVars
  <2>2. SlotsFilled'
    BY <1>0, <2>1 DEF CompleteInv, SlotsFilled, ValueType
  <2>3. ~InTransfer'
    BY <2>1 DEF FullInv, AtomicInv, KindKnown, Forking, InTransfer
  <2> QED BY <1>0, <2>1, <2>2, <2>3
             DEF CompleteInv, CollectedIsReceived, Counting, DoneIsReceived, OkIsComplete
<1>7. CASE Record
  <2>1. /\ pc = "counted" /\ pc' \in {"spawn", "ub"} /\ UNCHANGED <<state, nbpidchild, cur, child, recvd,
                       sent, kindOf, fs, allocated, childendinerror>>
        /\ pc' = "spawn" => mychildren' = [mychildren EXCEPT ![i] = <<cur, i>>] /\ i' = i + 1
    BY <1>7 DEF Record, ctlVars, flagVars, askVars
  <2>2. i \in Nat /\ nbpidchild \in Nat /\ mychildren \in SlotType
    BY <1>0, NAssumption DEF ValueType
  <2>3. pc' = "spawn" => \A s \in Streams : mychildren'[s] = IF s = i THEN <<cur, s>> ELSE mychildren[s]
    BY <2>1, <2>2 DEF SlotType
  <2>4. SlotsFilled'
    <3> SUFFICES ASSUME pc' = "spawn", allocated
                 PROVE  /\ childendinerror = 0 =>
                             \A s \in Streams : s < i' => mychildren'[s] = <<cur', s>>
                        /\ nbpidchild' = i' - 1
      BY <2>1 DEF SlotsFilled
    <3>1. /\ nbpidchild = i
          /\ childendinerror = 0 => \A s \in Streams : s < i => mychildren[s] = <<cur, s>>
      BY <1>0, <2>1 DEF CompleteInv, SlotsFilled
    <3>2. ASSUME childendinerror = 0, NEW s \in Streams, s < i' PROVE mychildren'[s] = <<cur', s>>
      <4>1. s \in Nat /\ (s < i \/ s = i)
        BY <2>1, <2>2, <3>2, NAssumption DEF Streams
      <4> QED BY <2>1, <2>3, <3>1, <3>2, <4>1
    <3> QED BY <2>1, <2>2, <3>1, <3>2
  <2>5. ~InTransfer'
    BY <2>1 DEF FullInv, AtomicInv, KindKnown, Forking, InTransfer
  <2> QED BY <1>0, <2>1, <2>4, <2>5
             DEF CompleteInv, CollectedIsReceived, Counting, DoneIsReceived, OkIsComplete
<1>8. CASE AllForked
  <2>1. /\ pc = "spawn" /\ pc' = "hup" /\ i > N
        /\ UNCHANGED <<allocated, mychildren, nbpidchild, childendinerror, cur, child, recvd, sent,
                       kindOf, fs>>
    BY <1>8 DEF AllForked, memVars, flagVars, askVars
  <2>2. i = N + 1 /\ N \in Nat
    BY <1>0, <2>1, NAssumption DEF ValueType
  <2>3. CollectedIsReceived'
    BY <1>0, <2>1, <2>2 DEF CompleteInv, SlotsFilled, CollectedIsReceived, Counting, Streams
  <2> QED BY <1>0, <2>1, <2>3 DEF CompleteInv, SlotsFilled, DoneIsReceived, OkIsComplete
<1>9. CASE Release
  <2>1. /\ pc = "hup" /\ pc' \in {"hup", "ub"}
        /\ \A p \in Pids : child'[p] \in {"done", "ok"} => child'[p] = child[p]
        /\ UNCHANGED <<state, allocated, mychildren, nbpidchild, childendinerror, cur, recvd, sent,
                       kindOf, fs>>
    BY <1>9 DEF Release, ctlVars, memVars, flagVars, askVars
  <2>9. Counting' => Counting /\ UNCHANGED <<nbpidchild, mychildren>>
    BY <1>0, <2>1 DEF Counting, InTransfer, Running
  <2> QED BY <1>0, <2>1, <2>9, CalmComplete
<1>10. CASE Released
  <2>1. /\ pc = "hup" /\ pc' = "top"
        /\ UNCHANGED <<state, memVars, childendinerror, cur, child, recvd, sent, kindOf, fs>>
    BY <1>10 DEF Released, ctlVars, askVars
  <2>9. Counting' => Counting /\ UNCHANGED <<nbpidchild, mychildren>>
    BY <2>1 DEF Counting, InTransfer, Running, memVars
  <2> QED BY <2>1, <2>9, QuietComplete
<1> QED BY <1>1, <1>2, <1>3, <1>4, <1>5, <1>6, <1>7, <1>8, <1>9, <1>10 DEF Engine

\* A child that was collected without an error has received its stream.
LEMMA CollectedOk ==
  ASSUME FullInv, ~InError, InTransfer, Running, allocated, NEW s \in Collected
  PROVE  s \in Streams /\ s \in recvd /\ mychildren[s] = <<cur, s>>
<1>1. childendinerror = 0 /\ CollectedBad = {}
  BY DEF InError, FullInv, TypeInv, ValueInv, ValueType
<1>2. s \in Streams /\ mychildren[s] \in Pids /\ child[mychildren[s]] \in Zombie
  BY NAssumption DEF Collected, Slots, Streams, FullInv, TypeInv, ValueInv, ValueType
<1>3. mychildren[s] = <<cur, s>>
  BY <1>1, <1>2, PidsAreNotZero DEF FullInv, CompleteInv, CollectedIsReceived, Counting
<1>4. child[<<cur, s>>] = "ok"
  BY <1>1, <1>2, <1>3 DEF CollectedBad, Zombie
<1>5. cur > 0
  BY AskedFor, MaxTransfersAssumption DEF FullInv, InTransfer, Transfers
<1> QED BY <1>2, <1>3, <1>4, <1>5 DEF FullInv, CompleteInv, DoneIsReceived

LEMMA ReapedFrame == \A p \in Pids : Reaped[p] \in {"done", "ok"} => Reaped[p] = child[p]
BY DEF Reaped

LEMMA PartComplete == ASSUME Assumed, FullInv, SigchldPart PROVE CompleteInv'
<1>1. /\ ~InError /\ allocated /\ Running /\ child' = Reaped /\ mychildren' = SlotsLeft
      /\ UNCHANGED <<pc, state, i, allocated, nbpidchild, childendinerror, fs, cur, kindOf, sent,
                     recvd>>
  BY DEF SigchldPart, SigchldCollects, SigchldRaised, ctlVars, flagVars, askVars
<1>2. SlotsFilled'
  <2>1. CASE Forking
    <3>1. Collected = {}
      BY <1>1, <2>1, NoSuccessYet DEF FullInv, SigchldPart, InError
    <3>2. mychildren' = mychildren
      BY <1>1, <3>1 DEF SlotsLeft, FullInv, TypeInv, ValueInv, ValueType, SlotType
    <3> QED BY <1>1, <3>2 DEF FullInv, CompleteInv, SlotsFilled
  <2>2. CASE ~Forking
    BY <1>1, <2>2 DEF SlotsFilled, Forking
  <2> QED BY <2>1, <2>2
<1>3. CollectedIsReceived'
  <2> SUFFICES ASSUME InTransfer, childendinerror = 0
               PROVE  /\ nbpidchild = N
                      /\ \A s \in Streams : \/ SlotsLeft[s] = <<cur, s>>
                                            \/ SlotsLeft[s] = NoPid /\ s \in recvd
    BY <1>1 DEF CollectedIsReceived, Counting, InTransfer, Running
  <2>1. /\ nbpidchild = N
        /\ \A s \in Streams : mychildren[s] = <<cur, s>> \/ (mychildren[s] = NoPid /\ s \in recvd)
    BY <1>1 DEF FullInv, CompleteInv, CollectedIsReceived, Counting
  <2> QED BY <1>1, <2>1, CollectedOk DEF SlotsLeft
<1>4. DoneIsReceived'
  BY <1>1, ReapedFrame, CurrentPids DEF FullInv, CompleteInv, DoneIsReceived
<1>5. OkIsComplete'
  BY <1>1 DEF FullInv, CompleteInv, OkIsComplete
<1> QED BY <1>2, <1>3, <1>4, <1>5 DEF CompleteInv

\* The handler says MSG_OK when nobody is left, so every stream was received, and when the
\* temporary file could be renamed, so it was still the one of this request.
LEMMA SuccessIsComplete ==
  ASSUME Assumed, FullInv, SigchldSuccess
  PROVE  /\ InTransfer /\ sent = <<>> /\ recvd = Streams
         /\ kindOf[cur] = "store" => state = "RECEIVING" /\ unlinkfile = 1
         /\ kindOf[cur] # "store" => unlinkfile = 3
<1>1. /\ SigchldCollects /\ ~InError /\ Left = {} /\ allocated /\ Running /\ childendinerror = 0
  BY DEF SigchldSuccess, SigchldCollects, SigchldRaised, InError, FullInv, TypeInv, ValueInv,
         ValueType
<1>2. ~(NotStarted \/ Forking)
  BY <1>1, NoSuccessYet DEF FullInv
<1>3. InTransfer /\ sent = <<>>
  BY <1>1, <1>2, AnswersInTransfer DEF FullInv
<1>4. /\ nbpidchild = N
      /\ \A s \in Streams : mychildren[s] = <<cur, s>> \/ (mychildren[s] = NoPid /\ s \in recvd)
  BY <1>1, <1>3 DEF FullInv, CompleteInv, CollectedIsReceived, Counting
<1>5. ASSUME NEW s \in Streams PROVE s \in recvd
  <2>1. s \in Slots
    BY <1>4 DEF Slots, Streams
  <2>2. s \in Collected \/ mychildren[s] = NoPid
    BY <1>1, <2>1 DEF Left
  <2>3. CASE s \in Collected
    BY <1>1, <1>3, <2>3, CollectedOk
  <2>4. CASE mychildren[s] = NoPid
    <3>1. cur > 0 /\ cur \in Nat
      BY <1>3, AskedFor, MaxTransfersAssumption DEF FullInv, InTransfer, Transfers
    <3>2. <<cur, s>> # NoPid
      BY <3>1 DEF NoPid
    <3> QED BY <1>4, <2>4, <3>2
  <2> QED BY <2>2, <2>3, <2>4
<1>6. recvd = Streams
  <2>1. recvd \subseteq Streams
    BY DEF FullInv, TypeInv, ValueInv, ValueType
  <2> QED BY <1>5, <2>1
<1>7. /\ kindOf[cur] = "store" => state = "RECEIVING" /\ unlinkfile = 1
      /\ kindOf[cur] # "store" => unlinkfile = 3
  BY <1>1, <1>3 DEF FullInv, AtomicInv, KindKnown, FlagKnown, InTransfer
<1> QED BY <1>3, <1>6, <1>7

\* What becomes of the destination then.
LEMMA SuccessFile ==
  ASSUME Assumed, FullInv, SigchldSuccess
  PROVE  \E ok \in BOOLEAN :
           /\ \/ sent' = Told(Answer(ok)) /\ UNCHANGED pc
              \/ pc' = "exit" /\ UNCHANGED sent
           /\ ok /\ kindOf[cur] = "store" => fs'["cur"] = "new" /\ fs["tmp"] # "absent"
           /\ ~ok \/ kindOf[cur] # "store" => fs'["cur"] = fs["cur"]
<1>1. /\ kindOf[cur] = "store" => state = "RECEIVING" /\ unlinkfile = 1
      /\ kindOf[cur] # "store" => unlinkfile = 3
  BY SuccessIsComplete
<1>2. PICK ok \in IF unlinkfile \in {1, 4} THEN ProcessOutcomes ELSE {TRUE} :
        LET files == IF unlinkfile \in {1, 4} THEN Processed(fs, ok) ELSE fs IN
        \/ /\ sent' = Told(Answer(ok)) /\ UNCHANGED pc
           /\ fs' = IF unlinkfile = 4 THEN [files EXCEPT !["cur"] = "absent"] ELSE files
        \/ "reply" \in Faults /\ pc' = "exit" /\ UNCHANGED sent /\ fs' = files
  BY DEF SigchldSuccess
<1>3. ok \in BOOLEAN /\ fs \in FsType
  BY <1>2, OutcomesAreBoolean DEF FullInv, TypeInv, ValueInv, ValueType
<1>4. \/ sent' = Told(Answer(ok)) /\ UNCHANGED pc
      \/ pc' = "exit" /\ UNCHANGED sent
  BY <1>2
<1>5. CASE kindOf[cur] = "store"
  <2>1. fs' = Processed(fs, ok) /\ ok \in ProcessOutcomes
    BY <1>1, <1>2, <1>5
  <2>2. ok => fs["tmp"] # "absent"
    BY <2>1, OutcomeTmp
  <2>3. ok => fs["tmp"] = "new"
    BY <1>1, <1>3, <1>5, <2>2 DEF FullInv, AtomicInv, TmpIsNew, FsType, Paths
  <2> QED BY <1>3, <1>4, <1>5, <2>1, <2>2, <2>3, ProcessTmp
<1>6. CASE kindOf[cur] # "store"
  BY <1>1, <1>2, <1>3, <1>4, <1>6
<1> QED BY <1>5, <1>6

LEMMA SuccessComplete == ASSUME Assumed, FullInv, SigchldSuccess PROVE CompleteInv'
<1>1. recvd = Streams /\ sent = <<>>
  BY SuccessIsComplete
<1>2. /\ state' = "LOGGED" /\ child' = Reaped /\ UNCHANGED <<cur, kindOf, recvd>>
  BY DEF SigchldSuccess, askVars
<1>3. pc' \notin {"spawn", "forked", "counted"}
  BY NoSuccessYet DEF FullInv, SigchldSuccess, Forking
<1>4. sent' = <<"OK">> => (kindOf[cur] = "store" => fs'["cur"] = "new")
  <2>1. PICK ok \in BOOLEAN :
           /\ \/ sent' = Told(Answer(ok)) /\ UNCHANGED pc
              \/ pc' = "exit" /\ UNCHANGED sent
           /\ ok /\ kindOf[cur] = "store" => fs'["cur"] = "new" /\ fs["tmp"] # "absent"
    BY SuccessFile
  <2>2. sent' = <<"OK">> => ok
    BY <1>1, <2>1, Answers DEF Told, Answer
  <2> QED BY <2>1, <2>2
<1>5. ~Counting'
  BY <1>2 DEF Counting, InTransfer
<1> QED BY <1>1, <1>2, <1>3, <1>4, <1>5, ReapedFrame, CurrentPids, CalmComplete DEF FullInv

\* A failure leaves the destination as it is. It is reported in a transfer, or in the
\* fork loop before the transfer was finished by the handler.
LEMMA FailureFrame ==
  ASSUME Assumed, FullInv, SigchldFailure
  PROVE  /\ pc' \in {pc, "exit", "ub"} /\ fs'["cur"] = fs["cur"]
         /\ UNCHANGED <<cur, kindOf, recvd>>
         /\ \/ state' = "LOGGED" /\ ~allocated'
            \/ childendinerror' = 1 /\ UNCHANGED <<state, allocated>>
         /\ \/ UNCHANGED sent
            \/ sent = <<>> /\ state # "LOGGED" /\ pc' = pc /\ sent' = Told("BAD")
<1>1. fs'["cur"] = fs["cur"]
  BY UnlinkTmp DEF SigchldFailure, FullInv, TypeInv, ValueInv
<1>2. /\ pc' \in {pc, "exit", "ub"} /\ UNCHANGED <<cur, kindOf, recvd>>
      /\ \/ state' = "LOGGED" /\ ~allocated'
         \/ childendinerror' = 1 /\ UNCHANGED <<state, allocated>>
  BY DEF SigchldFailure, askVars, FreeAllVar
<1>3. ASSUME FirstError PROVE sent = <<>> /\ state # "LOGGED"
  <2>1. SigchldCollects /\ childendinerror = 0 /\ allocated /\ nbpidchild > 0 /\ ~NotStarted
    BY <1>3, NoSuccessYet
       DEF FirstError, SigchldFailure, SigchldCollects, AllEnded, FullInv, TypeInv, ValueInv, ValueType
  <2>2. CASE Forking
    BY <2>1, <2>2 DEF FullInv, EarlyInv, FailureSaid, AtomicInv, KindKnown
  <2>3. CASE ~Forking
    BY <2>1, <2>3, AnswersInTransfer DEF FullInv, InTransfer
  <2> QED BY <2>2, <2>3
<1>4. \/ UNCHANGED sent
      \/ FirstError /\ pc' = pc /\ sent' = Told("BAD")
  BY DEF SigchldFailure
<1> QED BY <1>1, <1>2, <1>3, <1>4

LEMMA FailureComplete == ASSUME Assumed, FullInv, SigchldFailure PROVE CompleteInv'
<1>1. sent' = <<"OK">> => sent = <<"OK">>
  BY FailureFrame, Answers DEF Told
<1>2. \A p \in Pids : child'[p] \in {"done", "ok"} => child'[p] = child[p]
  BY ReapedFrame DEF SigchldFailure, KilledBy
<1>3. ~Counting'
  BY FailureFrame DEF Counting, InTransfer, Running
<1>4. CollectedIsReceived'
  BY <1>3 DEF CollectedIsReceived
<1>5. DoneIsReceived'
  BY <1>2, FailureFrame, CurrentPids DEF FullInv, CompleteInv, DoneIsReceived
<1>6. OkIsComplete'
  BY <1>1, FailureFrame DEF FullInv, CompleteInv, OkIsComplete
<1>7. SlotsFilled'
  BY FailureFrame DEF SlotsFilled, SigchldFailure, FullInv, CompleteInv
<1> QED BY <1>4, <1>5, <1>6, <1>7 DEF CompleteInv

LEMMA SignalComplete == ASSUME Assumed, FullInv, Signal PROVE CompleteInv'
<1>1. CASE SigchldNone \/ SigchldFreed
  BY <1>1 DEF SigchldNone, SigchldFreed, FullInv, CompleteInv, SlotsFilled, CollectedIsReceived, Counting,
              DoneIsReceived, OkIsComplete, InTransfer, FreeAllVar, ctlVars, memVars, flagVars,
              askVars, Running
<1>2. CASE SigchldPart \/ SigchldSuccess \/ SigchldFailure
  BY <1>2, PartComplete, SuccessComplete, FailureComplete
<1> QED BY <1>1, <1>2 DEF Signal

LEMMA ServeComplete ==
  ASSUME Assumed, FullInv, NEW p \in Pids, Serve(p) \/ StreamFails(p) \/ ChildKilled(p)
  PROVE  CompleteInv'
<1>1. UNCHANGED fatherVars /\ fs'["cur"] = fs["cur"]
  BY ServeFrame DEF FullInv
<1>2. child \in ChildType /\ recvd \subseteq Streams
  BY DEF FullInv, TypeInv, ValueInv, ValueType
<1>3. /\ recvd \subseteq recvd' /\ recvd' \subseteq Streams
      /\ \A q \in Pids : child'[q] \in {"done", "ok"} =>
           \/ child'[q] = child[q] \/ child[q] = "done" \/ (q[1] = cur => q[2] \in recvd')
  <2>1. CASE Stream(p)
    <3>1. p[1] = cur /\ p[2] \in Streams /\ cur \in Transfers
      BY <2>1 DEF Stream, Pids
    <3>2. recvd' = recvd \cup {p[2]}
      BY <2>1, <3>1 DEF Stream, FullInv, AtomicInv, KindKnown
    <3> QED BY <1>2, <2>1, <3>1, <3>2 DEF Stream, ChildType
  <2>2. CASE OpenFragment(p) \/ OpenFails(p) \/ StreamFails(p)
    BY <1>2, <2>2 DEF OpenFragment, OpenFails, StreamFails, ChildType
  <2>3. CASE ChildExit(p) \/ ChildKilled(p)
    BY <1>2, <2>3 DEF ChildExit, ChildKilled, Die, ChildType
  <2> QED BY <2>1, <2>2, <2>3 DEF Serve
<1>4. SlotsFilled'
  BY <1>1 DEF fatherVars, memVars, flagVars, askVars, FullInv, CompleteInv, SlotsFilled
<1>5. CollectedIsReceived'
  BY <1>1, <1>3 DEF fatherVars, ctlVars, memVars, flagVars, askVars, FullInv, CompleteInv,
                    CollectedIsReceived, Counting, InTransfer, Running
<1>6. DoneIsReceived'
  <2> SUFFICES ASSUME NEW s \in Streams, cur > 0, child'[<<cur, s>>] \in {"done", "ok"}
               PROVE  s \in recvd'
    BY <1>1 DEF fatherVars, askVars, DoneIsReceived
  <2>1. <<cur, s>> \in Pids
    BY CurrentPids DEF FullInv
  <2>2. child[<<cur, s>>] \in {"done", "ok"} => s \in recvd
    BY DEF FullInv, CompleteInv, DoneIsReceived
  <2> QED BY <1>3, <2>1, <2>2
<1>7. OkIsComplete'
  BY <1>1, <1>3 DEF fatherVars, askVars, FullInv, CompleteInv, OkIsComplete
<1> QED BY <1>4, <1>5, <1>6, <1>7 DEF CompleteInv

LEMMA CompleteNext == ASSUME Assumed PROVE FullInv /\ [Next]_vars => CompleteInv'
<1> SUFFICES ASSUME FullInv, [Next]_vars PROVE CompleteInv'
  OBVIOUS
<1>1. CASE Control \/ Engine \/ Signal
  BY <1>1, ControlComplete, EngineComplete, SignalComplete
<1>2. CASE Sigterm
  <2>1. /\ pc' \in {"exit", "ub"} /\ (CleanChild \/ UNCHANGED child)
        /\ UNCHANGED <<cur, kindOf, sent, recvd>>
        /\ fs' = fs \/ fs' = UnlinkReal
    BY <1>2 DEF Sigterm, CleanChildThen, askVars
  <2>2. fs'["cur"] = fs["cur"]
    BY <2>1, UnlinkTmp DEF FullInv, TypeInv, ValueInv
  <2>9. Counting' => Counting /\ UNCHANGED <<nbpidchild, mychildren>>
    BY <2>1, <2>2 DEF Counting, InTransfer, Running
  <2> QED BY <2>1, <2>2, <2>9, QuietComplete
          DEF FullInv, TypeInv, ValueInv, ValueType, Running
<1>3. ASSUME NEW p \in Pids, Serve(p) \/ StreamFails(p) \/ ChildKilled(p) PROVE CompleteInv'
  BY <1>3, ServeComplete
<1>4. CASE UNCHANGED vars
  BY <1>4 DEF vars, FullInv, CompleteInv, SlotsFilled, CollectedIsReceived, Counting, DoneIsReceived,
              OkIsComplete, InTransfer, Running
<1> QED BY <1>1, <1>2, <1>3, <1>4 DEF Next, Gone

LEMMA FullInit == Init => FullInv
BY TypeInit, EarlyInit, AtomicInit, CompleteInit DEF FullInv

LEMMA FullNext == ASSUME Assumed PROVE FullInv /\ [Next]_vars => FullInv'
<1> SUFFICES ASSUME FullInv, [Next]_vars PROVE FullInv'
  OBVIOUS
<1>1. TypeInv'
  BY TypeNext DEF FullInv
<1>2. EarlyInv'
  BY EarlyNext DEF FullInv, Assumed
<1>3. AtomicInv'
  BY AtomicNext DEF FullInv
<1>4. CompleteInv'
  BY CompleteNext
<1> QED BY <1>1, <1>2, <1>3, <1>4 DEF FullInv

\* MSG_OK for a file means that all of its streams were received and that it is there
\* under its name until the next request, however many streams and transfers there are,
\* and whatever the children an earlier request has left do.
THEOREM OkMeansCompleteHolds == ASSUME Assumed PROVE Spec => []OkMeansComplete
<1>1. FullInv => OkMeansComplete
  <2> SUFFICES ASSUME FullInv, OkSent
               PROVE  recvd = Streams /\ (kindOf[cur] = "store" => fs["cur"] = "new")
    BY DEF OkMeansComplete
  <2>1. sent = <<"OK">>
    <3>1. PICK n \in 1..Len(sent) : sent[n] = "OK"
      BY DEF OkSent
    <3>2. CASE sent = <<>>
      BY <3>1, <3>2
    <3>3. CASE sent = <<"BAD">>
      BY <3>1, <3>3
    <3>4. CASE sent = <<"BAD", "BAD">>
      BY <3>1, <3>4
    <3> QED BY <3>2, <3>3, <3>4 DEF FullInv, EarlyInv, FewAnswers
  <2> QED BY <2>1 DEF FullInv, CompleteInv, OkIsComplete
<1> QED BY <1>1, FullInit, FullNext, PTL DEF Spec

-----------------------------------------------------------------------------
(* The refinement.                                                         *)

\* The variables of AtomicStore.
Phase == IF ~Running THEN "closed" ELSE IF sent # <<>> THEN "answered"
         ELSE IF state = "LOGGED" THEN "idle" ELSE "asked"
Wanted == IF cur = 0 THEN "none" ELSE kindOf[cur]
Said == IF sent = <<>> THEN "none" ELSE sent[1]

Step == [AtomicStoreView!Next]_(AtomicStoreView!vars)

\* A step that shows nothing to the client, or only that its request is dropped.
LEMMA Calm ==
  ASSUME Running, Running', UNCHANGED <<cur, kindOf, sent>>, fs'["cur"] = fs["cur"],
         state = "LOGGED" => state' = "LOGGED" \/ sent # <<>>
  PROVE  Step
<1>1. Wanted' = Wanted /\ Said' = Said
  BY DEF Wanted, Said
<1>2. CASE Phase' = Phase
  BY <1>1, <1>2 DEF Step, AtomicStoreView!vars, Phase, Wanted, Said
<1>3. CASE Phase' # Phase
  <2>1. Phase = "asked" /\ Phase' = "idle"
    BY <1>3 DEF Phase
  <2>2. AtomicStoreView!Withdraw
    BY <1>1, <2>1 DEF AtomicStoreView!Withdraw, Phase, Wanted, Said
  <2> QED BY <2>2 DEF Step, AtomicStoreView!Next
<1> QED BY <1>2, <1>3

\* The session ends; a store that was not answered may have taken effect.
LEMMA Ends ==
  ASSUME Running, ~Running', UNCHANGED <<cur, kindOf, sent>>,
         \/ fs'["cur"] = fs["cur"]
         \/ /\ sent = <<>> /\ state # "LOGGED" /\ cur # 0 /\ kindOf[cur] = "store"
            /\ fs'["cur"] = "new"
  PROVE  Step
<1>1. Wanted' = Wanted /\ Said' = Said /\ Phase # "closed" /\ Phase' = "closed"
  BY DEF Wanted, Said, Phase
<1>2. \/ fs'["cur"] = fs["cur"]
      \/ Phase = "asked" /\ Wanted = "store" /\ fs'["cur"] = "new"
  BY DEF Phase, Wanted
<1>3. AtomicStoreView!Close
  BY <1>1, <1>2 DEF AtomicStoreView!Close, Phase, Wanted, Said
<1> QED BY <1>3 DEF Step, AtomicStoreView!Next

\* The two answers.
LEMMA Refused ==
  ASSUME Running, Running', UNCHANGED <<cur, kindOf>>, sent = <<>>, sent' = <<"BAD">>,
         state # "LOGGED", fs'["cur"] = fs["cur"]
  PROVE  Step
<1>1. Wanted' = Wanted /\ Said' = "BAD" /\ Phase = "asked" /\ Phase' = "answered"
  <2>1. <<"BAD">> # <<>> /\ <<"BAD">>[1] = "BAD"
    OBVIOUS
  <2> QED BY <2>1 DEF Wanted, Said, Phase
<1>2. AtomicStoreView!Refuse
  BY <1>1 DEF AtomicStoreView!Refuse, Phase, Wanted, Said
<1> QED BY <1>2 DEF Step, AtomicStoreView!Next

\* A request that was refused is refused once more.
LEMMA RefusedAgain ==
  ASSUME Running, Running', UNCHANGED <<cur, kindOf>>, sent = <<"BAD">>,
         sent' = Append(sent, "BAD"), fs'["cur"] = fs["cur"]
  PROVE  Step
<1>1. Wanted' = Wanted /\ Said' = Said /\ Phase' = Phase
  <2>1. <<"BAD">> # <<>> /\ <<"BAD">>[1] = "BAD"
    OBVIOUS
  <2>2. sent' = <<"BAD", "BAD">>
    BY Twice
  <2> QED BY <2>1, <2>2, TwiceIsBad DEF Wanted, Said, Phase
<1> QED BY <1>1 DEF Step, AtomicStoreView!vars, Phase, Wanted, Said

LEMMA Delivered ==
  ASSUME Running, Running', UNCHANGED <<cur, kindOf>>, sent = <<>>, sent' = <<"OK">>,
         state # "LOGGED", cur # 0,
         kindOf[cur] = "store" => fs'["cur"] = "new",
         kindOf[cur] # "store" => fs'["cur"] = fs["cur"]
  PROVE  Step
<1>1. Wanted' = Wanted /\ Said' = "OK" /\ Phase = "asked" /\ Phase' = "answered"
  <2>1. <<"OK">> # <<>> /\ <<"OK">>[1] = "OK"
    OBVIOUS
  <2> QED BY <2>1 DEF Wanted, Said, Phase
<1>2. fs'["cur"] = IF Wanted = "store" THEN "new" ELSE fs["cur"]
  BY DEF Wanted
<1>3. AtomicStoreView!Deliver
  BY <1>1, <1>2 DEF AtomicStoreView!Deliver, Phase, Wanted, Said
<1> QED BY <1>3 DEF Step, AtomicStoreView!Next

LEMMA RequestStep == ASSUME FullInv, NEW kind \in Kinds, Request(kind) PROVE Step
<1>1. /\ cur \in Nat /\ cur + 1 \in Transfers /\ kind \in {"store", "retr"}
      /\ kindOf \in [Transfers -> {"none", "store", "retr"}] /\ fs \in FsType
  BY MaxTransfersAssumption, ChoicesAssumption
     DEF Request, FullInv, TypeInv, ValueInv, ValueType, Transfers
<1>2. /\ pc = "loop" /\ pc' = "top" /\ state = "LOGGED" /\ sent' = <<>>
      /\ state' \in {"WAITING_FILENAME_STORE", "WAITING_FILENAME_RETR"}
  BY DEF Request, InState
<1>3. Phase \in {"idle", "answered"} /\ Phase' = "asked" /\ Said' = "none"
  BY <1>2 DEF Phase, Said, Running
<1>4. Wanted' = kind
  <2>1. cur' = cur + 1 /\ kindOf'[cur + 1] = kind /\ cur + 1 # 0
    BY <1>1 DEF Request
  <2> QED BY <2>1 DEF Wanted
<1>5. fs'["cur"] = IF fs["cur"] = "new" THEN "old" ELSE fs["cur"]
  BY DEF Request, Paths
<1>6. AtomicStoreView!Ask
  BY <1>1, <1>3, <1>4, <1>5 DEF AtomicStoreView!Ask, Phase, Wanted, Said
<1> QED BY <1>6 DEF Step, AtomicStoreView!Next

\* An answer to a request the handlers of the file name have not accepted.
LEMMA AnswerStep ==
  ASSUME Running, sent = <<>>, state # "LOGGED", cur # 0, UNCHANGED <<cur, kindOf>>,
         NEW ok \in BOOLEAN, ReplyThen(Answer(ok), "top"),
         ok => fs'["cur"] = "new" /\ kindOf[cur] = "store",
         ~ok => fs'["cur"] = fs["cur"]
  PROVE  Step
<1>1. CASE sent' = Append(sent, Answer(ok)) /\ pc' = "top"
  <2>1. Running'
    BY <1>1 DEF Running
  <2>2. CASE ok
    <3>1. sent' = <<"OK">>
      BY <1>1, <2>2, Answers DEF Answer
    <3> QED BY <2>1, <2>2, <3>1, Delivered
  <2>3. CASE ~ok
    <3>1. sent' = <<"BAD">>
      BY <1>1, <2>3, Answers DEF Answer
    <3> QED BY <2>1, <2>3, <3>1, Refused
  <2> QED BY <2>2, <2>3
<1>2. CASE pc' = "exit" /\ UNCHANGED sent
  <2>1. ~Running'
    BY <1>2 DEF Running
  <2> QED BY <1>2, <2>1, Ends
<1> QED BY <1>1, <1>2 DEF ReplyThen

LEMMA FilenameStep ==
  ASSUME Assumed, FullInv, StoreRefused \/ StoreNoMemory \/ RetrRefused \/ StoreEmpty
  PROVE  Step
<1>0. ValueType /\ fs \in FsType
  BY DEF FullInv, TypeInv, ValueInv, ValueType
<1>1. /\ Running /\ state \in {"WAITING_FILENAME_STORE", "WAITING_FILENAME_RETR"}
      /\ pc = "loop" /\ UNCHANGED <<cur, kindOf>>
  BY DEF StoreRefused, StoreNoMemory, RetrRefused, StoreEmpty, InState, Running, askVars
<1>2. sent = <<>> /\ state # "LOGGED"
  BY <1>1 DEF FullInv, EarlyInv, FewAnswers, NotStarted
<1>3. cur # 0
  BY <1>1, AskedFor, MaxTransfersAssumption DEF FullInv, Transfers
<1>4. CASE StoreRefused \/ StoreNoMemory \/ RetrRefused
  <2>1. ReplyThen(Answer(FALSE), "top")
    BY <1>4 DEF StoreRefused, StoreNoMemory, RetrRefused, Answer
  <2>2. fs' = fs \/ fs' = Unlink(Real) \/ fs' = [fs EXCEPT ![Real] = "new"]
    BY <1>4 DEF StoreRefused, StoreNoMemory, RetrRefused
  <2>3. fs'["cur"] = fs["cur"]
    BY <1>0, <2>2, UnlinkTmp, CreateTmp
  <2> QED BY <1>1, <1>2, <1>3, <2>1, <2>3, AnswerStep
<1>5. CASE StoreEmpty
  <2>1. PICK ok \in BOOLEAN : /\ fs' = Processed([fs EXCEPT ![Real] = "new"], ok)
                              /\ ReplyThen(Answer(ok), "top")
    BY <1>5 DEF StoreEmpty
  <2>2. kindOf[cur] = "store"
    BY <1>5 DEF StoreEmpty, InState, FullInv, AtomicInv, KindKnown
  <2>3. /\ ok => fs'["cur"] = "new"
        /\ ~ok => fs'["cur"] = fs["cur"]
    BY <1>0, <2>1, CreateTmp, ProcessTmp
  <2> QED BY <1>1, <1>2, <1>3, <2>1, <2>2, <2>3, AnswerStep
<1> QED BY <1>4, <1>5

LEMMA ControlStep == ASSUME Assumed, FullInv, Control PROVE Step
<1>0. ValueType
  BY DEF FullInv, TypeInv, ValueInv
<1>1. CASE \E kind \in Kinds : Request(kind)
  BY <1>1, RequestStep
<1>2. CASE StoreRefused \/ StoreNoMemory \/ RetrRefused \/ StoreEmpty
  BY <1>2, FilenameStep
<1>3. CASE StoreAccepted \/ RetrAccepted \/ RetrEmpty \/ CreateZero \/ AbortStart
  <2>1. /\ pc = "loop" /\ pc' = "top" /\ state # "LOGGED" /\ UNCHANGED <<cur, kindOf, sent>>
        /\ (fs' = fs \/ fs' = UnlinkReal \/ fs' = [fs EXCEPT ![Real] = "new"])
    BY <1>3 DEF StoreAccepted, RetrAccepted, RetrEmpty, CreateZero, AbortStart, WaitingStart,
                InState, askVars
  <2>2. fs'["cur"] = fs["cur"]
    BY <1>0, <2>1, UnlinkTmp, CreateTmp
  <2>3. Running /\ Running'
    BY <2>1 DEF Running
  <2> QED BY <2>1, <2>2, <2>3, Calm
<1>4. CASE Select \/ CloseConn \/ \E sim \in BOOLEAN : TransStart(sim)
  <2>1. /\ pc \in {"top", "loop"} /\ pc' \in {"loop", "spawn", "quit"}
        /\ UNCHANGED <<state, cur, kindOf, sent, fs>>
    BY <1>4 DEF Select, CloseConn, TransStart, WaitingStart, InState, askVars, ctlVars
  <2>2. Running /\ Running'
    BY <2>1 DEF Running
  <2> QED BY <2>1, <2>2, Calm
<1>5. CASE StoreNoSocket \/ RetrNoSocket \/ InterruptTransfer \/ Disconnect \/ IdleTimeout
  <2>1. /\ pc = "loop" /\ pc' = "quit" /\ UNCHANGED <<state, cur, kindOf, sent>>
        /\ (fs' = fs \/ fs' = UnlinkReal \/ fs' = Unlink(Real))
    BY <1>5 DEF StoreNoSocket, RetrNoSocket, InterruptTransfer, Disconnect, IdleTimeout, InState,
                askVars, ctlVars
  <2>2. fs'["cur"] = fs["cur"]
    BY <1>0, <2>1, UnlinkTmp
  <2>3. Running /\ Running'
    BY <2>1 DEF Running
  <2> QED BY <2>1, <2>2, <2>3, Calm
<1>6. CASE TransStartFreed
  <2>1. /\ pc = "loop" /\ pc' \in {"ub", "quit"} /\ UNCHANGED <<state, cur, kindOf, sent, fs>>
    BY <1>6 DEF TransStartFreed, WaitingStart, InState, askVars, ctlVars
  <2>2. Running
    BY <2>1 DEF Running
  <2>3. CASE pc' = "ub"
    BY <2>1, <2>2, <2>3, Ends DEF Running
  <2>4. CASE pc' = "quit"
    BY <2>1, <2>2, <2>4, Calm DEF Running
  <2> QED BY <2>1, <2>3, <2>4
<1>7. CASE InvalidMessage \/ NameUnread
  <2>1. /\ pc = "loop" /\ UNCHANGED <<state, cur, kindOf>>
        /\ (fs' = fs \/ fs' = UnlinkReal)
        /\ \/ UNCHANGED sent /\ pc' \in {"quit", "exit"}
           \/ /\ state # "LOGGED" /\ sent' = Append(sent, "BAD") /\ pc' \in {"quit", "unread"}
    BY <1>7 DEF InvalidMessage, NameUnread, InState, ReplyThen, ctlVars, askVars
  <2>2. fs'["cur"] = fs["cur"] /\ Running
    BY <1>0, <2>1, UnlinkTmp DEF Running
  <2>3. CASE UNCHANGED sent /\ pc' = "quit"
    BY <2>1, <2>2, <2>3, Calm DEF Running
  <2>4. CASE UNCHANGED sent /\ pc' = "exit"
    BY <2>1, <2>2, <2>4, Ends DEF Running
  <2>5. CASE state # "LOGGED" /\ sent' = Append(sent, "BAD") /\ pc' \in {"quit", "unread"}
    <3>1. sent = <<>>
      BY <1>7, <2>5 DEF InvalidMessage, NameUnread, InState, FullInv, EarlyInv, FewAnswers, NotStarted, TypeInv,
                        ValueInv, ValueType
    <3>2. sent' = <<"BAD">> /\ Running'
      BY <2>5, <3>1, Answers DEF Running
    <3> QED BY <2>1, <2>2, <2>5, <3>1, <3>2, Refused
  <2> QED BY <2>1, <2>3, <2>4, <2>5
<1>8. CASE Exit
  <2>1. /\ Running /\ ~Running' /\ UNCHANGED <<cur, kindOf, sent, fs>>
    BY <1>8 DEF Exit, CleanChildThen, askVars, Running
  <2> QED BY <2>1, Ends
<1>9. CASE FreedName
  <2>1. /\ Running /\ ~Running' /\ UNCHANGED <<cur, kindOf, sent, fs>>
    BY <1>9 DEF FreedName, askVars, Running
  <2> QED BY <2>1, Ends
<1> QED BY <1>1, <1>2, <1>3, <1>4, <1>5, <1>6, <1>7, <1>8, <1>9 DEF Control

LEMMA EngineStep == ASSUME Assumed, FullInv, Engine PROVE Step
<1>0. ValueType /\ Running
  BY DEF FullInv, TypeInv, ValueInv, Engine, Spawn, SpawnFails, Report, KillStarted, GiveUp, Count,
         Record, AllForked, Release, Released, Running
<1>1. CASE Spawn \/ KillStarted \/ Count \/ Record \/ Release \/ Released
  <2>1. UNCHANGED <<state, cur, kindOf, sent, fs>>
    BY <1>1 DEF Spawn, KillStarted, Count, Record, Release, Released, ctlVars, askVars
  <2>2. CASE Running'
    BY <1>0, <2>1, <2>2, Calm
  <2>3. CASE ~Running'
    BY <1>0, <2>1, <2>3, Ends
  <2> QED BY <2>2, <2>3
<1>2. CASE SpawnFails \/ GiveUp \/ AllForked
  <2>1. /\ pc' \in {"report", "failed", "top", "hup"} /\ UNCHANGED <<cur, kindOf, sent>>
        /\ (fs' = fs \/ fs' = UnlinkReal)
    BY <1>2 DEF SpawnFails, GiveUp, AllForked, askVars
  <2>2. fs'["cur"] = fs["cur"] /\ Running'
    BY <1>0, <2>1, UnlinkTmp DEF Running
  <2>3. state = "LOGGED" => state' = "LOGGED" \/ sent # <<>>
    BY <1>2 DEF SpawnFails, GiveUp, AllForked, ctlVars, FullInv, EarlyInv, FailureSaid, Forking
  <2> QED BY <1>0, <2>1, <2>2, <2>3, Calm
<1>3. CASE Report
  <2>1. /\ UNCHANGED <<state, cur, kindOf, fs>> /\ sent \in {<<>>, <<"BAD">>}
        /\ sent = <<>> => state # "LOGGED"
    BY <1>3 DEF Report, ctlVars, askVars, FullInv, EarlyInv, FewAnswers, FailureSaid, Forking
  <2>2. CASE sent = <<>> /\ sent' = Append(sent, "BAD") /\ pc' = "failed"
    <3>1. sent' = <<"BAD">> /\ Running'
      BY <2>2, Answers DEF Running
    <3> QED BY <1>0, <2>1, <2>2, <3>1, Refused
  <2>3. CASE sent = <<"BAD">> /\ sent' = Append(sent, "BAD") /\ pc' = "failed"
    BY <1>0, <2>1, <2>3, RefusedAgain DEF Running
  <2>4. CASE UNCHANGED sent /\ pc' \in {"exit", "ub"}
    BY <1>0, <2>1, <2>4, Ends DEF Running
  <2> QED BY <1>3, <2>1, <2>2, <2>3, <2>4 DEF Report, CleanChildThen
<1> QED BY <1>1, <1>2, <1>3 DEF Engine

LEMMA SuccessStep == ASSUME Assumed, FullInv, SigchldSuccess PROVE Step
<1>1. /\ InTransfer /\ sent = <<>> /\ state # "LOGGED" /\ state' = "LOGGED" /\ cur # 0
      /\ Running /\ allocated /\ nbpidchild > 0 /\ UNCHANGED <<cur, kindOf>>
  <2>1. InTransfer /\ sent = <<>>
    BY SuccessIsComplete
  <2>2. cur # 0
    BY <2>1, AskedFor, MaxTransfersAssumption DEF FullInv, InTransfer, Transfers
  <2>3. nbpidchild > 0
    BY DEF SigchldSuccess, SigchldCollects, AllEnded
  <2> QED BY <2>1, <2>2, <2>3
          DEF InTransfer, SigchldSuccess, SigchldCollects, SigchldRaised, askVars
<1>2. PICK ok \in BOOLEAN :
        /\ \/ sent' = Told(Answer(ok)) /\ UNCHANGED pc
           \/ pc' = "exit" /\ UNCHANGED sent
        /\ ok /\ kindOf[cur] = "store" => fs'["cur"] = "new" /\ fs["tmp"] # "absent"
        /\ ~ok \/ kindOf[cur] # "store" => fs'["cur"] = fs["cur"]
  BY SuccessFile
<1>3. CASE pc' = "exit" /\ UNCHANGED sent
  <2>1. ~Running'
    BY <1>3 DEF Running
  <2> QED BY <1>1, <1>2, <1>3, <2>1, Ends
<1>4. CASE pc = "quit" /\ sent' = Told(Answer(ok)) /\ UNCHANGED pc
  <2>1. UNCHANGED sent /\ Running'
    BY <1>4 DEF Told, Running
  <2>2. kindOf[cur] = "store" => state = "RECEIVING"
    BY SuccessIsComplete
  <2>3. kindOf[cur] = "store" => fs["tmp"] = "absent"
    BY <1>1, <1>4, <2>2 DEF FullInv, AtomicInv, NothingToRename
  <2>4. fs'["cur"] = fs["cur"]
    BY <1>2, <2>3
  <2> QED BY <1>1, <2>1, <2>4, Calm
<1>5. CASE pc # "quit" /\ sent' = Told(Answer(ok)) /\ UNCHANGED pc
  <2>1. Running' /\ sent' = Append(<<>>, Answer(ok))
    BY <1>1, <1>5 DEF Told, Running
  <2>2. CASE ok
    <3>1. sent' = <<"OK">>
      BY <2>1, <2>2, Answers DEF Answer
    <3> QED BY <1>1, <1>2, <2>1, <2>2, <3>1, Delivered
  <2>3. CASE ~ok
    <3>1. sent' = <<"BAD">>
      BY <2>1, <2>3, Answers DEF Answer
    <3> QED BY <1>1, <1>2, <2>1, <2>3, <3>1, Refused
  <2> QED BY <2>2, <2>3
<1> QED BY <1>2, <1>3, <1>4, <1>5

LEMMA FailureStep == ASSUME Assumed, FullInv, SigchldFailure PROVE Step
<1>1. Running /\ pc' \in {pc, "exit", "ub"} /\ UNCHANGED <<cur, kindOf>> /\ fs'["cur"] = fs["cur"]
  BY FailureFrame DEF SigchldFailure, SigchldCollects, SigchldRaised
<1>2. state = "LOGGED" => state' = "LOGGED"
  BY FailureFrame
<1>3. CASE UNCHANGED sent /\ Running'
  BY <1>1, <1>2, <1>3, Calm
<1>4. CASE UNCHANGED sent /\ ~Running'
  BY <1>1, <1>4, Ends
<1>5. CASE sent = <<>> /\ state # "LOGGED" /\ pc' = pc /\ sent' = Told("BAD") /\ sent' # sent
  <2>1. sent' = <<"BAD">>
    BY <1>5, Answers DEF Told
  <2>2. Running' /\ state # "LOGGED"
    BY <1>1, <1>5 DEF Running, InTransfer
  <2> QED BY <1>1, <1>5, <2>1, <2>2, Refused
<1> QED BY <1>3, <1>4, <1>5, FailureFrame

LEMMA SignalStep == ASSUME Assumed, FullInv, Signal PROVE Step
<1>1. CASE SigchldNone \/ SigchldFreed \/ SigchldPart
  <2>1. Running /\ UNCHANGED <<state, cur, kindOf, sent, fs>>
    BY <1>1 DEF SigchldNone, SigchldFreed, SigchldPart, SigchldCollects, SigchldRaised, ctlVars,
                askVars
  <2>2. CASE Running'
    BY <2>1, <2>2, Calm
  <2>3. CASE ~Running'
    BY <2>1, <2>3, Ends
  <2> QED BY <2>2, <2>3
<1> QED BY <1>1, SuccessStep, FailureStep DEF Signal

LEMMA StepNext == ASSUME Assumed PROVE FullInv /\ [Next]_vars => Step
<1> SUFFICES ASSUME FullInv, [Next]_vars PROVE Step
  OBVIOUS
<1>1. CASE Control \/ Engine \/ Signal
  BY <1>1, ControlStep, EngineStep, SignalStep
<1>2. CASE Sigterm
  <2>1. /\ Running /\ pc' \in {"exit", "ub"} /\ UNCHANGED <<cur, kindOf, sent>>
        /\ (fs' = fs \/ fs' = UnlinkReal)
    BY <1>2 DEF Sigterm, CleanChildThen, askVars
  <2>2. fs'["cur"] = fs["cur"] /\ ~Running'
    BY <2>1, UnlinkTmp DEF FullInv, TypeInv, ValueInv, Running
  <2> QED BY <2>1, <2>2, Ends
<1>3. ASSUME NEW p \in Pids, Serve(p) \/ StreamFails(p) \/ ChildKilled(p) PROVE Step
  <2>1. UNCHANGED <<pc, state, cur, kindOf, sent>> /\ fs'["cur"] = fs["cur"]
    BY <1>3, ServeFrame DEF FullInv, fatherVars, ctlVars, askVars
  <2> QED BY <2>1 DEF Step, AtomicStoreView!vars, Running
<1>4. CASE UNCHANGED vars
  BY <1>4 DEF vars, Step, AtomicStoreView!vars, Running
<1> QED BY <1>1, <1>2, <1>3, <1>4 DEF Next, Gone

LEMMA StepInit == Init => AtomicStoreView!Init
<1> SUFFICES ASSUME Init PROVE AtomicStoreView!Init
  OBVIOUS
<1>1. pc = "top" /\ state = "LOGGED" /\ sent = <<>> /\ cur = 0 /\ fs["cur"] \in {"absent", "old"}
  BY DEF Init, Paths
<1> QED BY <1>1 DEF AtomicStoreView!Init, Running

\* With a temporary name the session implements AtomicStore: the answer to a request
\* stands, and the destination changes only from the file that was there to the complete
\* new one, together with MSG_OK or with the end of the session.
THEOREM ImplementsAtomicStore == ASSUME Assumed PROVE Spec => AtomicStoreImplemented
<1>1. FullInv /\ [Next]_vars => [AtomicStoreView!Next]_(AtomicStoreView!vars)
  BY StepNext DEF Step
<1> QED BY <1>1, StepInit, FullInit, FullNext, PTL
        DEF Spec, AtomicStoreImplemented, AtomicStoreView!Spec

=============================================================================
