---------------------------- MODULE ClientProof ----------------------------
(* Theorems about Client, for all bounds, kinds of commands and faults.     *)
EXTENDS Client, TLAPS

-----------------------------------------------------------------------------
(* Types.                                                                  *)

Channels == [Sessions -> Seq(Messages)]
ReturnCodes == {"OK", "ERROR", "unset"} \cup NoRetryCodes \cup BrokenCodes
States == {"idle", "loop", "connect", "try", "answer", "prepare", "zero", "wait", "exit"}

\* The parts of TypeOK: the loop over commands and tries, ...
LoopType ==
  /\ pc \in States /\ cmd \in 0..MaxCommands /\ tries \in 0..MaxTries /\ conn \in Sessions
  /\ kindOf \in [Commands -> {"put", "get", "other"}] /\ emptyOf \in [Commands -> BOOLEAN]
  /\ retcode \in ReturnCodes /\ broken \in BOOLEAN
  /\ reported \in [Commands -> {"none", "OK", "unset", "FAILED"}]
\* ... one try, ...
TryType ==
  /\ k \in BOOLEAN /\ kids \in {"none", "running", "acked", "ended", "collected"}
  /\ local \in {"absent", "partial", "full"}
DestType == dest \in [Commands -> {"old", "new", "part"}]
\* ... the connections, and the sessions.
NetType == open \in [Sessions -> BOOLEAN] /\ toServer \in Channels /\ toClient \in Channels
ServerType ==
  /\ srv \in [Sessions -> {"none", "LOGGED", "START", "ZERO", "BUSY", "CLEAN", "exit"}]
  /\ job \in [Sessions -> Tags]
  /\ skids \in [Sessions -> {"none", "running", "acked", "done", "bad"}]
  /\ remote \in [Sessions -> {"absent", "partial", "full"}]

\* TypeOK is these five parts ...
LEMMA TypeParts == TypeOK <=> LoopType /\ TryType /\ DestType /\ NetType /\ ServerType
BY DEF TypeOK, LoopType, TryType, DestType, NetType, ServerType, Channels, ReturnCodes, States

\* ... and so in the next state.
LEMMA TypePartsNext == LoopType' /\ TryType' /\ DestType' /\ NetType' /\ ServerType' => TypeOK'
BY DEF TypeOK, LoopType, TryType, DestType, NetType, ServerType, Channels, ReturnCodes, States

\* The program starts with values of these types.
LEMMA TypeInit == Init => TypeOK
<1> SUFFICES ASSUME Init PROVE TypeOK
  OBVIOUS
<1>1. 1 \in Sessions /\ 0 \in 0..MaxCommands /\ 0 \in 0..MaxTries
  BY BoundsAssumption DEF Sessions
<1>2. LoopType
  BY <1>1 DEF Init, LoopType, States, ReturnCodes
<1>3. TryType /\ DestType
  BY DEF Init, TryType, DestType
<1>4. NetType
  <2>1. <<>> \in Seq(Messages)
    OBVIOUS
  <2> QED
    BY <2>1 DEF Init, NetType, Channels
<1>5. ServerType
  BY <1>1 DEF Init, ServerType, Tags
<1> QED
  BY <1>2, <1>3, <1>4, <1>5, TypeParts

\* What is sent and received keeps the channels well typed.
LEMMA SendType ==
  ASSUME LoopType, NetType, NEW code \in Codes, Send(code) PROVE toServer' \in Channels
<1>1. Msg(code) \in Messages
  BY DEF LoopType, Msg, Messages, Try, Tags
<1>2. conn \in Sessions /\ toServer \in Channels
  BY DEF LoopType, NetType
<1>3. Append(toServer[conn], Msg(code)) \in Seq(Messages)
  BY <1>1, <1>2 DEF Channels
<1> QED
  BY <1>2, <1>3 DEF Send, Channels

\* Receiving takes the head of a sequence that is not empty.
LEMMA ReceiveType ==
  ASSUME LoopType, NetType, Arrived, Receive PROVE toClient' \in Channels
<1>1. conn \in Sessions /\ toClient \in Channels
  BY DEF LoopType, NetType
<1>2. toClient[conn] \in Seq(Messages) /\ toClient[conn] # <<>>
  BY <1>1 DEF Channels, Arrived
<1>3. Tail(toClient[conn]) \in Seq(Messages)
  BY <1>2
<1> QED
  BY <1>1, <1>3 DEF Receive, Channels

\* What a closed connection still held is dropped.
LEMMA CloseType ==
  ASSUME NetType, CloseControl PROVE open' \in [Sessions -> BOOLEAN] /\ toClient' \in Channels
<1>1. <<>> \in Seq(Messages)
  OBVIOUS
<1> QED
  BY <1>1 DEF NetType, CloseControl, Channels

\* Whatever a command returns, treatcommand ends in a state of its loop.
LEMMA ReturnType ==
  ASSUME LoopType, NEW rc \in ReturnCodes, Return(rc), UNCHANGED frame PROVE LoopType'
<1>1. tries' \in 0..MaxTries
  BY BoundsAssumption DEF LoopType, Return
<1>2. /\ pc' \in States /\ retcode' \in ReturnCodes /\ broken' \in BOOLEAN
  BY DEF LoopType, Return, States
<1> QED
  BY <1>1, <1>2 DEF LoopType, frame

\* A try that breaks the connection.
LEMMA BrokenType == ASSUME TypeOK, NEW rc \in ReturnCodes, Broken(rc) PROVE TypeOK'
<1>1. LoopType /\ TryType /\ DestType /\ NetType /\ ServerType
  BY TypeParts
<1>2. LoopType'
  BY <1>1, ReturnType DEF Broken
<1>3. NetType'
  BY <1>1, CloseType DEF Broken, NetType
<1>4. TryType' /\ DestType' /\ ServerType'
  BY <1>1 DEF Broken, CleanChild, frame, serverVars, TryType, DestType, ServerType
<1> QED
  BY <1>2, <1>3, <1>4, TypePartsNext

\* A try given up before the start, with MSG_ABORT or without a connection.
LEMMA AbortType ==
  ASSUME TypeOK, NEW rc \in ReturnCodes, NEW brokenRc \in ReturnCodes, Abort(rc, brokenRc)
  PROVE  TypeOK'
<1>1. LoopType /\ TryType /\ DestType /\ NetType /\ ServerType
  BY TypeParts
<1>2. CASE Broken(brokenRc)
  BY <1>2, BrokenType
<1>3. CASE Send("ABORT") /\ Return(rc) /\ UNCHANGED <<frame, kids, k, local, dest, open, toClient>>
  <2>1. LoopType'
    BY <1>1, <1>3, ReturnType
  <2>2. toServer' \in Channels
    <3>1. "ABORT" \in Codes
      BY DEF Codes
    <3> QED
      BY <3>1, <1>1, <1>3, SendType
  <2>3. TryType' /\ DestType' /\ ServerType'
    BY <1>1, <1>3 DEF frame, serverVars, TryType, DestType, ServerType
  <2>4. NetType'
    BY <1>1, <1>3, <2>2 DEF NetType
  <2> QED
    BY <2>1, <2>3, <2>4, TypePartsNext
<1> QED
  BY <1>2, <1>3 DEF Abort

\* A new connection is one of the sessions.
LEMMA TypeConnected ==
  ASSUME TypeOK, NEW ok \in BOOLEAN, Connected(ok), broken' \in BOOLEAN, pc' \in States
  PROVE  TypeOK'
<1>1. LoopType /\ TryType /\ DestType /\ NetType /\ ServerType
  BY TypeParts
<1>2. conn' \in Sessions
  BY <1>1, BoundsAssumption DEF Connected, LoopType, Sessions
<1>3. LoopType'
  BY <1>1, <1>2 DEF Connected, LoopType
<1>4. NetType'
  BY <1>1 DEF Connected, NetType
<1>5. ServerType'
  BY <1>1 DEF Connected, ServerType
<1>6. TryType' /\ DestType'
  BY <1>1 DEF Connected, TryType, DestType
<1> QED
  BY <1>3, <1>4, <1>5, <1>6, TypePartsNext

\* The steps of the client, by the parts they change.
LEMMA TypeLoop == ASSUME TypeOK, Loop PROVE TypeOK'
<1>1. LoopType /\ TryType /\ DestType /\ NetType /\ ServerType
  BY TypeParts
<1>2. CASE NextCommand
  <2>1. LoopType'
    <3>1. PICK kind \in Kinds, empty \in BOOLEAN :
            /\ kindOf' = [kindOf EXCEPT ![cmd + 1] = kind]
            /\ emptyOf' = [emptyOf EXCEPT ![cmd + 1] = empty]
      BY <1>2 DEF NextCommand
    <3>2. kind \in {"put", "get", "other"}
      BY ChoicesAssumption
    <3>3. kindOf' \in [Commands -> {"put", "get", "other"}]
      BY <1>1, <3>1, <3>2 DEF LoopType
    <3>4. emptyOf' \in [Commands -> BOOLEAN]
      BY <1>1, <3>1 DEF LoopType
    <3>5. cmd' \in 0..MaxCommands /\ tries' \in 0..MaxTries
      BY <1>1, <1>2, BoundsAssumption DEF NextCommand, LoopType
    <3>6. pc' \in States /\ retcode' \in ReturnCodes
      BY <1>2 DEF NextCommand, States, ReturnCodes
    <3> QED
      BY <1>1, <1>2, <3>3, <3>4, <3>5, <3>6 DEF NextCommand, LoopType
  <2> QED
    BY <1>1, <1>2, <2>1, TypePartsNext
       DEF NextCommand, netVars, serverVars, TryType, DestType, NetType, ServerType
<1>3. CASE StartTry
  <2>1. tries' \in 0..MaxTries
    BY <1>1, <1>3, BoundsAssumption DEF StartTry, LoopType
  <2>2. LoopType'
    BY <1>1, <1>3, <2>1 DEF StartTry, LoopType, States
  <2> QED
    BY <1>1, <1>3, <2>2, TypePartsNext
       DEF StartTry, netVars, serverVars, TryType, DestType, NetType, ServerType
<1>4. CASE Report
  <2>1. LoopType'
    BY <1>1, <1>4 DEF Report, LoopType, States
  <2> QED
    BY <1>1, <1>4, <2>1, TypePartsNext
       DEF Report, netVars, serverVars, TryType, DestType, NetType, ServerType
<1>5. CASE Reconnect
  BY <1>5, TypeConnected DEF Reconnect, States
<1>6. CASE Quit
  <2>1. LoopType'
    BY <1>1, <1>6 DEF Quit, LoopType, States
  <2>2. NetType'
    BY <1>1, <1>6, CloseType DEF Quit, CloseControl, NetType
  <2> QED
    BY <1>1, <1>6, <2>1, <2>2, TypePartsNext DEF Quit, serverVars, TryType, DestType, ServerType
<1> QED
  BY <1>2, <1>3, <1>4, <1>5, <1>6 DEF Loop

\* A step of a try: it goes on, or it returns.
LEMMA GoesOnType ==
  ASSUME LoopType, pc' \in States, UNCHANGED <<frame, tryVars>> PROVE LoopType'
BY DEF LoopType, frame, tryVars

\* A step of a try changes no session.
LEMMA TryStepType ==
  ASSUME TypeOK, LoopType', TryType', DestType', UNCHANGED frame,
         open' \in [Sessions -> BOOLEAN], toServer' \in Channels, toClient' \in Channels
  PROVE  TypeOK'
<1>1. ServerType'
  BY TypeParts DEF frame, serverVars, ServerType
<1> QED
  BY <1>1, TypePartsNext DEF NetType

\* The request and its answer.
LEMMA TypeRequest ==
  ASSUME TypeOK,
         \/ PutAsk \/ GetAsk \/ CommandAsk \/ AnswerBroken \/ Refused \/ AnsweredOk \/ Accepted
         \/ CheckFails \/ AskFails
  PROVE  TypeOK'
<1>1. LoopType /\ TryType /\ DestType /\ NetType
  BY TypeParts
<1>2. {"OK", "ERROR", "FT_NR", "CONN_BROKEN", "FT_NR_CONN_BROKEN"} \subseteq ReturnCodes
  BY DEF ReturnCodes, NoRetryCodes, BrokenCodes
<1>3. CASE PutAsk \/ GetAsk \/ CommandAsk
  <2>1. PICK code \in {"STORE", "RETR", "CMD"} :
          /\ Send(code) /\ pc' = "answer"
          /\ UNCHANGED <<frame, tryVars, kids, k, local, dest, open, toClient>>
    BY <1>3 DEF PutAsk, GetAsk, CommandAsk, Ask
  <2>2. code \in Codes
    BY DEF Codes, Requests
  <2>3. toServer' \in Channels
    BY <1>1, <2>1, <2>2, SendType
  <2>4. LoopType'
    BY <1>1, <2>1, GoesOnType DEF States
  <2> QED
    BY <1>1, <2>1, <2>3, <2>4, TryStepType DEF TryType, DestType, NetType
<1>4. CASE AnswerBroken \/ AskFails
  BY <1>2, <1>4, BrokenType DEF AnswerBroken, AskFails
<1>5. CASE Refused \/ AnsweredOk
  <2>1. PICK rc \in {"OK", "ERROR", "FT_NR"} :
          /\ Arrived /\ Receive /\ Return(rc)
          /\ UNCHANGED <<frame, kids, k, local, dest, open, toServer>>
    BY <1>5 DEF Refused, AnsweredOk, Answered
  <2>2. toClient' \in Channels
    BY <1>1, <2>1, ReceiveType
  <2>3. LoopType'
    BY <1>1, <1>2, <2>1, ReturnType
  <2> QED
    BY <1>1, <2>1, <2>2, <2>3, TryStepType DEF TryType, DestType, NetType
<1>6. CASE Accepted
  <2>1. toClient' \in Channels
    BY <1>1, <1>6, ReceiveType DEF Accepted, Answered
  <2>2. LoopType'
    BY <1>1, <1>6, GoesOnType DEF Accepted, States
  <2> QED
    BY <1>1, <1>6, <2>1, <2>2, TryStepType DEF Accepted, TryType, DestType, NetType
<1>7. CASE CheckFails
  <2>1. LoopType'
    BY <1>1, <1>2, <1>7, ReturnType DEF CheckFails
  <2> QED
    BY <1>1, <1>7, <2>1, TryStepType DEF CheckFails, netVars, TryType, DestType, NetType
<1> QED
  BY <1>3, <1>4, <1>5, <1>6, <1>7

\* Between the acceptance and the start, and the get of an empty file.
LEMMA TypeStart ==
  ASSUME TypeOK,
         \/ PutGivesUp \/ GetGivesUp \/ CreateFails \/ PutStart \/ GetStart
         \/ GetEmpty \/ GetEmptyNotRenamed \/ PutStartFails \/ GetStartFails \/ GetEmptyModeFails
  PROVE  TypeOK'
<1>1. LoopType /\ TryType /\ DestType /\ NetType
  BY TypeParts
<1>2. {"OK", "ERROR", "FT_NR", "CONN_BROKEN", "FT_NR_CONN_BROKEN"} \subseteq ReturnCodes
  BY DEF ReturnCodes, NoRetryCodes, BrokenCodes
<1>3. CASE PutGivesUp \/ GetGivesUp \/ CreateFails \/ GetEmptyNotRenamed
  BY <1>2, <1>3, AbortType DEF PutGivesUp, GetGivesUp, CreateFails, GetEmptyNotRenamed
<1>4. CASE PutStart \/ GetStart
  <2>1. CASE Broken("CONN_BROKEN")
    BY <1>2, <2>1, BrokenType
  <2>2. ASSUME NEW file \in {"absent", "partial"},
               /\ kids' = "running" /\ k' = FALSE /\ local' = file
               /\ Send("START") /\ pc' = "wait"
               /\ UNCHANGED <<frame, tryVars, dest, open, toClient>>
        PROVE  TypeOK'
    <3>1. toServer' \in Channels
      <4>1. "START" \in Codes
        BY DEF Codes
      <4> QED
        BY <4>1, <1>1, <2>2, SendType
    <3>2. LoopType'
      BY <1>1, <2>2, GoesOnType DEF States
    <3> QED
      BY <1>1, <2>2, <3>1, <3>2, TryStepType DEF TryType, DestType, NetType
  <2> QED
    BY <1>4, <2>1, <2>2 DEF PutStart, GetStart, Start
<1>5. CASE GetEmpty
  <2>1. DestType'
    BY <1>1, <1>5 DEF GetEmpty, DestType
  <2>2. TryType'
    BY <1>1, <1>5 DEF GetEmpty, TryType
  <2>3. CASE Send("ZERO") /\ Return("OK") /\ UNCHANGED <<open, toClient>>
    <3>1. toServer' \in Channels
      <4>1. "ZERO" \in Codes
        BY DEF Codes
      <4> QED
        BY <4>1, <1>1, <2>3, SendType
    <3>2. LoopType'
      BY <1>1, <1>2, <1>5, <2>3, ReturnType DEF GetEmpty
    <3> QED
      BY <1>1, <1>5, <2>1, <2>2, <2>3, <3>1, <3>2, TryStepType DEF GetEmpty, NetType
  <2>4. CASE CloseControl /\ Return("CONN_BROKEN") /\ UNCHANGED toServer
    <3>1. open' \in [Sessions -> BOOLEAN] /\ toClient' \in Channels
      BY <1>1, <2>4, CloseType
    <3>2. LoopType'
      BY <1>1, <1>2, <1>5, <2>4, ReturnType DEF GetEmpty
    <3> QED
      BY <1>1, <1>5, <2>1, <2>2, <2>4, <3>1, <3>2, TryStepType DEF GetEmpty, NetType
  <2> QED
    BY <1>5, <2>3, <2>4 DEF GetEmpty
<1>6. CASE PutStartFails \/ GetStartFails \/ GetEmptyModeFails
  <2>1. Return("ERROR") /\ UNCHANGED <<frame, kids, k, local, dest, netVars>>
    BY <1>6 DEF PutStartFails, GetStartFails, StartFails, GetEmptyModeFails
  <2>2. LoopType'
    BY <1>1, <1>2, <2>1, ReturnType
  <2> QED
    BY <1>1, <2>1, <2>2, TryStepType DEF netVars, TryType, DestType, NetType
<1> QED
  BY <1>3, <1>4, <1>5, <1>6

\* The end of a transfer.
LEMMA TypeWait ==
  ASSUME TypeOK,
         \/ CheckChildren \/ FirstTimeNoChild \/ NoMoreChild \/ WaitBroken \/ Informed
         \/ TransferFailed \/ PutDone \/ GetDone \/ GetDoneFails
  PROVE  TypeOK'
<1>1. LoopType /\ TryType /\ DestType /\ NetType
  BY TypeParts
<1>2. {"OK", "ERROR", "FT_NR", "CONN_BROKEN"} \subseteq ReturnCodes
  BY DEF ReturnCodes, NoRetryCodes, BrokenCodes
<1>3. CASE CheckChildren \/ FirstTimeNoChild
  <2>1. LoopType'
    BY <1>1, <1>3, GoesOnType DEF CheckChildren, FirstTimeNoChild, LoopType
  <2> QED
    BY <1>1, <1>3, <2>1, TryStepType
       DEF CheckChildren, FirstTimeNoChild, netVars, TryType, DestType, NetType
<1>4. CASE NoMoreChild \/ WaitBroken
  BY <1>2, <1>4, BrokenType DEF NoMoreChild, WaitBroken
<1>5. CASE Informed
  <2>1. toClient' \in Channels
    BY <1>1, <1>5, ReceiveType DEF Informed, Ended
  <2>2. LoopType'
    BY <1>1, <1>5, GoesOnType DEF Informed, LoopType
  <2> QED
    BY <1>1, <1>5, <2>1, <2>2, TryStepType DEF Informed, TryType, DestType, NetType
<1>6. CASE TransferFailed \/ PutDone
  <2>1. PICK rc \in {"OK", "ERROR", "FT_NR"} : Arrived /\ Receive /\ Return(rc)
    BY <1>6 DEF TransferFailed, PutDone, Ended
  <2>2. toClient' \in Channels
    BY <1>1, <2>1, ReceiveType
  <2>3. LoopType'
    BY <1>1, <1>2, <1>6, <2>1, ReturnType DEF TransferFailed, PutDone
  <2> QED
    BY <1>1, <1>6, <2>2, <2>3, TryStepType
       DEF TransferFailed, PutDone, CleanChild, TryType, DestType, NetType
<1>7. CASE GetDone
  <2>1. toClient' \in Channels
    BY <1>1, <1>7, ReceiveType DEF GetDone, Ended
  <2>2. LoopType'
    BY <1>1, <1>2, <1>7, ReturnType DEF GetDone
  <2>3. DestType'
    BY <1>1, <1>7 DEF GetDone, DestType
  <2> QED
    BY <1>1, <1>7, <2>1, <2>2, <2>3, TryStepType DEF GetDone, CleanChild, TryType, NetType
<1>8. CASE GetDoneFails
  <2>1. Msg("payload") \in Messages
    BY <1>1 DEF LoopType, Msg, Messages, Codes, Try, Tags
  <2>2. conn \in Sessions /\ toClient[conn] \in Seq(Messages) /\ toClient[conn] # <<>>
    BY <1>1, <1>8 DEF GetDoneFails, Ended, Arrived, LoopType, NetType, Channels
  <2>3. <<Msg("payload")>> \o Tail(toClient[conn]) \in Seq(Messages)
    BY <2>1, <2>2
  <2>4. toClient' \in Channels
    BY <1>1, <1>8, <2>3 DEF GetDoneFails, NetType, Channels
  <2>5. LoopType'
    BY <1>1, <1>2, <1>8, ReturnType DEF GetDoneFails
  <2> QED
    BY <1>1, <1>8, <2>4, <2>5, TryStepType
       DEF GetDoneFails, CleanChild, TryType, DestType, NetType
<1> QED
  BY <1>3, <1>4, <1>5, <1>6, <1>7, <1>8

\* A connection that cannot be set up, the end of the program by itself or by a signal.
LEMMA TypeMishap == ASSUME TypeOK, NoNames \/ SetupFails \/ GiveUp \/ Signalled PROVE TypeOK'
<1>1. LoopType /\ TryType /\ DestType /\ NetType /\ ServerType
  BY TypeParts
<1>2. CASE SetupFails
  BY <1>1, <1>2, TypeConnected DEF SetupFails, LoopType
<1>3. CASE GiveUp
  <2>1. LoopType'
    BY <1>1, <1>3 DEF GiveUp, LoopType, States
  <2> QED
    BY <1>1, <1>3, <2>1, TypePartsNext
       DEF GiveUp, netVars, serverVars, TryType, DestType, NetType, ServerType
<1>4. CASE Signalled
  <2>1. LoopType'
    BY <1>1, <1>4, GoesOnType DEF Signalled, States
  <2>2. open' \in [Sessions -> BOOLEAN] /\ toClient' \in Channels
    BY <1>1, <1>4, CloseType DEF Signalled
  <2> QED
    BY <1>1, <1>4, <2>1, <2>2, TryStepType
       DEF Signalled, CleanChild, TryType, DestType, NetType
<1>5. CASE NoNames
  <2>1. LoopType'
    BY <1>1, <1>5, BoundsAssumption DEF NoNames, LoopType, States, ReturnCodes
  <2> QED
    BY <1>1, <1>5, <2>1, TypePartsNext
       DEF NoNames, netVars, serverVars, TryType, DestType, NetType, ServerType
<1> QED
  BY <1>2, <1>3, <1>4, <1>5

\* The children of both sides change only their own state and the files.
LEMMA TypeChildren ==
  ASSUME TypeOK, PutAcked \/ KidsFail \/ \E s \in Sessions : Children(s) PROVE TypeOK'
<1>1. LoopType /\ TryType /\ DestType /\ NetType /\ ServerType
  BY TypeParts
<1>2. UNCHANGED childFrame
  BY DEF PutAcked, KidsFail, Children, PutData, GetData, GetAcked, SkidsFail
<1>3. LoopType' /\ NetType'
  BY <1>1, <1>2 DEF childFrame, netVars, LoopType, NetType
<1>4. DestType'
  BY <1>1 DEF PutAcked, KidsFail, Children, PutData, GetData, GetAcked, SkidsFail, DestType
<1>5. TryType'
  BY <1>1, <1>2
     DEF PutAcked, KidsFail, Children, PutData, GetData, GetAcked, SkidsFail, childFrame, TryType
<1>6. srv' = srv /\ job' = job
  BY <1>2 DEF childFrame
<1>7. CASE PutAcked \/ KidsFail
  BY <1>1, <1>3, <1>4, <1>5, <1>6, <1>7, TypePartsNext DEF PutAcked, KidsFail, ServerType
<1>8. ASSUME NEW s \in Sessions, Children(s) PROVE TypeOK'
  <2>1. skids' \in [Sessions -> {"none", "running", "acked", "done", "bad"}]
    BY <1>1, <1>8 DEF Children, PutData, GetData, GetAcked, SkidsFail, ServerType
  <2>2. remote' \in [Sessions -> {"absent", "partial", "full"}]
    BY <1>1, <1>8 DEF Children, PutData, GetData, GetAcked, SkidsFail, ServerType
  <2> QED
    BY <1>1, <1>3, <1>4, <1>5, <1>6, <2>1, <2>2, TypePartsNext DEF ServerType
<1> QED
  BY <1>7, <1>8

-----------------------------------------------------------------------------
(* Types: the sessions of the server.                                      *)

\* An answer names the try it is about.
LEMMA ReplyType ==
  ASSUME NetType, NEW s \in Sessions, NEW code \in Codes, NEW tag \in Tags, Reply(s, code, tag)
  PROVE  toClient' \in Channels
<1>1. [code |-> code, tag |-> tag] \in Messages
  BY DEF Messages
<1>2. Append(toClient[s], [code |-> code, tag |-> tag]) \in Seq(Messages)
  BY <1>1 DEF NetType, Channels
<1> QED
  BY <1>2 DEF Reply, NetType, Channels

\* A session takes the head of its channel.
LEMMA TakeType ==
  ASSUME NetType, NEW s \in Sessions, toServer[s] # <<>>, Take(s)
  PROVE  toServer' \in Channels
<1>1. Tail(toServer[s]) \in Seq(Messages)
  BY DEF NetType, Channels
<1> QED
  BY <1>1 DEF Take, NetType, Channels

\* A request names the try it is about.
LEMMA AskedType ==
  ASSUME NetType, NEW s \in Sessions, toServer[s] # <<>> PROVE Asked(s) \in Tags
<1>1. Head(toServer[s]) \in Messages
  BY DEF NetType, Channels
<1> QED
  BY <1>1 DEF Asked, Messages

\* A step of a session leaves the client alone.
LEMMA ServerStepType ==
  ASSUME TypeOK, UNCHANGED serverFrame, DestType', ServerType',
         toServer' \in Channels, toClient' \in Channels
  PROVE  TypeOK'
<1>1. LoopType /\ TryType /\ NetType
  BY TypeParts
<1>2. LoopType' /\ TryType' /\ NetType'
  BY <1>1 DEF serverFrame, clientVars, LoopType, TryType, NetType
<1> QED
  BY <1>2, TypePartsNext

\* The answers to the requests.
LEMMA TypeRequestServed ==
  ASSUME TypeOK, NEW s \in Sessions, ServeStore(s) \/ ServeRetr(s) \/ ServeCommand(s)
  PROVE  TypeOK'
<1>1. DestType /\ NetType /\ ServerType
  BY TypeParts
<1>2. {"ACCEPT", "EMPTY", "OK", "BAD", "NORETRY"} \subseteq Codes
  BY DEF Codes, Final
<1>3. toServer[s] # <<>> /\ Take(s) /\ UNCHANGED serverFrame
  BY DEF ServeStore, ServeRetr, ServeCommand, Pending
<1>4. toServer' \in Channels
  BY <1>1, <1>3, TakeType
<1>5. Asked(s) \in Tags
  BY <1>1, <1>3, AskedType
<1>6. PICK code \in {"ACCEPT", "EMPTY", "OK", "BAD", "NORETRY"} : Reply(s, code, Asked(s))
  BY DEF ServeStore, ServeRetr, ServeCommand, Refusals
<1>7. toClient' \in Channels
  BY <1>1, <1>2, <1>5, <1>6, ReplyType
<1>8. DestType'
  BY <1>1 DEF ServeStore, ServeRetr, ServeCommand, DestType
<1>9. ServerType'
  BY <1>1, <1>5 DEF ServeStore, ServeRetr, ServeCommand, serverVars, ServerType
<1> QED
  BY <1>3, <1>4, <1>7, <1>8, <1>9, ServerStepType

\* The start and what closes a request.
LEMMA TypeStartServed ==
  ASSUME TypeOK, NEW s \in Sessions, ServeStart(s) \/ ServeClosed(s) PROVE TypeOK'
<1>1. DestType /\ NetType /\ ServerType
  BY TypeParts
<1>2. {"INFO", "BAD"} \subseteq Codes
  BY DEF Codes, Final
<1>3. toServer[s] # <<>> /\ Take(s) /\ UNCHANGED serverFrame
  BY DEF ServeStart, ServeClosed, Pending
<1>4. toServer' \in Channels
  BY <1>1, <1>3, TakeType
<1>5. job[s] \in Tags
  BY <1>1 DEF ServerType
<1>6. toClient' = toClient \/ \E code \in {"INFO", "BAD"} : Reply(s, code, job[s])
  BY DEF ServeStart, ServeClosed
<1>7. toClient' \in Channels
  BY <1>1, <1>2, <1>5, <1>6, ReplyType DEF NetType
<1>8. DestType'
  BY <1>1 DEF ServeStart, ServeClosed, DestType
<1>9. ServerType'
  BY <1>1 DEF ServeStart, ServeClosed, ServerType
<1> QED
  BY <1>3, <1>4, <1>7, <1>8, <1>9, ServerStepType

\* The end of a session.
LEMMA TypeEnded ==
  ASSUME TypeOK, NEW s \in Sessions, EndSession(s), toClient' \in Channels PROVE TypeOK'
<1>1. DestType /\ NetType /\ ServerType
  BY TypeParts
<1>2. toServer' \in Channels
  <2>1. <<>> \in Seq(Messages)
    OBVIOUS
  <2> QED
    BY <1>1, <2>1 DEF EndSession, NetType, Channels
<1>3. <<0, 0>> \in Tags
  BY BoundsAssumption DEF Tags
<1>4. ServerType'
  BY <1>1, <1>3 DEF EndSession, ServerType
<1>5. DestType' /\ UNCHANGED serverFrame
  BY <1>1 DEF EndSession, DestType
<1> QED
  BY <1>2, <1>4, <1>5, ServerStepType

\* Every step of a session.
LEMMA TypeServe ==
  ASSUME TypeOK, NEW s \in Sessions, Serve(s) \/ ServeTimeout(s) PROVE TypeOK'
<1>1. DestType /\ NetType /\ ServerType
  BY TypeParts
<1>2. CASE ServeStore(s) \/ ServeRetr(s) \/ ServeCommand(s) \/ ServeStart(s) \/ ServeClosed(s)
  BY <1>2, TypeRequestServed, TypeStartServed
<1>3. CASE ServeInvalid(s)
  <2>1. Asked(s) \in Tags /\ "NORETRY" \in Codes
    BY <1>1, <1>3, AskedType DEF ServeInvalid, Codes, Final
  <2>2. toClient' \in Channels
    BY <1>1, <1>3, <2>1, ReplyType DEF ServeInvalid
  <2> QED
    BY <1>3, <2>2, TypeEnded DEF ServeInvalid
<1>4. CASE ServeInterrupted(s) \/ ServeEof(s) \/ ServeTimeout(s)
  BY <1>1, <1>4, TypeEnded DEF ServeInterrupted, ServeEof, ServeTimeout, NetType
<1>5. CASE ServeFinish(s) \/ ServeFailed(s)
  <2>1. {"OK", "BAD", "NORETRY"} \subseteq Codes /\ job[s] \in Tags
    BY <1>1 DEF Codes, Final, ServerType
  <2>2. PICK code \in {"OK", "BAD", "NORETRY"} : Reply(s, code, job[s])
    BY <1>5 DEF ServeFinish, ServeFailed, Refusals
  <2>3. toClient' \in Channels
    BY <1>1, <2>1, <2>2, ReplyType
  <2>4. DestType'
    BY <1>1, <1>5 DEF ServeFinish, ServeFailed, DestType
  <2>5. ServerType'
    BY <1>1, <1>5 DEF ServeFinish, ServeFailed, ServerType
  <2> QED
    BY <1>1, <1>5, <2>3, <2>4, <2>5, ServerStepType DEF ServeFinish, ServeFailed, NetType
<1>6. CASE ServeCleaned(s)
  <2>1. DestType' /\ ServerType'
    BY <1>1, <1>6 DEF ServeCleaned, DestType, ServerType
  <2> QED
    BY <1>1, <1>6, <2>1, ServerStepType DEF ServeCleaned, NetType
<1> QED
  BY <1>2, <1>3, <1>4, <1>5, <1>6 DEF Serve

\* Every step of the system.
LEMMA TypeStep == TypeOK /\ [Next]_vars => TypeOK'
<1> SUFFICES ASSUME TypeOK, [Next]_vars PROVE TypeOK'
  OBVIOUS
<1>1. CASE Loop
  BY <1>1, TypeLoop
<1>2. CASE Transfer
  BY <1>2, TypeRequest, TypeStart, TypeWait DEF Transfer
<1>3. CASE Mishap
  BY <1>3, TypeRequest, TypeStart, TypeMishap DEF Mishap
<1>4. CASE PutAcked \/ KidsFail \/ \E s \in Sessions : Children(s)
  BY <1>4, TypeChildren
<1>5. ASSUME NEW s \in Sessions, Serve(s) \/ ServeTimeout(s) PROVE TypeOK'
  BY <1>5, TypeServe
<1>6. CASE UNCHANGED vars
  BY <1>6 DEF vars, clientVars, netVars, serverVars, TypeOK
<1> QED
  BY <1>1, <1>2, <1>3, <1>4, <1>5, <1>6 DEF Next, Over

\* The types of the client, its connections and the sessions: tries stay in range,
\* no session is used beyond the bound, and every message names a try.
THEOREM ClientTypeCorrect == Spec => []TypeOK
BY TypeInit, TypeStep, PTL DEF Spec

-----------------------------------------------------------------------------
(* Nothing of a try is left between tries.                                 *)

\* Children run, and a temporary file exists, only while the client waits for the
\* end of a transfer; and the file only for a get: PutDone does not remove it.
CleanInv == /\ pc # "wait" => kids = "none" /\ local = "absent"
            /\ Kind # "get" => local = "absent"

\* At the beginning there is nothing to clean.
LEMMA CleanInit == Init => CleanInv
BY DEF Init, CleanInv

\* The client's own steps: each leaves "wait" with everything cleaned.
LEMMA CleanLoop == CleanInv /\ Loop => CleanInv'
<1> SUFFICES ASSUME CleanInv, Loop PROVE CleanInv'
  OBVIOUS
<1>1. CASE NextCommand
  BY <1>1 DEF NextCommand, CleanInv, Kind, frame, tryVars
<1>2. CASE StartTry
  BY <1>2 DEF StartTry, CleanInv, Kind, frame, tryVars
<1>3. CASE Report
  BY <1>3 DEF Report, CleanInv, Kind, frame, tryVars
<1>4. CASE Reconnect
  BY <1>4 DEF Reconnect, Connected, CleanInv, Kind, frame, tryVars
<1>5. CASE Quit
  BY <1>5 DEF Quit, CleanInv, Kind, frame, tryVars
<1> QED
  BY <1>1, <1>2, <1>3, <1>4, <1>5 DEF Loop

\* The two ways a try ends.
LEMMA BrokenCleans == ASSUME NEW rc, Broken(rc) PROVE CleanInv'
BY DEF Broken, CleanChild, CleanInv

\* A try given up before the start has no child and removes its file.
LEMMA AbortCleans ==
  ASSUME NEW rc, NEW brokenRc, CleanInv, pc # "wait", Abort(rc, brokenRc) PROVE CleanInv'
<1>1. CASE Broken(brokenRc)
  BY <1>1, BrokenCleans
<1>2. CASE UNCHANGED <<frame, kids, local>> /\ Return(rc)
  BY <1>2 DEF CleanInv, Return, Kind, frame, tryVars
<1> QED
  BY <1>1, <1>2 DEF Abort

\* The request and its answer: no child exists yet.
LEMMA CleanRequest ==
  ASSUME CleanInv,
         \/ PutAsk \/ GetAsk \/ CommandAsk \/ AnswerBroken \/ Refused \/ AnsweredOk \/ Accepted
         \/ CheckFails \/ AskFails
  PROVE  CleanInv'
<1>1. CASE PutAsk \/ GetAsk \/ CommandAsk
  BY <1>1 DEF PutAsk, GetAsk, CommandAsk, Ask, CleanInv, Kind, frame, tryVars
<1>2. CASE AnswerBroken
  BY <1>2, BrokenCleans DEF AnswerBroken
<1>3. CASE Refused \/ AnsweredOk \/ Accepted
  BY <1>3 DEF Refused, AnsweredOk, Accepted, Answered, CleanInv, Return, Kind, frame, tryVars
<1>4. CASE CheckFails
  BY <1>4 DEF CheckFails, CleanInv, Return, Kind, frame, tryVars
<1>5. CASE AskFails
  BY <1>5, BrokenCleans DEF AskFails
<1> QED
  BY <1>1, <1>2, <1>3, <1>4, <1>5

\* Up to the start: the start itself goes to "wait".
LEMMA CleanStart ==
  ASSUME CleanInv,
         \/ PutGivesUp \/ GetGivesUp \/ CreateFails \/ PutStart \/ GetStart
         \/ GetEmpty \/ GetEmptyNotRenamed \/ PutStartFails \/ GetStartFails \/ GetEmptyModeFails
  PROVE  CleanInv'
<1>1. CASE PutGivesUp \/ GetGivesUp \/ CreateFails \/ GetEmptyNotRenamed
  BY <1>1, AbortCleans DEF PutGivesUp, GetGivesUp, CreateFails, GetEmptyNotRenamed
<1>2. CASE PutStart \/ GetStart
  BY <1>2, BrokenCleans DEF PutStart, GetStart, Start, CleanInv, Kind, frame, tryVars
<1>3. CASE GetEmpty
  BY <1>3 DEF GetEmpty, CleanInv, Return, Kind, frame, tryVars
<1>4. CASE PutStartFails \/ GetStartFails \/ GetEmptyModeFails
  BY <1>4 DEF PutStartFails, GetStartFails, StartFails, GetEmptyModeFails, CleanInv, Return, Kind, frame, tryVars
<1> QED
  BY <1>1, <1>2, <1>3, <1>4

\* The end of a transfer: every way out cleans, but PutDone leaves local alone.
LEMMA CleanWait ==
  ASSUME CleanInv,
         \/ CheckChildren \/ FirstTimeNoChild \/ NoMoreChild \/ WaitBroken \/ Informed
         \/ TransferFailed \/ PutDone \/ GetDone \/ GetDoneFails
  PROVE  CleanInv'
<1>1. CASE CheckChildren \/ FirstTimeNoChild \/ Informed
  BY <1>1 DEF CheckChildren, FirstTimeNoChild, Informed, Ended, CleanInv, Kind, frame, tryVars
<1>2. CASE NoMoreChild \/ WaitBroken
  BY <1>2, BrokenCleans DEF NoMoreChild, WaitBroken
<1>3. CASE TransferFailed \/ GetDone \/ GetDoneFails
  BY <1>3 DEF TransferFailed, GetDone, GetDoneFails, CleanChild, CleanInv, Kind, frame, tryVars
<1>4. CASE PutDone
  BY <1>4 DEF PutDone, CleanChild, CleanInv, Kind, frame, tryVars
<1> QED
  BY <1>1, <1>2, <1>3, <1>4

\* The children's steps, of either side, and the server's.
LEMMA CleanChildren ==
  ASSUME CleanInv, PutAcked \/ KidsFail \/ \E s \in Sessions : Children(s)
  PROVE  CleanInv'
<1>1. CASE PutAcked
  BY <1>1 DEF PutAcked, childFrame, CleanInv, Kind
<1>2. CASE KidsFail
  BY <1>2 DEF KidsFail, childFrame, CleanInv, Kind
<1>3. ASSUME NEW s \in Sessions, PutData(s) PROVE CleanInv'
  BY <1>3 DEF PutData, Joined, childFrame, CleanInv, Kind
<1>4. ASSUME NEW s \in Sessions, GetData(s) PROVE CleanInv'
  BY <1>4 DEF GetData, Joined, childFrame, CleanInv, Kind
<1>5. ASSUME NEW s \in Sessions, GetAcked(s) \/ SkidsFail(s) PROVE CleanInv'
  BY <1>5 DEF GetAcked, SkidsFail, childFrame, CleanInv, Kind
<1> QED
  BY <1>1, <1>2, <1>3, <1>4, <1>5 DEF Children

\* No step of a session changes the state of the client.
LEMMA ServerLeavesClient ==
  ASSUME NEW s \in Sessions, Serve(s) \/ ServeTimeout(s) PROVE UNCHANGED clientVars
<1>1. CASE ServeStore(s) \/ ServeRetr(s) \/ ServeCommand(s) \/ ServeStart(s) \/ ServeClosed(s)
  BY <1>1 DEF ServeStore, ServeRetr, ServeCommand, ServeStart, ServeClosed, serverFrame
<1>2. CASE ServeInvalid(s) \/ ServeInterrupted(s) \/ ServeEof(s) \/ ServeTimeout(s)
  BY <1>2 DEF ServeInvalid, ServeInterrupted, ServeEof, ServeTimeout, EndSession, serverFrame
<1>3. CASE ServeFinish(s) \/ ServeFailed(s) \/ ServeCleaned(s)
  BY <1>3 DEF ServeFinish, ServeFailed, ServeCleaned, serverFrame
<1> QED
  BY <1>1, <1>2, <1>3 DEF Serve

\* Every step of the system.
LEMMA CleanStep == CleanInv /\ [Next]_vars => CleanInv'
<1> SUFFICES ASSUME CleanInv, [Next]_vars PROVE CleanInv'
  OBVIOUS
<1>1. CASE Loop
  BY <1>1, CleanLoop
<1>2. CASE Transfer
  BY <1>2, CleanRequest, CleanStart, CleanWait DEF Transfer
<1>3. CASE CheckFails \/ AskFails
  BY <1>3, CleanRequest
<1>4. CASE PutStartFails \/ GetStartFails \/ GetEmptyModeFails
  BY <1>4, CleanStart
<1>5. CASE NoNames \/ SetupFails \/ GiveUp
  BY <1>5 DEF NoNames, SetupFails, GiveUp, Connected, CleanInv, Kind
<1>6. CASE Signalled
  BY <1>6 DEF Signalled, CleanChild, CleanInv
<1>7. CASE PutAcked \/ KidsFail \/ \E s \in Sessions : Children(s)
  BY <1>7, CleanChildren
<1>8. ASSUME NEW s \in Sessions, Serve(s) \/ ServeTimeout(s) PROVE CleanInv'
  BY <1>8, ServerLeavesClient DEF clientVars, CleanInv, Kind
<1>9. CASE UNCHANGED vars
  BY <1>9 DEF vars, clientVars, CleanInv, Kind
<1> QED
  BY <1>1, <1>2, <1>3, <1>4, <1>5, <1>6, <1>7, <1>8, <1>9 DEF Next, Mishap, Over

\* Whatever fails, and however many tries, commands and connections there are,
\* nothing of a try is left when the next one starts or the program exits.
THEOREM TriesAreCleanHolds == Spec => []TriesAreClean
<1>1. CleanInv => TriesAreClean
  BY DEF CleanInv, TriesAreClean
<1> QED
  BY <1>1, CleanInit, CleanStep, PTL DEF Spec

-----------------------------------------------------------------------------
(* The conversation of the client with the sessions, and what is known of  *)
(* the files: the inductive invariant of the last three theorems.          *)

\* The client holds one connection, the last one; what is sent to it on the others
\* is lost. A connection that is broken is closed.
Connections ==
  /\ \A s \in Sessions : s # conn => ~open[s]
  /\ \A s \in Sessions : ~open[s] => toClient[s] = <<>>
  /\ \A s \in Sessions : s > conn => srv[s] = "none" /\ toServer[s] = <<>> /\ skids[s] = "none"
  /\ broken => ~open[conn]
  /\ pc = "connect" => broken

\* A message that starts a transfer, or closes a request, finds the session in
\* the state it is for; a request is the last message, and of this try.
Requested ==
  \A n \in 1..Len(toServer[conn]) :
    LET m == toServer[conn][n]
    IN  /\ m.code \in Requests \cup {"START", "ABORT", "ZERO"}
        /\ m.code \in Requests => n = Len(toServer[conn]) /\ pc = "answer" /\ m.tag = Try
        /\ m.code = "START" => /\ Len(toServer[conn]) = 1 /\ pc = "wait"
                               /\ srv[conn] = "START" /\ job[conn] = Try
        /\ m.code = "ABORT" => n = 1 /\ srv[conn] \in {"START", "ZERO"}
        /\ m.code = "ZERO" => n = 1 /\ srv[conn] = "ZERO"

\* But for the rest of an older message, and the word about the socket buffers,
\* what the client may read is the one answer to this try, and then the
\* session has nothing left to answer.
Replied ==
  \A n \in 1..Len(toClient[conn]) :
    LET m == toClient[conn][n]
    IN  /\ m.code = "payload" => pc \notin {"prepare", "zero", "wait"}
        /\ m.code = "INFO" => pc = "wait" /\ m.tag = Try
        /\ m.code \notin {"payload", "INFO"} =>
             /\ n = Len(toClient[conn]) /\ m.tag = Try
             /\ toServer[conn] = <<>> /\ srv[conn] # "BUSY" /\ pc \in {"answer", "wait"}
             /\ m.code = "ACCEPT" => srv[conn] = "exit" \/ (srv[conn] = "START" /\ job[conn] = Try)
             /\ m.code = "EMPTY" => srv[conn] \in {"exit", "ZERO"}

\* The session is where the client believes it to be, or has ended.
Together ==
  /\ srv[conn] = "BUSY" => pc = "wait" /\ toServer[conn] = <<>> /\ job[conn] = Try
  /\ pc \in {"prepare", "zero"} => toServer[conn] = <<>> /\ toClient[conn] = <<>>
  /\ pc = "prepare" => srv[conn] = "exit" \/ (srv[conn] = "START" /\ job[conn] = Try)
  /\ pc = "zero" => srv[conn] \in {"exit", "ZERO"}

Conversation == open[conn] => Requested /\ Replied /\ Together

\* A tag names a command that was read.
Known(tag) == tag[1] \in 1..cmd

RequestsKnown ==
  \A s \in Sessions : \A n \in 1..Len(toServer[s]) :
    LET m == toServer[s][n]
    IN  /\ Known(m.tag)
        /\ m.code = "STORE" => kindOf[m.tag[1]] = "put"
        /\ m.code = "RETR" => kindOf[m.tag[1]] = "get"
        /\ m.code = "CMD" => kindOf[m.tag[1]] = "other"

\* What session s has of the transfer it works for: its children can all have
\* ended well only when its file, if it is a store, is complete.
SessionKeeps(s) ==
  /\ srv[s] \in {"START", "BUSY", "CLEAN"} => Known(job[s])
  /\ skids[s] # "none" => srv[s] = "BUSY" \/ (srv[s] = "CLEAN" /\ skids[s] = "bad")
  /\ remote[s] # "absent" => srv[s] \in {"START", "BUSY"} /\ kindOf[job[s][1]] = "put"
  /\ skids[s] = "acked" => kindOf[job[s][1]] = "get"
  /\ skids[s] = "done" => remote[s] # "partial" /\ (kindOf[job[s][1]] = "put" => remote[s] = "full")

\* An OK on its way is true, whichever session sends it.
AnswersTrue ==
  \A s \in Sessions : \A n \in 1..Len(toClient[s]) :
    LET m == toClient[s][n]
    IN  m.code = "OK" => Known(m.tag) /\ (kindOf[m.tag[1]] = "put" => dest[m.tag[1]] = "new")

\* The client's copy of a get is complete before the server can say so.
GetComplete ==
  /\ kids = "running" => local # "full"
  /\ open[conn] /\ pc = "wait" /\ Kind = "get"
       /\ \/ skids[conn] \in {"acked", "done"}
          \/ \E n \in 1..Len(toClient[conn]) : toClient[conn][n].code = "OK"
     => local = "full"

\* What the loop is about to report, and what it has reported.
Results ==
  /\ pc \notin {"idle", "exit"} => cmd \in Commands
  /\ pc = "loop" /\ tries = 0 /\ retcode = "OK" /\ Kind # "other" => dest[cmd] = "new"
  /\ \A c \in Commands : reported[c] = "OK" => /\ c <= cmd
                                               /\ kindOf[c] # "other" => dest[c] = "new"

TruthInv ==
  /\ TypeOK /\ Connections /\ Conversation /\ RequestsKnown
  /\ \A s \in Sessions : SessionKeeps(s)
  /\ AnswersTrue /\ GetComplete /\ Results /\ NeverPartial

\* At the beginning no message is on its way and nothing is reported.
LEMMA TruthInit == Init => TruthInv
<1> SUFFICES ASSUME Init PROVE TruthInv
  OBVIOUS
<1>1. TypeOK
  BY TypeInit
<1>2. conn = 1 /\ conn \in Sessions
  BY BoundsAssumption DEF Init, Sessions
<1>3. \A s \in Sessions : toServer[s] = <<>> /\ toClient[s] = <<>> /\ (open[s] <=> s = 1)
  BY DEF Init
<1>4. Connections
  BY <1>2, <1>3 DEF Init, Connections, Sessions
<1>5. Conversation
  BY <1>2, <1>3 DEF Init, Conversation, Requested, Replied, Together
<1>6. RequestsKnown /\ AnswersTrue
  BY <1>3 DEF RequestsKnown, AnswersTrue
<1>7. \A s \in Sessions : SessionKeeps(s)
  BY DEF Init, SessionKeeps
<1>8. GetComplete /\ Results /\ NeverPartial
  BY DEF Init, GetComplete, Results, NeverPartial
<1> QED
  BY <1>1, <1>4, <1>5, <1>6, <1>7, <1>8 DEF TruthInv

-----------------------------------------------------------------------------
(* What the steps do to the channels.                                      *)

\* The messages of a channel, and what appending and taking do to them.
LEMMA Appended ==
  ASSUME NEW q \in Seq(Messages), NEW m \in Messages
  PROVE  /\ Len(q) \in Nat /\ Len(Append(q, m)) = Len(q) + 1
         /\ \A n \in 1..Len(Append(q, m)) :
              \/ n \in 1..Len(q) /\ Append(q, m)[n] = q[n]
              \/ n = Len(q) + 1 /\ Append(q, m)[n] = m
OBVIOUS

LEMMA Shortened ==
  ASSUME NEW q \in Seq(Messages), q # <<>>
  PROVE  /\ Len(q) \in Nat \ {0} /\ Len(Tail(q)) = Len(q) - 1
         /\ Head(q) = q[1] /\ 1 \in 1..Len(q)
         /\ \A n \in 1..Len(Tail(q)) : n + 1 \in 1..Len(q) /\ Tail(q)[n] = q[n + 1]
         /\ Len(q) = 1 => Tail(q) = <<>>
OBVIOUS

\* A message that is sent is the last one, or lost.
LEMMA Sent ==
  ASSUME TypeOK, NEW code \in Codes, Send(code)
  PROVE  LET q == toServer[conn]
         IN  /\ \A s \in Sessions : s # conn => toServer'[s] = toServer[s]
             /\ Len(q) \in Nat
             /\ \/ srv[conn] = "exit" /\ toServer' = toServer
                \/ /\ srv[conn] # "exit" /\ Len(toServer'[conn]) = Len(q) + 1
                   /\ \A n \in 1..Len(toServer'[conn]) :
                        \/ n \in 1..Len(q) /\ toServer'[conn][n] = q[n]
                        \/ n = Len(q) + 1 /\ toServer'[conn][n] = Msg(code)
<1>1. LoopType /\ NetType
  BY TypeParts
<1>2. conn \in Sessions /\ toServer[conn] \in Seq(Messages) /\ Msg(code) \in Messages
  BY <1>1 DEF LoopType, NetType, Channels, Msg, Messages, Try, Tags
<1>3. srv[conn] # "exit" => toServer'[conn] = Append(toServer[conn], Msg(code))
  BY <1>1, <1>2 DEF Send, NetType, Channels
<1>4. \A s \in Sessions : s # conn => toServer'[s] = toServer[s]
  BY <1>1, <1>2 DEF Send, NetType, Channels
<1>5. srv[conn] = "exit" => toServer' = toServer
  BY DEF Send
<1> QED
  BY <1>2, <1>3, <1>4, <1>5, Appended

\* Receiving takes the first message.
LEMMA Received ==
  ASSUME TypeOK, Arrived, Receive
  PROVE  LET q == toClient[conn]
         IN  /\ \A s \in Sessions : s # conn => toClient'[s] = toClient[s]
             /\ Len(q) \in Nat \ {0} /\ 1 \in 1..Len(q) /\ Got = q[1]
             /\ Len(toClient'[conn]) = Len(q) - 1
             /\ \A n \in 1..Len(toClient'[conn]) :
                  n + 1 \in 1..Len(q) /\ toClient'[conn][n] = q[n + 1]
             /\ Len(q) = 1 => toClient'[conn] = <<>>
<1>1. LoopType /\ NetType
  BY TypeParts
<1>2. conn \in Sessions /\ toClient[conn] \in Seq(Messages) /\ toClient[conn] # <<>>
  BY <1>1 DEF LoopType, NetType, Channels, Arrived
<1>3. toClient'[conn] = Tail(toClient[conn])
  BY <1>1, <1>2 DEF Receive, NetType, Channels
<1>4. \A s \in Sessions : s # conn => toClient'[s] = toClient[s]
  BY <1>1, <1>2 DEF Receive, NetType, Channels
<1> QED
  BY <1>2, <1>3, <1>4, Shortened DEF Got

\* Closing drops what was not read.
LEMMA Closed ==
  ASSUME TypeOK, CloseControl
  PROVE  /\ conn \in Sessions /\ open'[conn] = FALSE /\ toClient'[conn] = <<>>
         /\ \A s \in Sessions : s # conn => toClient'[s] = toClient[s] /\ open'[s] = open[s]
BY TypeParts DEF LoopType, NetType, Channels, CloseControl

\* An answer is the last message to the client, or lost.
LEMMA Answering ==
  ASSUME TypeOK, NEW s \in Sessions, NEW code \in Codes, NEW tag \in Tags, Reply(s, code, tag)
  PROVE  LET q == toClient[s]
             m == [code |-> code, tag |-> tag]
         IN  /\ \A t \in Sessions : t # s => toClient'[t] = toClient[t]
             /\ Len(q) \in Nat
             /\ \/ ~open[s] /\ toClient' = toClient
                \/ /\ open[s] /\ Len(toClient'[s]) = Len(q) + 1
                   /\ \A n \in 1..Len(toClient'[s]) :
                        \/ n \in 1..Len(q) /\ toClient'[s][n] = q[n]
                        \/ n = Len(q) + 1 /\ toClient'[s][n] = m
<1> DEFINE m == [code |-> code, tag |-> tag]
<1>1. NetType
  BY TypeParts
<1>2. toClient[s] \in Seq(Messages) /\ m \in Messages
  BY <1>1 DEF NetType, Channels, Messages
<1>3. open[s] => toClient'[s] = Append(toClient[s], m)
  BY <1>1, <1>2 DEF Reply, NetType, Channels
<1>4. \A t \in Sessions : t # s => toClient'[t] = toClient[t]
  BY <1>1, <1>2 DEF Reply, NetType, Channels
<1>5. ~open[s] => toClient' = toClient
  BY DEF Reply
<1> HIDE DEF m
<1> QED
  BY <1>2, <1>3, <1>4, <1>5, Appended DEF m

\* A session takes the first message.
LEMMA Took ==
  ASSUME TypeOK, NEW s \in Sessions, toServer[s] # <<>>, Take(s)
  PROVE  LET q == toServer[s]
         IN  /\ \A t \in Sessions : t # s => toServer'[t] = toServer[t]
             /\ Len(q) \in Nat \ {0} /\ 1 \in 1..Len(q) /\ Head(q) = q[1]
             /\ Len(toServer'[s]) = Len(q) - 1
             /\ \A n \in 1..Len(toServer'[s]) :
                  n + 1 \in 1..Len(q) /\ toServer'[s][n] = q[n + 1]
             /\ Len(q) = 1 => toServer'[s] = <<>>
<1>1. NetType
  BY TypeParts
<1>2. toServer[s] \in Seq(Messages)
  BY <1>1 DEF NetType, Channels
<1>3. toServer'[s] = Tail(toServer[s])
  BY <1>1, <1>2 DEF Take, NetType, Channels
<1>4. \A t \in Sessions : t # s => toServer'[t] = toServer[t]
  BY <1>1, <1>2 DEF Take, NetType, Channels
<1> QED
  BY <1>2, <1>3, <1>4, Shortened

\* The end of a session empties its channel.
LEMMA EndedFacts ==
  ASSUME TypeOK, NEW s \in Sessions, EndSession(s)
  PROVE  /\ toServer'[s] = <<>> /\ srv'[s] = "exit" /\ skids'[s] = "none" /\ remote'[s] = "absent"
         /\ \A t \in Sessions : t # s =>
              /\ toServer'[t] = toServer[t] /\ srv'[t] = srv[t] /\ skids'[t] = skids[t]
              /\ remote'[t] = remote[t] /\ job'[t] = job[t]
         /\ UNCHANGED <<serverFrame, dest>>
BY TypeParts DEF EndSession, NetType, ServerType, Channels

-----------------------------------------------------------------------------
(* The conversation: the steps of the client.                              *)

\* Between two tries nothing is to be answered: what the session has not read
\* closes the last request, and what the client has not read is the rest
\* of a message.
Resting ==
  /\ srv[conn] # "BUSY"
  /\ \A n \in 1..Len(toServer[conn]) :
       /\ n = 1
       /\ \/ toServer[conn][n].code = "ABORT" /\ srv[conn] \in {"START", "ZERO"}
          \/ toServer[conn][n].code = "ZERO" /\ srv[conn] = "ZERO"
  /\ \A n \in 1..Len(toClient[conn]) : toClient[conn][n].code = "payload"

\* Then it does not matter which try is the current one.
LEMMA RestingTalks ==
  ASSUME Resting', pc' \notin {"answer", "prepare", "zero", "wait"} PROVE Conversation'
BY DEF Resting, Conversation, Requested, Replied, Together, Requests

\* A client that does not wait is at rest.
LEMMA Rests ==
  ASSUME Conversation, open[conn], pc \notin {"answer", "wait"} PROVE Resting
<1>1. CASE pc \in {"prepare", "zero"}
  BY <1>1 DEF Conversation, Together, Resting
<1>2. CASE pc \notin {"prepare", "zero"}
  BY <1>2 DEF Conversation, Requested, Replied, Together, Resting
<1> QED
  BY <1>1, <1>2

\* The answer to a try is the last message in both directions.
LEMMA AnswerIsLast ==
  ASSUME TypeOK, Connections, Conversation, Arrived, Got.code \notin {"payload", "INFO"}
  PROVE  /\ open[conn] /\ Len(toClient[conn]) = 1 /\ toServer[conn] = <<>>
         /\ Tail(toClient[conn]) = <<>>
         /\ Receive => toClient'[conn] = <<>>
         /\ Got.tag = Try /\ srv[conn] # "BUSY"
         /\ Got.code = "ACCEPT" => srv[conn] = "exit" \/ (srv[conn] = "START" /\ job[conn] = Try)
         /\ Got.code = "EMPTY" => srv[conn] \in {"exit", "ZERO"}
<1>1. open[conn] /\ toClient[conn] \in Seq(Messages) /\ toClient[conn] # <<>>
  BY TypeParts DEF LoopType, NetType, Channels, Connections, Arrived
<1>2. Replied
  BY <1>1 DEF Conversation
<1>3. 1 \in 1..Len(toClient[conn]) /\ Got = toClient[conn][1]
  BY <1>1, Shortened DEF Got
<1>4. Len(toClient[conn]) = 1
  BY <1>2, <1>3 DEF Replied
<1>5. Tail(toClient[conn]) = <<>>
  BY <1>1, <1>4, Shortened
<1> QED
  BY <1>1, <1>2, <1>3, <1>4, <1>5, Received DEF Replied

\* A step that changes nothing of the conversation.
LEMMA SameConversation ==
  ASSUME Conversation, UNCHANGED <<conn, pc, cmd, tries>>, open'[conn] = open[conn],
         toServer'[conn] = toServer[conn], toClient'[conn] = toClient[conn],
         srv'[conn] = srv[conn], job'[conn] = job[conn]
  PROVE  Conversation'
<1>1. CASE ~open[conn]
  BY <1>1 DEF Conversation
<1>2. CASE open[conn]
  <2>1. Requested /\ Replied /\ Together
    BY <1>2 DEF Conversation
  <2>2. Requested'
    BY <2>1 DEF Requested, Try
  <2>3. Replied'
    BY <2>1 DEF Replied, Try
  <2>4. Together'
    BY <2>1 DEF Together, Try
  <2> QED
    BY <2>2, <2>3, <2>4 DEF Conversation
<1> QED
  BY <1>1, <1>2

\* A client at rest goes on without a word.
LEMMA SilentConversation ==
  ASSUME Conversation, UNCHANGED <<conn, netVars, srv>>, pc \notin {"answer", "wait"},
         pc' \notin {"answer", "prepare", "zero", "wait"}
  PROVE  Conversation'
<1>1. CASE ~open[conn]
  BY <1>1 DEF Conversation, netVars
<1>2. CASE open[conn]
  <2>1. Resting
    BY <1>2, Rests
  <2>2. Resting'
    BY <2>1 DEF Resting, netVars
  <2> QED
    BY <2>2, RestingTalks
<1> QED
  BY <1>1, <1>2

\* A broken connection carries no conversation.
LEMMA BrokenConversation ==
  ASSUME TypeOK, CloseControl, conn' = conn PROVE Conversation'
BY Closed DEF Conversation

\* A message that closes the request: after MSG_ABORT or MSG_CREATE_ZERO
\* the client is at rest.
LEMMA CloseRequest ==
  ASSUME TypeOK, Conversation, pc \in {"prepare", "zero"}, NEW code \in {"ABORT", "ZERO"},
         code = "ZERO" => pc = "zero", Send(code),
         UNCHANGED <<conn, open, toClient, srv>>, pc' = "loop"
  PROVE  Conversation'
<1>1. CASE ~open[conn]
  BY <1>1 DEF Conversation
<1>2. CASE open[conn]
  <2>1. /\ toServer[conn] = <<>> /\ toClient[conn] = <<>>
        /\ pc = "prepare" => srv[conn] \in {"exit", "START"}
        /\ pc = "zero" => srv[conn] \in {"exit", "ZERO"}
    BY <1>2 DEF Conversation, Together
  <2>2. Len(toServer[conn]) = 0 /\ Msg(code).code = code /\ code \in Codes
    BY <2>1 DEF Msg, Codes
  <2>3. Resting'
    BY <2>1, <2>2, Sent DEF Resting
  <2> QED
    BY <2>3, RestingTalks
<1> QED
  BY <1>1, <1>2

LEMMA AbortTalks ==
  ASSUME TypeOK, Conversation, pc \in {"prepare", "zero"}, NEW rc, NEW brokenRc,
         Abort(rc, brokenRc)
  PROVE  Conversation'
<1>1. CASE Broken(brokenRc)
  BY <1>1, BrokenConversation DEF Broken, frame
<1>2. CASE Send("ABORT") /\ Return(rc) /\ UNCHANGED <<frame, kids, k, local, dest, open, toClient>>
  BY <1>2, CloseRequest DEF Return, frame, serverVars
<1> QED
  BY <1>1, <1>2 DEF Abort

\* The request is the only message that the session will answer.
LEMMA AskTalks ==
  ASSUME TypeOK, Conversation, NEW kind, NEW code \in Requests, Ask(kind, code)
  PROVE  Conversation'
<1>1. /\ Send(code) /\ pc = "try" /\ pc' = "answer" /\ UNCHANGED <<conn, cmd, tries, open, toClient, srv, job>>
  BY DEF Ask, frame, tryVars, serverVars
<1>2. CASE ~open[conn]
  BY <1>1, <1>2 DEF Conversation
<1>3. CASE open[conn]
  <2>1. Resting
    BY <1>1, <1>3, Rests
  <2>2. code \in Codes /\ Msg(code).code = code /\ Msg(code).tag = Try /\ Try' = Try
    BY <1>1 DEF Codes, Msg, Try
  <2>3. Requested'
    BY <1>1, <2>1, <2>2, Sent DEF Resting, Requested, Requests
  <2>4. Replied'
    BY <1>1, <2>1 DEF Resting, Replied
  <2>5. Together'
    BY <1>1, <2>1 DEF Resting, Together
  <2> QED
    BY <2>3, <2>4, <2>5 DEF Conversation
<1> QED
  BY <1>2, <1>3

\* MSG_TRANS_START reaches a session that waits for it, or nobody.
LEMMA StartTalks ==
  ASSUME TypeOK, Conversation, NEW kind, NEW file, Start(kind, file)
  PROVE  Conversation'
<1>1. CASE Broken("CONN_BROKEN")
  BY <1>1, BrokenConversation DEF Broken, frame
<1>2. CASE /\ Send("START") /\ pc' = "wait"
           /\ UNCHANGED <<frame, tryVars, dest, open, toClient>>
  <2>1. pc = "prepare" /\ UNCHANGED <<conn, cmd, tries, srv, job>>
    BY <1>2 DEF Start, frame, tryVars, serverVars
  <2>2. CASE ~open[conn]
    BY <1>2, <2>1, <2>2 DEF Conversation
  <2>3. CASE open[conn]
    <3>1. /\ toServer[conn] = <<>> /\ toClient[conn] = <<>>
          /\ srv[conn] = "exit" \/ (srv[conn] = "START" /\ job[conn] = Try)
      BY <2>1, <2>3 DEF Conversation, Together
    <3>2. Msg("START").code = "START" /\ "START" \in Codes /\ Try' = Try /\ Len(toServer[conn]) = 0
      BY <2>1, <3>1 DEF Msg, Codes, Try
    <3>3. Requested'
      BY <1>2, <2>1, <3>1, <3>2, Sent DEF Requested, Requests
    <3>4. Replied'
      BY <1>2, <2>1, <3>1 DEF Replied
    <3>5. Together'
      BY <1>2, <2>1, <3>1 DEF Together
    <3> QED
      BY <3>3, <3>4, <3>5 DEF Conversation
  <2> QED
    BY <2>2, <2>3
<1> QED
  BY <1>1, <1>2 DEF Start

\* A final answer leaves the client at rest.
LEMMA AnswerTalks ==
  ASSUME TypeOK, Connections, Conversation, Arrived, Receive, Got.code \in Final,
         NEW rc, Return(rc), UNCHANGED <<conn, open, toServer, srv>>
  PROVE  Conversation'
<1>1. toClient'[conn] = <<>> /\ toServer[conn] = <<>> /\ srv[conn] # "BUSY"
  BY AnswerIsLast DEF Final
<1>2. Resting'
  BY <1>1 DEF Resting
<1> QED
  BY <1>2, RestingTalks DEF Return

LEMMA TalkRequest ==
  ASSUME TypeOK, Connections, Conversation,
         \/ PutAsk \/ GetAsk \/ CommandAsk \/ AnswerBroken \/ Refused \/ AnsweredOk \/ Accepted
         \/ CheckFails \/ AskFails
  PROVE  Conversation'
<1>1. CASE PutAsk \/ GetAsk \/ CommandAsk
  BY <1>1, AskTalks DEF PutAsk, GetAsk, CommandAsk, Requests
<1>2. CASE AnswerBroken \/ AskFails
  BY <1>2, BrokenConversation DEF AnswerBroken, AskFails, Broken, frame
<1>3. CASE Refused \/ AnsweredOk
  <2>1. PICK rc \in {"OK", "ERROR", "FT_NR"} :
          /\ Arrived /\ Receive /\ Got.code \in Final /\ Return(rc)
          /\ UNCHANGED <<frame, open, toServer>>
    BY <1>3 DEF Refused, AnsweredOk, Answered, Final
  <2> QED
    BY <2>1, AnswerTalks DEF frame, serverVars
<1>4. CASE Accepted
  <2>1. /\ Arrived /\ Receive /\ UNCHANGED <<conn, cmd, tries, open, toServer, srv, job>>
        /\ \/ Got.code = "ACCEPT" /\ pc' = "prepare"
           \/ Got.code = "EMPTY" /\ pc' = "zero"
    BY <1>4 DEF Accepted, Answered, frame, tryVars, serverVars
  <2>2. /\ toClient'[conn] = <<>> /\ toServer[conn] = <<>> /\ srv[conn] # "BUSY" /\ Try' = Try
        /\ Got.code = "ACCEPT" => srv[conn] = "exit" \/ (srv[conn] = "START" /\ job[conn] = Try)
        /\ Got.code = "EMPTY" => srv[conn] \in {"exit", "ZERO"}
    BY <2>1, AnswerIsLast DEF Try
  <2>3. Requested' /\ Replied'
    BY <2>1, <2>2 DEF Requested, Replied
  <2>4. Together'
    BY <2>1, <2>2 DEF Together
  <2> QED
    BY <2>3, <2>4 DEF Conversation
<1>5. CASE CheckFails
  BY <1>5, SilentConversation DEF CheckFails, frame, serverVars, Return
<1> QED
  BY <1>1, <1>2, <1>3, <1>4, <1>5

LEMMA TalkStart ==
  ASSUME TypeOK, Conversation,
         \/ PutGivesUp \/ GetGivesUp \/ CreateFails \/ PutStart \/ GetStart
         \/ GetEmpty \/ GetEmptyNotRenamed \/ PutStartFails \/ GetStartFails \/ GetEmptyModeFails
  PROVE  Conversation'
<1>1. CASE PutGivesUp \/ GetGivesUp \/ CreateFails \/ GetEmptyNotRenamed
  BY <1>1, AbortTalks DEF PutGivesUp, GetGivesUp, CreateFails, GetEmptyNotRenamed
<1>2. CASE PutStart \/ GetStart
  BY <1>2, StartTalks DEF PutStart, GetStart
<1>3. CASE GetEmpty
  <2>1. pc = "zero" /\ UNCHANGED <<conn, srv>>
    BY <1>3 DEF GetEmpty, frame, serverVars
  <2>2. CASE Send("ZERO") /\ Return("OK") /\ UNCHANGED <<open, toClient>>
    BY <2>1, <2>2, CloseRequest DEF Return
  <2>3. CASE CloseControl
    BY <2>1, <2>3, BrokenConversation
  <2> QED
    BY <1>3, <2>2, <2>3 DEF GetEmpty
<1>4. CASE PutStartFails \/ GetStartFails \/ GetEmptyModeFails
  BY <1>4, SilentConversation
     DEF PutStartFails, GetStartFails, StartFails, GetEmptyModeFails, frame, serverVars, Return
<1> QED
  BY <1>1, <1>2, <1>3, <1>4

LEMMA TalkWait ==
  ASSUME TypeOK, Connections, Conversation,
         \/ CheckChildren \/ FirstTimeNoChild \/ NoMoreChild \/ WaitBroken \/ Informed
         \/ TransferFailed \/ PutDone \/ GetDone \/ GetDoneFails
  PROVE  Conversation'
<1>1. CASE CheckChildren \/ FirstTimeNoChild
  BY <1>1, SameConversation
     DEF CheckChildren, FirstTimeNoChild, frame, tryVars, serverVars, netVars
<1>2. CASE NoMoreChild \/ WaitBroken
  BY <1>2, BrokenConversation DEF NoMoreChild, WaitBroken, Broken, frame
<1>3. CASE Informed
  <2>1. /\ Arrived /\ Receive /\ pc = "wait" /\ UNCHANGED <<conn, pc, cmd, tries, open, toServer, srv, job>>
    BY <1>3 DEF Informed, Ended, frame, tryVars, serverVars
  <2>2. CASE ~open[conn]
    BY <2>1, <2>2 DEF Conversation
  <2>3. CASE open[conn]
    <3>1. Requested /\ Replied /\ Together /\ Try' = Try
      BY <2>1, <2>3 DEF Conversation, Try
    <3>2. Requested'
      BY <2>1, <3>1 DEF Requested
    <3>3. Together'
      BY <2>1, <3>1 DEF Together
    <3>4. Replied'
      BY <2>1, <3>1, Received DEF Replied
    <3> QED
      BY <3>2, <3>3, <3>4 DEF Conversation
  <2> QED
    BY <2>2, <2>3
<1>4. CASE TransferFailed \/ PutDone \/ GetDone
  <2>1. PICK rc \in {"OK", "ERROR", "FT_NR"} :
          /\ Arrived /\ Receive /\ Got.code \in Final /\ Return(rc)
          /\ UNCHANGED <<frame, open, toServer>>
    BY <1>4 DEF TransferFailed, PutDone, GetDone, Ended, Final
  <2> QED
    BY <2>1, AnswerTalks DEF frame, serverVars
<1>5. CASE GetDoneFails
  <2>1. /\ Arrived /\ Got.code = "OK" /\ pc' = "loop" /\ UNCHANGED <<conn, open, toServer, srv>>
        /\ toClient' = [toClient EXCEPT ![conn] = <<Msg("payload")>> \o Tail(@)]
    BY <1>5 DEF GetDoneFails, Ended, Return, frame, serverVars
  <2>2. Tail(toClient[conn]) = <<>> /\ toServer[conn] = <<>> /\ srv[conn] # "BUSY"
    BY <2>1, AnswerIsLast
  <2>3. toClient'[conn] = <<Msg("payload")>> \o <<>>
    BY <2>1, <2>2, TypeParts DEF LoopType, NetType, Channels
  <2>4. Len(toClient'[conn]) = 1 /\ toClient'[conn][1].code = "payload"
    BY <2>3 DEF Msg
  <2>5. Resting'
    BY <2>1, <2>2, <2>4 DEF Resting
  <2> QED
    BY <2>1, <2>5, RestingTalks
<1> QED
  BY <1>1, <1>2, <1>3, <1>4, <1>5

-----------------------------------------------------------------------------
(* The conversation: the steps of the sessions and of the children.        *)

\* A step of one session leaves the others alone.
LEMMA ServesOne ==
  ASSUME TypeOK, NEW s \in Sessions, Serve(s) \/ ServeTimeout(s), NEW t \in Sessions, t # s
  PROVE  /\ toServer'[t] = toServer[t] /\ toClient'[t] = toClient[t] /\ srv'[t] = srv[t]
         /\ job'[t] = job[t] /\ skids'[t] = skids[t] /\ remote'[t] = remote[t]
<1>1. NetType /\ ServerType
  BY TypeParts
<1>2. /\ toServer \in Channels /\ toClient \in Channels
      /\ DOMAIN srv = Sessions /\ DOMAIN job = Sessions /\ DOMAIN skids = Sessions
      /\ DOMAIN remote = Sessions
  BY <1>1 DEF NetType, ServerType
<1>3. Take(s) => toServer'[t] = toServer[t]
  BY <1>2 DEF Take, Channels
<1>4. ASSUME NEW code, NEW tag, Reply(s, code, tag) PROVE toClient'[t] = toClient[t]
  BY <1>2, <1>4 DEF Reply, Channels
<1>5. EndSession(s) =>
        /\ toServer'[t] = toServer[t] /\ srv'[t] = srv[t]
        /\ job'[t] = job[t] /\ skids'[t] = skids[t] /\ remote'[t] = remote[t]
  BY <1>2 DEF EndSession, Channels
<1>6. CASE ServeStore(s)
  BY <1>2, <1>3, <1>4, <1>6 DEF ServeStore
<1>7. CASE ServeRetr(s)
  BY <1>2, <1>3, <1>4, <1>7 DEF ServeRetr
<1>8. CASE ServeCommand(s)
  BY <1>2, <1>3, <1>4, <1>8 DEF ServeCommand, serverVars
<1>9. CASE ServeStart(s)
  BY <1>2, <1>3, <1>4, <1>9 DEF ServeStart
<1>10. CASE ServeClosed(s)
  BY <1>2, <1>3, <1>10 DEF ServeClosed
<1>11. CASE ServeInvalid(s)
  BY <1>4, <1>5, <1>11 DEF ServeInvalid
<1>12. CASE ServeInterrupted(s) \/ ServeEof(s) \/ ServeTimeout(s)
  BY <1>5, <1>12 DEF ServeInterrupted, ServeEof, ServeTimeout
<1>13. CASE ServeFinish(s)
  BY <1>2, <1>4, <1>13 DEF ServeFinish
<1>14. CASE ServeFailed(s)
  BY <1>2, <1>4, <1>14 DEF ServeFailed
<1>15. CASE ServeCleaned(s)
  BY <1>2, <1>15 DEF ServeCleaned
<1> QED
  BY <1>6, <1>7, <1>8, <1>9, <1>10, <1>11, <1>12, <1>13, <1>14, <1>15 DEF Serve

\* The client's variables, and its end of every connection.
LEMMA ServeFrame ==
  ASSUME NEW s \in Sessions, Serve(s) \/ ServeTimeout(s)
  PROVE  UNCHANGED <<pc, cmd, kindOf, emptyOf, tries, retcode, broken, conn, kids, k, local,
                     reported, open>>
<1>1. UNCHANGED open
  BY DEF Serve, ServeTimeout, ServeStore, ServeRetr, ServeCommand, ServeStart, ServeClosed,
         ServeInvalid, ServeInterrupted, ServeEof, ServeFinish, ServeFailed, ServeCleaned,
         EndSession, serverFrame
<1> QED
  BY <1>1, ServerLeavesClient DEF clientVars

\* A session that still has to answer has not answered.
LEMMA Unanswered ==
  ASSUME Conversation, open[conn], toServer[conn] # <<>> \/ srv[conn] = "BUSY"
  PROVE  \A n \in 1..Len(toClient[conn]) :
           LET m == toClient[conn][n]
           IN  \/ m.code = "payload" /\ pc \notin {"prepare", "zero", "wait"}
               \/ m.code = "INFO" /\ pc = "wait" /\ m.tag = Try
BY DEF Conversation, Replied

\* The one answer.
LEMMA AnswerGiven ==
  ASSUME TypeOK, Conversation, open[conn], toServer[conn] # <<>> \/ srv[conn] = "BUSY",
         NEW code \in Codes \ {"payload", "INFO"}, Reply(conn, code, Try),
         pc \in {"answer", "wait"}, toServer'[conn] = <<>>, srv'[conn] # "BUSY",
         code = "ACCEPT" => srv'[conn] = "START" /\ job'[conn] = Try,
         code = "EMPTY" => srv'[conn] = "ZERO",
         UNCHANGED <<conn, pc, cmd, tries>>
  PROVE  Conversation'
<1>1. conn \in Sessions /\ Try \in Tags /\ Try' = Try /\ code \in Codes
  BY TypeParts DEF LoopType, Try, Tags
<1>2. Requested'
  BY DEF Requested
<1>3. Together'
  BY DEF Together
<1> DEFINE m == [code |-> code, tag |-> Try]
           q == toClient[conn]
<1>4. /\ Len(q) \in Nat /\ Len(toClient'[conn]) = Len(q) + 1
      /\ \A n \in 1..Len(toClient'[conn]) :
           \/ n \in 1..Len(q) /\ toClient'[conn][n] = q[n]
           \/ n = Len(q) + 1 /\ toClient'[conn][n] = m
  BY <1>1, Answering
<1>5. m.code = code /\ m.tag = Try
  OBVIOUS
<1> HIDE DEF m
<1>6. Replied'
  BY <1>1, <1>4, <1>5, Unanswered DEF Replied
<1> QED
  BY <1>2, <1>3, <1>6 DEF Conversation

\* A session that ends without a word.
LEMMA EndTalks ==
  ASSUME TypeOK, Conversation, EndSession(conn), UNCHANGED toClient PROVE Conversation'
<1>1. /\ toServer'[conn] = <<>> /\ srv'[conn] = "exit"
      /\ UNCHANGED <<conn, pc, cmd, tries, open>> /\ Try' = Try
  BY EndedFacts, TypeParts DEF LoopType, serverFrame, clientVars, Try
<1>2. CASE open[conn]
  <2>1. Replied /\ Together
    BY <1>2 DEF Conversation
  <2>2. Requested'
    BY <1>1 DEF Requested
  <2>3. Replied'
    BY <1>1, <2>1 DEF Replied
  <2>4. Together'
    BY <1>1, <2>1 DEF Together
  <2> QED
    BY <2>2, <2>3, <2>4 DEF Conversation
<1> QED
  BY <1>1, <1>2 DEF Conversation

\* What the session of the current connection answers.
LEMMA TalkServeCurrent ==
  ASSUME TypeOK, Connections, Conversation, open[conn], Serve(conn) \/ ServeTimeout(conn)
  PROVE  Conversation'
<1>1. conn \in Sessions /\ Requested /\ Replied /\ Together
  BY TypeParts DEF LoopType, Conversation
<1>2. UNCHANGED <<conn, pc, cmd, tries, open>> /\ Try' = Try
  BY <1>1, ServeFrame DEF Try
<1>3. NetType /\ ServerType
  BY TypeParts
<1>4. {"ACCEPT", "EMPTY", "OK", "BAD", "NORETRY"} \subseteq Codes \ {"payload", "INFO"}
  BY DEF Codes, Final
<1>5. CASE ServeStore(conn) \/ ServeRetr(conn) \/ ServeCommand(conn)
  <2>1. /\ toServer[conn] # <<>> /\ Take(conn) /\ Head(toServer[conn]).code \in Requests
        /\ srv[conn] = "LOGGED"
    BY <1>5 DEF ServeStore, ServeRetr, ServeCommand, Pending, Requests
  <2>2. pc = "answer" /\ Asked(conn) = Try /\ toServer'[conn] = <<>>
    BY <1>1, <2>1, Took DEF Requested, Asked
  <2>3. PICK code \in {"ACCEPT", "EMPTY", "OK", "BAD", "NORETRY"} :
          /\ Reply(conn, code, Try) /\ srv'[conn] # "BUSY"
          /\ code = "ACCEPT" => srv'[conn] = "START" /\ job'[conn] = Try
          /\ code = "EMPTY" => srv'[conn] = "ZERO"
    <3>1. CASE ServeStore(conn)
      <4>1. /\ job' = [job EXCEPT ![conn] = Try]
            /\ \/ Reply(conn, "ACCEPT", Try) /\ srv' = [srv EXCEPT ![conn] = "START"]
               \/ Reply(conn, "OK", Try) /\ srv' = srv
               \/ \E code \in Refusals : Reply(conn, code, Try) /\ srv' = srv
        BY <2>2, <3>1 DEF ServeStore
      <4> QED
        BY <1>1, <1>3, <2>1, <4>1 DEF ServerType, Refusals
    <3>2. CASE ServeRetr(conn)
      <4>1. /\ job' = [job EXCEPT ![conn] = Try]
            /\ \/ Reply(conn, "ACCEPT", Try) /\ srv' = [srv EXCEPT ![conn] = "START"]
               \/ Reply(conn, "EMPTY", Try) /\ srv' = [srv EXCEPT ![conn] = "ZERO"]
               \/ \E code \in Refusals : Reply(conn, code, Try) /\ srv' = srv
        BY <2>2, <3>2 DEF ServeRetr
      <4> QED
        BY <1>1, <1>3, <2>1, <4>1 DEF ServerType, Refusals
    <3>3. CASE ServeCommand(conn)
      BY <2>1, <2>2, <3>3 DEF ServeCommand, serverVars, Refusals
    <3> QED
      BY <1>5, <3>1, <3>2, <3>3
  <2> QED
    BY <1>2, <1>4, <2>1, <2>2, <2>3, AnswerGiven
<1>6. CASE ServeStart(conn)
  <2>1. toServer[conn] # <<>> /\ Take(conn) /\ Head(toServer[conn]).code = "START"
    BY <1>6 DEF ServeStart, Pending
  <2>2. pc = "wait" /\ job[conn] = Try /\ toServer'[conn] = <<>> /\ job' = job
    BY <1>1, <1>6, <2>1, Took DEF Requested, ServeStart
  <2>3. CASE Reply(conn, "BAD", job[conn]) /\ srv' = [srv EXCEPT ![conn] = "LOGGED"]
    <3>1. srv'[conn] = "LOGGED"
      BY <1>1, <1>3, <2>3 DEF ServerType
    <3> QED
      BY <1>2, <1>4, <2>1, <2>2, <2>3, <3>1, AnswerGiven
  <2>4. CASE /\ srv' = [srv EXCEPT ![conn] = "BUSY"]
             /\ toClient' = toClient \/ Reply(conn, "INFO", job[conn])
    <3>1. srv'[conn] = "BUSY"
      BY <1>1, <1>3, <2>4 DEF ServerType
    <3>2. Requested' /\ Together'
      BY <1>2, <2>2, <3>1 DEF Requested, Together
    <3>3. Replied'
      <4>1. CASE toClient' = toClient
        BY <1>2, <2>1, <2>2, <4>1, Unanswered DEF Replied
      <4>2. CASE Reply(conn, "INFO", Try)
        <5> DEFINE m == [code |-> "INFO", tag |-> Try]
                   q == toClient[conn]
        <5>1. "INFO" \in Codes /\ Try \in Tags
          BY <1>1, <1>3, <2>2 DEF ServerType, Codes
        <5>2. /\ Len(q) \in Nat
              /\ \A n \in 1..Len(toClient'[conn]) :
                   \/ n \in 1..Len(q) /\ toClient'[conn][n] = q[n]
                   \/ toClient'[conn][n] = m
          BY <1>1, <4>2, <5>1, Answering
        <5>3. m.code = "INFO" /\ m.tag = Try
          OBVIOUS
        <5> HIDE DEF m
        <5> QED
          BY <1>2, <2>1, <2>2, <5>2, <5>3, Unanswered DEF Replied
      <4> QED
        BY <2>2, <2>4, <4>1, <4>2
    <3> QED
      BY <3>2, <3>3 DEF Conversation
  <2> QED
    BY <1>6, <2>3, <2>4 DEF ServeStart
<1>7. CASE ServeClosed(conn)
  <2>1. /\ toServer[conn] # <<>> /\ Take(conn) /\ Head(toServer[conn]).code \in {"ABORT", "ZERO"}
        /\ toClient' = toClient /\ srv' = [srv EXCEPT ![conn] = "LOGGED"]
    BY <1>7 DEF ServeClosed, Pending
  <2>2. srv'[conn] = "LOGGED"
    BY <1>1, <1>3, <2>1 DEF ServerType
  <2>3. Requested'
    BY <1>1, <1>2, <2>1, <2>2, Took DEF Requested, Requests
  <2>4. Replied'
    BY <1>2, <2>1, Unanswered DEF Replied
  <2>5. Together'
    BY <1>1, <1>2, <2>1, <2>2 DEF Together
  <2> QED
    BY <2>3, <2>4, <2>5 DEF Conversation
<1>8. CASE ServeInvalid(conn)
  \* What closes a request, or starts it, is welcome: it was a new request.
  <2>1. toServer[conn] # <<>> /\ Reply(conn, "NORETRY", Asked(conn)) /\ EndSession(conn)
    BY <1>8 DEF ServeInvalid
  <2>2. Head(toServer[conn]) = toServer[conn][1] /\ 1 \in 1..Len(toServer[conn])
    BY <1>1, <1>3, <2>1, Shortened DEF NetType, Channels
  <2>3. toServer[conn][1].code \in Requests
    BY <1>1, <1>8, <2>2 DEF ServeInvalid, Requested
  <2>4. pc = "answer" /\ Asked(conn) = Try
    BY <1>1, <2>2, <2>3 DEF Requested, Asked
  <2>5. toServer'[conn] = <<>> /\ srv'[conn] = "exit"
    BY <1>1, <2>1, EndedFacts
  <2> QED
    BY <1>2, <1>4, <2>1, <2>4, <2>5, AnswerGiven
<1>9. CASE ServeInterrupted(conn) \/ ServeEof(conn) \/ ServeTimeout(conn)
  BY <1>9, EndTalks DEF ServeInterrupted, ServeEof, ServeTimeout
<1>10. CASE ServeFinish(conn) \/ ServeFailed(conn)
  <2>1. srv[conn] = "BUSY" /\ toServer' = toServer
    BY <1>10 DEF ServeFinish, ServeFailed
  <2>2. pc = "wait" /\ toServer[conn] = <<>> /\ job[conn] = Try
    BY <1>1, <2>1 DEF Together
  <2>3. PICK code \in {"OK", "BAD", "NORETRY"} : Reply(conn, code, Try)
    BY <1>10, <2>2 DEF ServeFinish, ServeFailed, Refusals
  <2>4. srv'[conn] # "BUSY"
    BY <1>1, <1>3, <1>10 DEF ServeFinish, ServeFailed, ServerType
  <2> QED
    BY <1>2, <1>4, <2>1, <2>2, <2>3, <2>4, AnswerGiven
<1>11. CASE ServeCleaned(conn)
  <2>1. srv[conn] = "CLEAN" /\ srv'[conn] = "LOGGED" /\ UNCHANGED <<toServer, toClient, job>>
    BY <1>1, <1>3, <1>11 DEF ServeCleaned, ServerType
  <2>2. Requested'
    BY <1>1, <1>2, <2>1 DEF Requested
  <2>3. Replied'
    BY <1>1, <1>2, <2>1 DEF Replied
  <2>4. Together'
    BY <1>1, <1>2, <2>1 DEF Together
  <2> QED
    BY <2>2, <2>3, <2>4 DEF Conversation
<1> QED
  BY <1>5, <1>6, <1>7, <1>8, <1>9, <1>10, <1>11 DEF Serve

LEMMA TalkServe ==
  ASSUME TypeOK, Connections, Conversation, NEW s \in Sessions, Serve(s) \/ ServeTimeout(s)
  PROVE  Conversation'
<1>1. conn \in Sessions
  BY TypeParts DEF LoopType
<1>2. UNCHANGED <<conn, pc, cmd, tries, open>>
  BY ServeFrame
<1>3. CASE ~open[conn]
  BY <1>2, <1>3 DEF Conversation
<1>4. CASE open[conn] /\ s # conn
  BY <1>1, <1>2, <1>4, ServesOne, SameConversation
<1>5. CASE open[conn] /\ s = conn
  BY <1>5, TalkServeCurrent
<1> QED
  BY <1>3, <1>4, <1>5

\* A new connection is to a session that nothing was said to.
LEMMA TalkConnected ==
  ASSUME TypeOK, Connections, NEW ok \in BOOLEAN, Connected(ok),
         pc' \notin {"answer", "prepare", "zero", "wait"}
  PROVE  Conversation'
<1>1. /\ conn' = conn + 1 /\ conn' \in Sessions /\ conn' > conn
      /\ srv' = [srv EXCEPT ![conn'] = "LOGGED"] /\ UNCHANGED <<toServer, toClient>>
  BY TypeParts, BoundsAssumption DEF Connected, LoopType, Sessions
<1>2. srv'[conn'] = "LOGGED"
  BY <1>1, TypeParts DEF ServerType
<1>3. toServer'[conn'] = <<>> /\ toClient'[conn'] = <<>>
  <2>1. conn' # conn
    BY <1>1, TypeParts DEF LoopType, Sessions
  <2> QED
    BY <1>1, <2>1 DEF Connections
<1>4. Resting'
  BY <1>2, <1>3 DEF Resting
<1> QED
  BY <1>4, RestingTalks

LEMMA TalkStep ==
  ASSUME TypeOK, Connections, Conversation, [Next]_vars PROVE Conversation'
<1>1. CASE NextCommand \/ StartTry \/ NoNames \/ Report \/ GiveUp
  BY <1>1, SilentConversation DEF NextCommand, StartTry, NoNames, Report, GiveUp, netVars, serverVars
<1>2. CASE Reconnect \/ SetupFails
  BY <1>2, TalkConnected DEF Reconnect, SetupFails, Connected
<1>3. CASE Quit \/ Signalled
  BY <1>3, BrokenConversation DEF Quit, Signalled, CloseControl, frame
<1>4. CASE Transfer
  BY <1>4, TalkRequest, TalkStart, TalkWait DEF Transfer
<1>5. CASE CheckFails \/ AskFails \/ PutStartFails \/ GetStartFails \/ GetEmptyModeFails
  BY <1>5, TalkRequest, TalkStart
<1>6. CASE PutAcked \/ KidsFail \/ \E s \in Sessions : Children(s)
  <2>1. UNCHANGED childFrame
    BY <1>6 DEF PutAcked, KidsFail, Children, PutData, GetData, GetAcked, SkidsFail
  <2> QED
    BY <2>1, SameConversation DEF childFrame, netVars
<1>7. ASSUME NEW s \in Sessions, Serve(s) \/ ServeTimeout(s) PROVE Conversation'
  BY <1>7, TalkServe
<1>8. CASE UNCHANGED vars
  BY <1>8, SameConversation DEF vars, clientVars, netVars, serverVars
<1> QED
  BY <1>1, <1>2, <1>3, <1>4, <1>5, <1>6, <1>7, <1>8 DEF Next, Loop, Mishap, Over

-----------------------------------------------------------------------------
(* The connections.                                                        *)

\* A step of the client on its connection.
LEMMA OneConnection ==
  ASSUME TypeOK, Connections, UNCHANGED <<conn, srv, skids>>,
         \A s \in Sessions : s # conn =>
           open'[s] = open[s] /\ toServer'[s] = toServer[s] /\ toClient'[s] = toClient[s],
         \/ open'[conn] = open[conn] /\ (toClient[conn] = <<>> => toClient'[conn] = <<>>)
         \/ ~open'[conn] /\ toClient'[conn] = <<>>,
         broken' => broken \/ ~open'[conn], pc' = "connect" => broken'
  PROVE  Connections'
<1>1. conn \in Sessions
  BY TypeParts DEF LoopType
<1>2. \A s \in Sessions : s > conn => s # conn
  BY <1>1 DEF Sessions
<1>3. \A s \in Sessions : ~open'[s] => toClient'[s] = <<>>
  BY <1>1 DEF Connections
<1> QED
  BY <1>1, <1>2, <1>3 DEF Connections

\* A try that returns with a broken connection has closed it.
LEMMA BrokenConnections ==
  ASSUME TypeOK, Connections, NEW rc, Return(rc), CloseControl, UNCHANGED <<frame, toServer>>
  PROVE  Connections'
BY Closed, OneConnection DEF Return, frame, serverVars

\* A message sent, and a try that may return, on a connection that holds.
LEMMA SendingConnections ==
  ASSUME TypeOK, Connections, NEW code \in Codes, Send(code),
         UNCHANGED <<frame, open, toClient>>,
         \/ UNCHANGED tryVars
         \/ \E rc \in {"OK", "ERROR", "FT_NR"} : Return(rc),
         pc' # "connect"
  PROVE  Connections'
<1>1. broken' => broken
  BY DEF Return, BrokenCodes, tryVars
<1> QED
  BY <1>1, Sent, OneConnection DEF frame, serverVars

\* A message received, likewise.
LEMMA ReceivingConnections ==
  ASSUME TypeOK, Connections, Arrived, Receive, UNCHANGED <<frame, open, toServer>>,
         \/ UNCHANGED tryVars
         \/ \E rc \in {"OK", "ERROR", "FT_NR"} : Return(rc),
         pc' # "connect"
  PROVE  Connections'
<1>1. broken' => broken
  BY DEF Return, BrokenCodes, tryVars
<1>2. toClient[conn] # <<>>
  BY DEF Arrived
<1> QED
  BY <1>1, <1>2, Received, OneConnection DEF frame, serverVars

\* Nothing sent or received.
LEMMA SilentConnections ==
  ASSUME TypeOK, Connections, UNCHANGED <<conn, netVars, srv, skids>>,
         broken' => broken, pc' = "connect" => broken'
  PROVE  Connections'
BY OneConnection DEF netVars

LEMMA AbortConnections ==
  ASSUME TypeOK, Connections, NEW rc \in {"ERROR", "FT_NR"}, NEW brokenRc, Abort(rc, brokenRc)
  PROVE  Connections'
<1>1. CASE Broken(brokenRc)
  BY <1>1, BrokenConnections DEF Broken
<1>2. CASE Send("ABORT") /\ Return(rc) /\ UNCHANGED <<frame, kids, k, local, dest, open, toClient>>
  <2>1. "ABORT" \in Codes /\ pc' # "connect"
    BY <1>2 DEF Codes, Return
  <2> QED
    BY <1>2, <2>1, SendingConnections
<1> QED
  BY <1>1, <1>2 DEF Abort

LEMMA ConnectionsRequest ==
  ASSUME TypeOK, Connections,
         \/ PutAsk \/ GetAsk \/ CommandAsk \/ AnswerBroken \/ Refused \/ AnsweredOk \/ Accepted
         \/ CheckFails \/ AskFails
  PROVE  Connections'
<1>1. CASE PutAsk \/ GetAsk \/ CommandAsk
  <2>1. PICK code \in Requests :
          Send(code) /\ pc' = "answer" /\ UNCHANGED <<frame, tryVars, open, toClient>>
    BY <1>1 DEF PutAsk, GetAsk, CommandAsk, Ask, Requests
  <2> QED
    BY <2>1, SendingConnections DEF Codes
<1>2. CASE AnswerBroken \/ AskFails
  BY <1>2, BrokenConnections DEF AnswerBroken, AskFails, Broken
<1>3. CASE Refused \/ AnsweredOk
  <2>1. PICK rc \in {"OK", "ERROR", "FT_NR"} :
          /\ Arrived /\ Receive /\ Return(rc) /\ UNCHANGED <<frame, open, toServer>>
    BY <1>3 DEF Refused, AnsweredOk, Answered
  <2> QED
    BY <2>1, ReceivingConnections DEF Return
<1>4. CASE Accepted
  BY <1>4, ReceivingConnections DEF Accepted, Answered
<1>5. CASE CheckFails
  BY <1>5, SilentConnections DEF CheckFails, Return, BrokenCodes, frame, serverVars
<1> QED
  BY <1>1, <1>2, <1>3, <1>4, <1>5

LEMMA ConnectionsStart ==
  ASSUME TypeOK, Connections,
         \/ PutGivesUp \/ GetGivesUp \/ CreateFails \/ PutStart \/ GetStart
         \/ GetEmpty \/ GetEmptyNotRenamed \/ PutStartFails \/ GetStartFails \/ GetEmptyModeFails
  PROVE  Connections'
<1>1. CASE PutGivesUp \/ GetGivesUp \/ CreateFails \/ GetEmptyNotRenamed
  BY <1>1, AbortConnections DEF PutGivesUp, GetGivesUp, CreateFails, GetEmptyNotRenamed
<1>2. CASE PutStart \/ GetStart
  <2>1. \/ Broken("CONN_BROKEN")
        \/ Send("START") /\ pc' = "wait" /\ UNCHANGED <<frame, tryVars, open, toClient>>
    BY <1>2 DEF PutStart, GetStart, Start
  <2>2. "START" \in Codes
    BY DEF Codes
  <2> QED
    BY <2>1, <2>2, BrokenConnections, SendingConnections DEF Broken
<1>3. CASE GetEmpty
  <2>1. UNCHANGED frame
    BY <1>3 DEF GetEmpty
  <2>2. CASE Send("ZERO") /\ Return("OK") /\ UNCHANGED <<open, toClient>>
    <3>1. "ZERO" \in Codes /\ pc' # "connect"
      BY <2>2 DEF Codes, Return
    <3> QED
      BY <2>1, <2>2, <3>1, SendingConnections
  <2>3. CASE CloseControl /\ Return("CONN_BROKEN") /\ UNCHANGED toServer
    BY <2>1, <2>3, BrokenConnections
  <2> QED
    BY <1>3, <2>2, <2>3 DEF GetEmpty
<1>4. CASE PutStartFails \/ GetStartFails \/ GetEmptyModeFails
  BY <1>4, SilentConnections
     DEF PutStartFails, GetStartFails, StartFails, GetEmptyModeFails, Return, BrokenCodes, frame,
         serverVars
<1> QED
  BY <1>1, <1>2, <1>3, <1>4

LEMMA ConnectionsWait ==
  ASSUME TypeOK, Connections,
         \/ CheckChildren \/ FirstTimeNoChild \/ NoMoreChild \/ WaitBroken \/ Informed
         \/ TransferFailed \/ PutDone \/ GetDone \/ GetDoneFails
  PROVE  Connections'
<1>1. CASE CheckChildren \/ FirstTimeNoChild
  BY <1>1, SilentConnections DEF CheckChildren, FirstTimeNoChild, frame, tryVars, serverVars
<1>2. CASE NoMoreChild \/ WaitBroken
  BY <1>2, BrokenConnections DEF NoMoreChild, WaitBroken, Broken
<1>3. CASE Informed
  BY <1>3, ReceivingConnections DEF Informed, Ended
<1>4. CASE TransferFailed \/ PutDone \/ GetDone
  <2>1. PICK rc \in {"OK", "ERROR", "FT_NR"} :
          /\ Arrived /\ Receive /\ Return(rc) /\ UNCHANGED <<frame, open, toServer>>
    BY <1>4 DEF TransferFailed, PutDone, GetDone, Ended
  <2> QED
    BY <2>1, ReceivingConnections DEF Return
<1>5. CASE GetDoneFails
  <2>1. /\ toClient[conn] # <<>> /\ UNCHANGED <<conn, open, toServer, srv, skids>>
        /\ pc' = "loop" /\ (broken' => broken)
        /\ toClient' = [toClient EXCEPT ![conn] = <<Msg("payload")>> \o Tail(@)]
    BY <1>5 DEF GetDoneFails, Ended, Arrived, Return, BrokenCodes, frame, serverVars
  <2>2. \A s \in Sessions : s # conn => toClient'[s] = toClient[s]
    BY <2>1, TypeParts DEF NetType, Channels
  <2> QED
    BY <2>1, <2>2, OneConnection
<1> QED
  BY <1>1, <1>2, <1>3, <1>4, <1>5

LEMMA ConnectionsConnected ==
  ASSUME TypeOK, Connections, NEW ok \in BOOLEAN, Connected(ok), broken' => ~ok,
         pc' = "connect" => broken'
  PROVE  Connections'
<1>1. LoopType /\ NetType /\ ServerType
  BY TypeParts
<1>2. /\ conn \in Sessions /\ conn' = conn + 1 /\ conn' \in Sessions /\ broken
      /\ open' = [open EXCEPT ![conn'] = ok] /\ srv' = [srv EXCEPT ![conn'] = "LOGGED"]
      /\ UNCHANGED <<toServer, toClient, skids>>
  BY <1>1, BoundsAssumption DEF Connected, LoopType, Sessions, Connections
<1>3. \A s \in Sessions : s # conn' => open'[s] = open[s] /\ ~open[s]
  BY <1>1, <1>2 DEF NetType, Connections
<1>4. open'[conn'] = ok /\ ~open[conn']
  <2>1. conn' # conn
    BY <1>2 DEF Sessions
  <2> QED
    BY <1>1, <1>2, <2>1 DEF NetType, Connections
<1>5. \A s \in Sessions : s > conn' => s > conn /\ srv'[s] = srv[s]
  BY <1>1, <1>2 DEF ServerType, Sessions
<1>6. \A s \in Sessions : s > conn' =>
        srv'[s] = "none" /\ toServer'[s] = <<>> /\ skids'[s] = "none"
  BY <1>2, <1>5 DEF Connections
<1>7. \A s \in Sessions : toClient'[s] = <<>>
  BY <1>2, <1>3, <1>4 DEF Connections
<1> QED
  BY <1>2, <1>3, <1>4, <1>6, <1>7 DEF Connections

\* The children of a session belong to one that exists.
LEMMA ConnectionsChildren ==
  ASSUME TypeOK, Connections, PutAcked \/ KidsFail \/ \E s \in Sessions : Children(s)
  PROVE  Connections'
<1>1. UNCHANGED childFrame
  BY DEF PutAcked, KidsFail, Children, PutData, GetData, GetAcked, SkidsFail
<1>2. \A s \in Sessions : skids[s] = "none" => skids'[s] = "none"
  <2>1. DOMAIN skids = Sessions
    BY TypeParts DEF ServerType
  <2> QED
    BY <2>1 DEF PutAcked, KidsFail, Children, PutData, GetData, GetAcked, SkidsFail, Joined
<1> QED
  BY <1>1, <1>2 DEF Connections, childFrame, netVars

LEMMA ConnectionsServe ==
  ASSUME TypeOK, Connections, NEW s \in Sessions, Serve(s) \/ ServeTimeout(s)
  PROVE  Connections'
<1>1. UNCHANGED <<pc, conn, broken, open>>
  BY ServeFrame
<1>2. toServer[s] # <<>> \/ srv[s] # "none"
  BY DEF Serve, ServeTimeout, ServeStore, ServeRetr, ServeCommand, ServeStart, ServeClosed,
         ServeInvalid, ServeInterrupted, ServeEof, ServeFinish, ServeFailed, ServeCleaned
<1>3. ~(s > conn)
  BY <1>2 DEF Connections
<1>4. \A t \in Sessions : t > conn => t # s
  BY <1>3
<1>5. ~open[s] => toClient'[s] = toClient[s]
  BY DEF Serve, ServeTimeout, ServeStore, ServeRetr, ServeCommand, ServeStart, ServeClosed,
         ServeInvalid, ServeInterrupted, ServeEof, ServeFinish, ServeFailed, ServeCleaned, Reply
<1> QED
  BY <1>1, <1>4, <1>5, ServesOne DEF Connections

LEMMA ConnectionsStep ==
  ASSUME TypeOK, Connections, [Next]_vars PROVE Connections'
<1>1. CASE NextCommand \/ StartTry \/ NoNames \/ Report \/ GiveUp
  BY <1>1, SilentConnections DEF NextCommand, StartTry, NoNames, Report, GiveUp, serverVars
<1>2. CASE Reconnect \/ SetupFails
  <2>1. pc = "connect" /\ broken
    BY <1>2 DEF Reconnect, SetupFails, Connected, Connections
  <2>2. CASE Reconnect
    BY <2>1, <2>2, ConnectionsConnected DEF Reconnect
  <2>3. CASE SetupFails
    BY <2>1, <2>3, ConnectionsConnected DEF SetupFails
  <2> QED
    BY <1>2, <2>2, <2>3
<1>3. CASE Quit \/ Signalled
  <2>1. CloseControl /\ pc' = "exit" /\ UNCHANGED <<conn, broken, toServer, srv, skids>>
    BY <1>3 DEF Quit, Signalled, CloseControl, frame, tryVars, serverVars
  <2> QED
    BY <2>1, Closed, OneConnection
<1>4. CASE Transfer
  BY <1>4, ConnectionsRequest, ConnectionsStart, ConnectionsWait DEF Transfer
<1>5. CASE CheckFails \/ AskFails \/ PutStartFails \/ GetStartFails \/ GetEmptyModeFails
  BY <1>5, ConnectionsRequest, ConnectionsStart
<1>6. CASE PutAcked \/ KidsFail \/ \E s \in Sessions : Children(s)
  BY <1>6, ConnectionsChildren
<1>7. ASSUME NEW s \in Sessions, Serve(s) \/ ServeTimeout(s) PROVE Connections'
  BY <1>7, ConnectionsServe
<1>8. CASE UNCHANGED vars
  BY <1>8, SilentConnections DEF vars, clientVars, netVars, serverVars, Connections
<1> QED
  BY <1>1, <1>2, <1>3, <1>4, <1>5, <1>6, <1>7, <1>8 DEF Next, Loop, Mishap, Over

-----------------------------------------------------------------------------
(* What becomes of the files.                                              *)

\* The facts about the current answer that the properties need.
LEMMA AnswerFacts ==
  ASSUME TruthInv, Arrived, Got.code = "OK"
  PROVE  /\ open[conn] /\ Got.tag = Try /\ cmd \in 1..cmd
         /\ Kind = "put" => dest[cmd] = "new"
         /\ pc = "wait" /\ Kind = "get" => local = "full"
<1>1. TypeOK /\ Connections /\ Conversation /\ AnswersTrue /\ GetComplete
  BY DEF TruthInv
<1>2. open[conn] /\ Got.tag = Try
  BY <1>1, AnswerIsLast
<1>3. conn \in Sessions /\ 1 \in 1..Len(toClient[conn]) /\ Got = toClient[conn][1]
  BY <1>1, TypeParts, Shortened DEF LoopType, NetType, Channels, Arrived, Got
<1>4. Known(Try) /\ (kindOf[Try[1]] = "put" => dest[Try[1]] = "new")
  BY <1>1, <1>2, <1>3 DEF AnswersTrue
<1>5. pc = "wait" /\ Kind = "get" => local = "full"
  BY <1>1, <1>2, <1>3 DEF GetComplete
<1> QED
  BY <1>2, <1>4, <1>5 DEF Known, Try, Kind

\* A step may replace a destination only by the complete file.
LEMMA DestGoesNew ==
  ASSUME TruthInv, [Next]_vars
  PROVE  \A c \in Commands : dest'[c] = dest[c] \/ dest'[c] = "new"
<1>1. dest \in [Commands -> {"old", "new", "part"}]
  BY TypeParts DEF TruthInv, DestType
<1>2. CASE GetEmpty
  BY <1>1, <1>2 DEF GetEmpty
<1>3. CASE GetDone
  <2>1. local = "full"
    BY <1>3, AnswerFacts DEF GetDone, Ended
  <2> QED
    BY <1>1, <1>3, <2>1 DEF GetDone
<1>4. ASSUME NEW s \in Sessions, ServeStore(s)
      PROVE  \A c \in Commands : dest'[c] = dest[c] \/ dest'[c] = "new"
  BY <1>1, <1>4 DEF ServeStore
<1>5. ASSUME NEW s \in Sessions, ServeFinish(s)
      PROVE  \A c \in Commands : dest'[c] = dest[c] \/ dest'[c] = "new"
  <2>1. remote[s] \in {"absent", "full"}
    BY <1>5, TypeParts DEF ServeFinish, TruthInv, SessionKeeps, ServerType
  <2> QED
    BY <1>1, <1>5, <2>1 DEF ServeFinish
<1>6. CASE Loop \/ (Mishap /\ ~AskFails)
  BY <1>6 DEF Loop, NextCommand, StartTry, Report, Reconnect, Connected, Quit, Mishap, NoNames, CheckFails,
     SetupFails, GiveUp, PutStartFails, GetStartFails, StartFails, GetEmptyModeFails, Signalled
<1>7. ASSUME NEW rc, NEW brokenRc, Broken(rc) \/ Abort(rc, brokenRc) PROVE dest' = dest
  BY <1>7 DEF Abort, Broken
<1>8. CASE \/ PutAsk \/ GetAsk \/ CommandAsk \/ AnswerBroken \/ Refused \/ AnsweredOk \/ Accepted
           \/ AskFails
  BY <1>7, <1>8 DEF PutAsk, GetAsk, CommandAsk, Ask, AnswerBroken, Refused, AnsweredOk, Accepted, AskFails
<1>9. CASE PutGivesUp \/ GetGivesUp \/ CreateFails \/ PutStart \/ GetStart \/ GetEmptyNotRenamed
  BY <1>7, <1>9
     DEF PutGivesUp, GetGivesUp, CreateFails, PutStart, GetStart, Start, GetEmptyNotRenamed
<1>10. CASE \/ CheckChildren \/ FirstTimeNoChild \/ NoMoreChild \/ WaitBroken \/ Informed
            \/ TransferFailed \/ PutDone \/ GetDoneFails
  BY <1>7, <1>10 DEF CheckChildren, FirstTimeNoChild, NoMoreChild, WaitBroken, Informed,
     TransferFailed, PutDone, GetDoneFails
<1>11. CASE PutAcked \/ KidsFail \/ \E s \in Sessions : Children(s)
  BY <1>11 DEF PutAcked, KidsFail, Children, PutData, GetData, GetAcked, SkidsFail
<1>12. ASSUME NEW s \in Sessions, Serve(s) \/ ServeTimeout(s), ~ServeStore(s), ~ServeFinish(s)
       PROVE  dest' = dest
  BY <1>12 DEF Serve, ServeTimeout, ServeRetr, ServeCommand, ServeStart, ServeClosed, ServeInvalid,
     ServeInterrupted, ServeEof, ServeFailed, ServeCleaned, EndSession
<1>13. CASE UNCHANGED vars
  BY <1>13 DEF vars
<1> QED
  BY <1>2, <1>3, <1>4, <1>5, <1>6, <1>8, <1>9, <1>10, <1>11, <1>12, <1>13
     DEF Next, Transfer, Mishap, Over

\* What is known of a command that was read stays known.
History ==
  /\ cmd' \in Nat /\ cmd <= cmd'
  /\ \A c \in 1..cmd : kindOf'[c] = kindOf[c] /\ (dest[c] = "new" => dest'[c] = "new")

\* The client's steps change neither the command nor its kind, but for the next
\* line of the control file.
LEMMA CommandKept ==
  ASSUME [Next]_vars, ~NextCommand
  PROVE  UNCHANGED <<cmd, kindOf>>
<1>1. CASE Loop \/ (Mishap /\ ~AskFails)
  BY <1>1 DEF Loop, StartTry, Report, Reconnect, Connected, Quit, Mishap, NoNames, CheckFails,
     SetupFails, GiveUp, PutStartFails, GetStartFails, StartFails, GetEmptyModeFails, Signalled, frame
<1>2. CASE Transfer \/ AskFails
  <2>1. UNCHANGED frame
    BY <1>2 DEF Transfer, AskFails, PutAsk, GetAsk, CommandAsk, Ask, AnswerBroken, Refused, AnsweredOk,
       Accepted, PutGivesUp, GetGivesUp, CreateFails, PutStart, GetStart, Start, GetEmpty,
       GetEmptyNotRenamed, CheckChildren, FirstTimeNoChild, NoMoreChild, WaitBroken, Informed,
       TransferFailed, PutDone, GetDone, GetDoneFails, Abort, Broken
  <2> QED
    BY <2>1 DEF frame
<1>3. CASE PutAcked \/ KidsFail \/ \E s \in Sessions : Children(s)
  BY <1>3 DEF PutAcked, KidsFail, Children, PutData, GetData, GetAcked, SkidsFail, childFrame
<1>4. ASSUME NEW s \in Sessions, Serve(s) \/ ServeTimeout(s) PROVE UNCHANGED <<cmd, kindOf>>
  BY <1>4, ServeFrame
<1>5. CASE UNCHANGED vars
  BY <1>5 DEF vars, clientVars
<1> QED
  BY <1>1, <1>2, <1>3, <1>4, <1>5 DEF Next, Mishap, Over

LEMMA HistoryKept ==
  ASSUME TruthInv, [Next]_vars
  PROVE  History
<1>1. cmd \in 0..MaxCommands /\ kindOf \in [Commands -> {"put", "get", "other"}]
  BY TypeParts DEF TruthInv, LoopType
<1>2. cmd' \in Nat /\ cmd <= cmd' /\ \A c \in 1..cmd : kindOf'[c] = kindOf[c]
  <2>1. CASE NextCommand
    BY <1>1, <2>1, BoundsAssumption DEF NextCommand, Commands
  <2>2. CASE ~NextCommand
    BY <1>1, <2>2, CommandKept
  <2> QED
    BY <2>1, <2>2
<1>3. \A c \in 1..cmd : c \in Commands
  BY <1>1, BoundsAssumption DEF Commands
<1> QED
  BY <1>2, <1>3, DestGoesNew DEF History

\* What the current command asks is known.
LEMMA TryKnown ==
  ASSUME TruthInv, pc \notin {"idle", "exit"}
  PROVE  Known(Try) /\ Known(Msg("OK").tag)
<1>1. cmd \in Commands
  BY DEF TruthInv, Results
<1> QED
  BY <1>1, BoundsAssumption DEF Known, Try, Msg, Commands

\* No message is new.
NoNewMessage(new, old) == \A n \in 1..Len(new) : \E m \in 1..Len(old) : new[n] = old[m]

LEMMA OldRequests ==
  ASSUME TruthInv, History, \A s \in Sessions : NoNewMessage(toServer'[s], toServer[s])
  PROVE  RequestsKnown'
<1>1. cmd \in 0..MaxCommands /\ RequestsKnown
  BY TypeParts DEF TruthInv, LoopType
<1>2. ASSUME NEW s \in Sessions, NEW n \in 1..Len(toServer'[s])
      PROVE  LET m == toServer'[s][n]
             IN  /\ m.tag[1] \in 1..cmd'
                 /\ m.code = "STORE" => kindOf'[m.tag[1]] = "put"
                 /\ m.code = "RETR" => kindOf'[m.tag[1]] = "get"
                 /\ m.code = "CMD" => kindOf'[m.tag[1]] = "other"
  <2>1. PICK l \in 1..Len(toServer[s]) : toServer'[s][n] = toServer[s][l]
    BY <1>2 DEF NoNewMessage
  <2> DEFINE m == toServer[s][l]
  <2>2. /\ m.tag[1] \in 1..cmd
        /\ m.code = "STORE" => kindOf[m.tag[1]] = "put"
        /\ m.code = "RETR" => kindOf[m.tag[1]] = "get"
        /\ m.code = "CMD" => kindOf[m.tag[1]] = "other"
    BY <1>1 DEF RequestsKnown, Known
  <2> HIDE DEF m
  <2>3. m.tag[1] \in 1..cmd' /\ kindOf'[m.tag[1]] = kindOf[m.tag[1]]
    BY <1>1, <2>2 DEF History
  <2> QED
    BY <2>1, <2>2, <2>3 DEF m
<1> QED
  BY <1>2 DEF RequestsKnown, Known

LEMMA NewRequest ==
  ASSUME TruthInv, History, NEW code \in Codes, Send(code), UNCHANGED <<cmd, kindOf>>,
         pc \notin {"idle", "exit"},
         code = "STORE" => Kind = "put", code = "RETR" => Kind = "get", code = "CMD" => Kind = "other"
  PROVE  RequestsKnown'
<1>1. TypeOK /\ RequestsKnown /\ Known(Try)
  BY TryKnown DEF TruthInv
<1>2. conn \in Sessions
  BY <1>1, TypeParts DEF LoopType
<1>3. Msg(code).code = code /\ Msg(code).tag = Try /\ Try[1] = cmd
  BY DEF Msg, Try
<1>4. \A s \in Sessions : \A n \in 1..Len(toServer'[s]) :
        \/ \E l \in 1..Len(toServer[s]) : toServer'[s][n] = toServer[s][l]
        \/ toServer'[s][n] = Msg(code)
  BY <1>1, <1>2, Sent
<1> QED
  BY <1>1, <1>3, <1>4 DEF RequestsKnown, Known, Kind

\* What a session takes, or loses, is not new.
LEMMA ServeTakes ==
  ASSUME TypeOK, NEW s \in Sessions, Serve(s) \/ ServeTimeout(s), NEW t \in Sessions
  PROVE  NoNewMessage(toServer'[t], toServer[t])
<1>1. CASE t # s
  BY <1>1, ServesOne DEF NoNewMessage
<1>2. CASE t = s
  <2>1. \/ toServer[s] # <<>> /\ Take(s)
        \/ EndSession(s)
        \/ toServer' = toServer
    BY DEF Serve, ServeTimeout, ServeStore, ServeRetr, ServeCommand, ServeStart, ServeClosed,
       ServeInvalid, ServeInterrupted, ServeEof, ServeFinish, ServeFailed, ServeCleaned, Pending
  <2>2. CASE toServer[s] # <<>> /\ Take(s)
    BY <1>2, <2>2, Took DEF NoNewMessage
  <2>3. CASE EndSession(s)
    BY <1>2, <2>3, EndedFacts DEF NoNewMessage
  <2>4. CASE toServer' = toServer
    BY <2>4 DEF NoNewMessage
  <2> QED
    BY <2>1, <2>2, <2>3, <2>4
<1> QED
  BY <1>1, <1>2

\* The client's steps that send nothing.
Sends == PutAsk \/ GetAsk \/ CommandAsk \/ PutGivesUp \/ GetGivesUp \/ CreateFails
         \/ PutStart \/ GetStart \/ GetEmpty \/ GetEmptyNotRenamed

LEMMA Silence ==
  ASSUME [Next]_vars, ~Sends, \A s \in Sessions : ~(Serve(s) \/ ServeTimeout(s))
  PROVE  toServer' = toServer
<1>1. CASE Loop \/ Mishap
  BY <1>1 DEF Loop, NextCommand, StartTry, Report, Reconnect, Connected, Quit, Mishap, NoNames, CheckFails,
     SetupFails, GiveUp, PutStartFails, GetStartFails, StartFails, GetEmptyModeFails, Signalled,
     AskFails, Broken, netVars
<1>2. CASE Transfer
  BY <1>2 DEF Transfer, Sends, AnswerBroken, Refused, AnsweredOk, Accepted, CheckChildren,
     FirstTimeNoChild, NoMoreChild, WaitBroken, Informed, TransferFailed, PutDone, GetDone,
     GetDoneFails, Broken, netVars
<1>3. CASE PutAcked \/ KidsFail \/ \E s \in Sessions : Children(s)
  BY <1>3
     DEF PutAcked, KidsFail, Children, PutData, GetData, GetAcked, SkidsFail, childFrame, netVars
<1>4. CASE UNCHANGED vars
  BY <1>4 DEF vars, netVars
<1> QED
  BY <1>1, <1>2, <1>3, <1>4 DEF Next, Over

LEMMA RequestsStep ==
  ASSUME TruthInv, History, [Next]_vars PROVE RequestsKnown'
<1>0. TypeOK /\ {"STORE", "RETR", "CMD", "START", "ABORT", "ZERO"} \subseteq Codes
  BY DEF TruthInv, Codes, Requests
<1>1. ASSUME toServer' = toServer PROVE RequestsKnown'
  BY <1>1, OldRequests DEF NoNewMessage
<1>2. ASSUME NEW rc, NEW brokenRc, Abort(rc, brokenRc), pc \in {"prepare", "zero"}
      PROVE  RequestsKnown'
  <2>1. toServer' = toServer \/ (Send("ABORT") /\ UNCHANGED <<cmd, kindOf>>)
    BY <1>2 DEF Abort, Broken, frame
  <2> QED
    BY <1>0, <1>1, <1>2, <2>1, NewRequest
<1>3. CASE PutAsk \/ GetAsk \/ CommandAsk
  BY <1>0, <1>3, NewRequest DEF PutAsk, GetAsk, CommandAsk, Ask, frame
<1>4. CASE PutGivesUp \/ GetGivesUp \/ CreateFails \/ GetEmptyNotRenamed
  BY <1>2, <1>4 DEF PutGivesUp, GetGivesUp, CreateFails, GetEmptyNotRenamed
<1>5. CASE PutStart \/ GetStart
  <2>1. pc = "prepare" /\ (toServer' = toServer \/ (Send("START") /\ UNCHANGED <<cmd, kindOf>>))
    BY <1>5 DEF PutStart, GetStart, Start, Broken, frame
  <2> QED
    BY <1>0, <1>1, <2>1, NewRequest
<1>6. CASE GetEmpty
  <2>1. pc = "zero" /\ (toServer' = toServer \/ (Send("ZERO") /\ UNCHANGED <<cmd, kindOf>>))
    BY <1>6 DEF GetEmpty, frame
  <2> QED
    BY <1>0, <1>1, <2>1, NewRequest
<1>7. ASSUME NEW s \in Sessions, Serve(s) \/ ServeTimeout(s) PROVE RequestsKnown'
  BY <1>0, <1>7, ServeTakes, OldRequests
<1>8. CASE ~Sends /\ \A s \in Sessions : ~(Serve(s) \/ ServeTimeout(s))
  BY <1>1, <1>8, Silence
<1> QED
  BY <1>3, <1>4, <1>5, <1>6, <1>7, <1>8 DEF Sends

-----------------------------------------------------------------------------
(* An OK on its way is true.                                               *)

LEMMA OldAnswers ==
  ASSUME TruthInv, History,
         \A s \in Sessions : \A n \in 1..Len(toClient'[s]) :
           \/ toClient'[s][n].code # "OK"
           \/ \E m \in 1..Len(toClient[s]) : toClient'[s][n] = toClient[s][m]
  PROVE  AnswersTrue'
<1>1. cmd \in 0..MaxCommands /\ AnswersTrue
  BY TypeParts DEF TruthInv, LoopType
<1>2. ASSUME NEW s \in Sessions, NEW n \in 1..Len(toClient'[s]), toClient'[s][n].code = "OK"
      PROVE  LET m == toClient'[s][n]
             IN  /\ m.tag[1] \in 1..cmd'
                 /\ kindOf'[m.tag[1]] = "put" => dest'[m.tag[1]] = "new"
  <2>1. PICK l \in 1..Len(toClient[s]) : toClient'[s][n] = toClient[s][l]
    BY <1>2
  <2> DEFINE m == toClient[s][l]
  <2>2. m.tag[1] \in 1..cmd /\ (kindOf[m.tag[1]] = "put" => dest[m.tag[1]] = "new")
    BY <1>1, <1>2, <2>1 DEF AnswersTrue, Known
  <2> HIDE DEF m
  <2>3. m.tag[1] \in 1..cmd' /\ (kindOf'[m.tag[1]] = "put" => dest'[m.tag[1]] = "new")
    BY <1>1, <2>2 DEF History
  <2> QED
    BY <2>1, <2>3 DEF m
<1> QED
  BY <1>2 DEF AnswersTrue, Known

\* A new answer is true when it is not OK, or the file of the put is there.
LEMMA NewAnswer ==
  ASSUME TruthInv, History, NEW s \in Sessions, NEW code \in Codes, NEW tag \in Tags,
         Reply(s, code, tag),
         code = "OK" => Known(tag) /\ (kindOf[tag[1]] = "put" => dest'[tag[1]] = "new")
  PROVE  AnswersTrue'
<1>1. TypeOK /\ cmd \in 0..MaxCommands /\ AnswersTrue
  BY TypeParts DEF TruthInv, LoopType
<1> DEFINE new == [code |-> code, tag |-> tag]
<1>2. \A t \in Sessions : \A n \in 1..Len(toClient'[t]) :
        \/ \E m \in 1..Len(toClient[t]) : toClient'[t][n] = toClient[t][m]
        \/ toClient'[t][n] = new
  BY <1>1, Answering
<1>3. new.code = code /\ new.tag = tag
  OBVIOUS
<1> HIDE DEF new
<1>4. CASE code # "OK"
  BY <1>2, <1>3, <1>4, OldAnswers
<1>5. CASE code = "OK"
  <2>1. tag[1] \in 1..cmd' /\ (kindOf'[tag[1]] = "put" => dest'[tag[1]] = "new")
    BY <1>1, <1>5 DEF History, Known
  <2>2. ASSUME NEW t \in Sessions, NEW n \in 1..Len(toClient'[t]), toClient'[t][n].code = "OK"
        PROVE  LET m == toClient'[t][n]
               IN  /\ m.tag[1] \in 1..cmd'
                   /\ kindOf'[m.tag[1]] = "put" => dest'[m.tag[1]] = "new"
    <3>1. CASE toClient'[t][n] = new
      BY <1>3, <2>1, <3>1
    <3>2. ASSUME NEW l \in 1..Len(toClient[t]), toClient'[t][n] = toClient[t][l]
          PROVE  LET m == toClient'[t][n]
                 IN  /\ m.tag[1] \in 1..cmd'
                     /\ kindOf'[m.tag[1]] = "put" => dest'[m.tag[1]] = "new"
      <4> DEFINE m == toClient[t][l]
      <4>1. m.tag[1] \in 1..cmd /\ (kindOf[m.tag[1]] = "put" => dest[m.tag[1]] = "new")
        BY <1>1, <2>2, <3>2 DEF AnswersTrue, Known
      <4> HIDE DEF m
      <4>2. m.tag[1] \in 1..cmd' /\ (kindOf'[m.tag[1]] = "put" => dest'[m.tag[1]] = "new")
        BY <1>1, <4>1 DEF History
      <4> QED
        BY <3>2, <4>2 DEF m
    <3> QED
      BY <1>2, <3>1, <3>2
  <2> QED
    BY <2>2 DEF AnswersTrue, Known
<1> QED
  BY <1>4, <1>5

\* The client only takes messages; what it leaves of a message is no answer.
LEMMA ClientTakes ==
  ASSUME TruthInv, [Next]_vars, \A s \in Sessions : ~(Serve(s) \/ ServeTimeout(s)),
         NEW s \in Sessions, NEW n \in 1..Len(toClient'[s])
  PROVE  \/ toClient'[s][n].code # "OK"
         \/ \E m \in 1..Len(toClient[s]) : toClient'[s][n] = toClient[s][m]
<1>1. TypeOK /\ Connections /\ Conversation
  BY DEF TruthInv
<1>2. CASE toClient' = toClient
  BY <1>2
<1>3. CASE CloseControl
  BY <1>1, <1>3, Closed
<1>4. CASE Arrived /\ Receive
  BY <1>1, <1>4, Received
<1>5. CASE GetDoneFails
  <2>1. Arrived /\ Got.code = "OK" /\ toClient' = [toClient EXCEPT ![conn] = <<Msg("payload")>> \o Tail(@)]
    BY <1>5 DEF GetDoneFails, Ended
  <2>2. Tail(toClient[conn]) = <<>> /\ toClient \in Channels /\ conn \in Sessions
    BY <1>1, <2>1, AnswerIsLast, TypeParts DEF LoopType, NetType
  <2>3. CASE s = conn
    <3>1. toClient'[s] = <<Msg("payload")>> \o <<>>
      BY <2>1, <2>2, <2>3 DEF Channels
    <3>2. toClient'[s][n].code = "payload"
      BY <3>1 DEF Msg
    <3> QED
      BY <3>2
  <2>4. CASE s # conn
    BY <2>1, <2>2, <2>4 DEF Channels
  <2> QED
    BY <2>3, <2>4
<1>6. CASE Loop \/ (Mishap /\ ~AskFails)
  BY <1>2, <1>3, <1>6 DEF Loop, NextCommand, StartTry, Report, Reconnect, Connected, Quit, Mishap,
     NoNames, CheckFails, SetupFails, GiveUp, PutStartFails, GetStartFails, StartFails, GetEmptyModeFails,
     Signalled, CloseControl, netVars
<1>7. CASE Sends \/ AskFails
  <2>1. toClient' = toClient \/ CloseControl
    BY <1>7 DEF Sends, AskFails, PutAsk, GetAsk, CommandAsk, Ask, PutGivesUp, GetGivesUp, CreateFails,
       PutStart, GetStart, Start, GetEmpty, GetEmptyNotRenamed, Abort, Broken
  <2> QED
    BY <1>2, <1>3, <2>1
<1>8. CASE Transfer /\ ~Sends /\ ~GetDoneFails
  <2>1. toClient' = toClient \/ CloseControl \/ (Arrived /\ Receive)
    BY <1>8 DEF Transfer, Sends, AnswerBroken, Refused, AnsweredOk, Accepted, Answered, CheckChildren,
       FirstTimeNoChild, NoMoreChild, WaitBroken, Informed, TransferFailed, PutDone, GetDone,
       Ended, Broken, netVars
  <2> QED
    BY <1>2, <1>3, <1>4, <2>1
<1>9. CASE PutAcked \/ KidsFail \/ \E t \in Sessions : Children(t)
  BY <1>2, <1>9
     DEF PutAcked, KidsFail, Children, PutData, GetData, GetAcked, SkidsFail, childFrame, netVars
<1>10. CASE UNCHANGED vars
  BY <1>2, <1>10 DEF vars, netVars
<1> QED
  BY <1>5, <1>6, <1>7, <1>8, <1>9, <1>10 DEF Next, Mishap, Over

LEMMA AnswersServe ==
  ASSUME TruthInv, History, NEW s \in Sessions, Serve(s) \/ ServeTimeout(s)
  PROVE  AnswersTrue'
<1>1. TypeOK /\ RequestsKnown /\ SessionKeeps(s) /\ NetType /\ ServerType /\ DestType
  BY TypeParts DEF TruthInv
<1>2. job[s] \in Tags /\ {"ACCEPT", "EMPTY", "OK", "BAD", "NORETRY", "INFO"} \subseteq Codes
  BY <1>1 DEF ServerType, Codes, Final
<1>3. toServer[s] # <<>> => Asked(s) \in Tags
  BY <1>1, AskedType
<1>4. toServer[s] # <<>> => 1 \in 1..Len(toServer[s]) /\ Head(toServer[s]) = toServer[s][1]
  BY <1>1, Shortened DEF NetType, Channels
<1>5. ASSUME toClient' = toClient PROVE AnswersTrue'
  BY <1>5, OldAnswers
<1>6. ASSUME NEW code \in {"ACCEPT", "EMPTY", "BAD", "NORETRY", "INFO"},
             NEW tag \in Tags, Reply(s, code, tag)
      PROVE  AnswersTrue'
  BY <1>2, <1>6, NewAnswer
<1>7. CASE ServeStore(s)
  <2>1. toServer[s] # <<>> /\ Asked(s) \in Tags
    BY <1>3, <1>7 DEF ServeStore, Pending
  <2>2. CASE Reply(s, "OK", Asked(s)) /\ dest' = [dest EXCEPT ![Asked(s)[1]] = "new"]
    <3>1. Known(Asked(s))
      BY <1>1, <1>4, <2>1 DEF RequestsKnown, Asked
    <3>2. Asked(s)[1] \in Commands
      BY <1>1, <3>1, TypeParts, BoundsAssumption DEF Known, LoopType, Commands
    <3>3. dest'[Asked(s)[1]] = "new"
      BY <1>1, <2>2, <3>2 DEF DestType
    <3> QED
      BY <1>2, <2>1, <2>2, <3>1, <3>3, NewAnswer
  <2> QED
    BY <1>6, <1>7, <2>1, <2>2 DEF ServeStore, Refusals
<1>8. CASE ServeRetr(s)
  BY <1>3, <1>6, <1>8 DEF ServeRetr, Pending, Refusals
<1>9. CASE ServeCommand(s)
  <2>1. toServer[s] # <<>> /\ Asked(s) \in Tags /\ Head(toServer[s]).code = "CMD"
    BY <1>3, <1>9 DEF ServeCommand, Pending
  <2>2. Known(Asked(s)) /\ kindOf[Asked(s)[1]] = "other"
    BY <1>1, <1>4, <2>1 DEF RequestsKnown, Asked
  <2>3. Reply(s, "OK", Asked(s)) => AnswersTrue'
    BY <1>2, <2>1, <2>2, NewAnswer
  <2> QED
    BY <1>6, <1>9, <2>1, <2>3 DEF ServeCommand, Refusals
<1>10. CASE ServeStart(s)
  BY <1>2, <1>5, <1>6, <1>10 DEF ServeStart
<1>11. CASE ServeInvalid(s)
  BY <1>3, <1>6, <1>11 DEF ServeInvalid
<1>12. CASE ServeFinish(s)
  <2>1. Known(job[s]) /\ (kindOf[job[s][1]] = "put" => remote[s] = "full")
    BY <1>1, <1>12 DEF ServeFinish, SessionKeeps
  <2>2. job[s][1] \in Commands
    BY <1>1, <2>1, TypeParts, BoundsAssumption DEF Known, LoopType, Commands
  <2>3. CASE /\ Reply(s, "OK", job[s])
             /\ dest' = IF remote[s] = "absent" THEN dest
                        ELSE [dest EXCEPT ![job[s][1]] = IF remote[s] = "full" THEN "new" ELSE "part"]
    <3>1. kindOf[job[s][1]] = "put" => dest'[job[s][1]] = "new"
      BY <1>1, <2>1, <2>2, <2>3 DEF DestType
    <3> QED
      BY <1>2, <2>1, <2>3, <3>1, NewAnswer
  <2> QED
    BY <1>2, <1>6, <1>12, <2>3 DEF ServeFinish
<1>13. CASE ServeFailed(s)
  BY <1>2, <1>6, <1>13 DEF ServeFailed, Refusals
<1>14. CASE \/ ServeClosed(s) \/ ServeInterrupted(s) \/ ServeEof(s) \/ ServeTimeout(s)
            \/ ServeCleaned(s)
  BY <1>5, <1>14 DEF ServeClosed, ServeInterrupted, ServeEof, ServeTimeout, ServeCleaned
<1> QED
  BY <1>7, <1>8, <1>9, <1>10, <1>11, <1>12, <1>13, <1>14 DEF Serve

LEMMA AnswersStep ==
  ASSUME TruthInv, History, [Next]_vars PROVE AnswersTrue'
<1>1. CASE \E s \in Sessions : Serve(s) \/ ServeTimeout(s)
  BY <1>1, AnswersServe
<1>2. CASE ~\E s \in Sessions : Serve(s) \/ ServeTimeout(s)
  BY <1>2, ClientTakes, OldAnswers
<1> QED
  BY <1>1, <1>2

-----------------------------------------------------------------------------
(* What a session has of its transfer.                                     *)

\* A session that a step leaves alone.
LEMMA SessionLeft ==
  ASSUME TruthInv, History, NEW s \in Sessions,
         srv'[s] = srv[s], job'[s] = job[s], skids'[s] = skids[s], remote'[s] = remote[s]
  PROVE  SessionKeeps(s)'
<1>1. SessionKeeps(s) /\ cmd \in Nat
  BY TypeParts, BoundsAssumption DEF TruthInv, LoopType
<1>2. srv[s] \in {"START", "BUSY", "CLEAN"} =>
        job[s][1] \in 1..cmd /\ job[s][1] \in 1..cmd' /\ kindOf'[job[s][1]] = kindOf[job[s][1]]
  BY <1>1 DEF SessionKeeps, Known, History
<1> QED
  BY <1>1, <1>2 DEF SessionKeeps, Known

\* A new session has neither children nor a file.
LEMMA SessionConnected ==
  ASSUME TruthInv, History, NEW ok \in BOOLEAN, Connected(ok), NEW s \in Sessions
  PROVE  SessionKeeps(s)'
<1>1. LoopType /\ ServerType /\ Connections /\ SessionKeeps(s)
  BY TypeParts DEF TruthInv
<1>2. conn + 1 \in Sessions /\ srv' = [srv EXCEPT ![conn + 1] = "LOGGED"] /\ UNCHANGED <<job, skids, remote>>
  BY <1>1, BoundsAssumption DEF Connected, LoopType, Sessions
<1>3. CASE s # conn + 1
  BY <1>1, <1>2, <1>3, SessionLeft DEF ServerType
<1>4. CASE s = conn + 1
  <2>1. srv[s] = "none" /\ skids[s] = "none"
    BY <1>1, <1>2, <1>4 DEF Connections, LoopType, Sessions
  <2>2. srv'[s] = "LOGGED" /\ skids'[s] = "none" /\ remote'[s] = "absent"
    BY <1>1, <1>2, <1>4, <2>1 DEF SessionKeeps, ServerType
  <2> QED
    BY <2>2 DEF SessionKeeps
<1> QED
  BY <1>3, <1>4

\* The children of a session: what they end with is what was transferred.
LEMMA SessionChildren ==
  ASSUME TruthInv, History, NEW t \in Sessions, Children(t), NEW s \in Sessions
  PROVE  SessionKeeps(s)'
<1>1. ServerType /\ SessionKeeps(s)
  BY TypeParts DEF TruthInv
<1>2. UNCHANGED <<srv, job, kindOf, cmd>>
  BY DEF Children, PutData, GetData, GetAcked, SkidsFail, childFrame
<1>3. CASE s # t
  <2>1. skids'[s] = skids[s] /\ remote'[s] = remote[s]
    BY <1>1, <1>3 DEF Children, PutData, GetData, GetAcked, SkidsFail, ServerType
  <2> QED
    BY <1>2, <2>1, SessionLeft
<1>4. CASE s = t /\ PutData(s)
  <2>1. skids[s] = "running" /\ kindOf[job[s][1]] = "put" /\ skids'[s] = "done" /\ remote'[s] = "full"
    BY <1>1, <1>4 DEF PutData, Joined, Kind, Try, ServerType
  <2> QED
    BY <1>1, <1>2, <2>1 DEF SessionKeeps, Known
<1>5. CASE s = t /\ GetData(s)
  <2>1. /\ skids[s] = "running" /\ kindOf[job[s][1]] = "get" /\ skids'[s] = "acked"
        /\ remote'[s] = remote[s]
    BY <1>1, <1>5 DEF GetData, Joined, Kind, Try, ServerType
  <2> QED
    BY <1>1, <1>2, <2>1 DEF SessionKeeps, Known
<1>6. CASE s = t /\ GetAcked(s)
  <2>1. skids[s] = "acked" /\ skids'[s] = "done" /\ remote'[s] = remote[s]
    BY <1>1, <1>6 DEF GetAcked, ServerType
  <2>2. kindOf[job[s][1]] = "get" /\ remote[s] = "absent"
    BY <1>1, <2>1 DEF SessionKeeps, ServerType
  <2> QED
    BY <1>1, <1>2, <2>1, <2>2 DEF SessionKeeps, Known
<1>7. CASE s = t /\ SkidsFail(s)
  <2>1. skids[s] # "none" /\ skids[s] # "bad" /\ skids'[s] = "bad" /\ remote'[s] = "absent"
    BY <1>1, <1>7 DEF SkidsFail, ServerType
  <2> QED
    BY <1>1, <1>2, <2>1 DEF SessionKeeps, Known
<1> QED
  BY <1>3, <1>4, <1>5, <1>6, <1>7 DEF Children

\* A session by itself.
LEMMA SessionServe ==
  ASSUME TruthInv, History, NEW t \in Sessions, Serve(t) \/ ServeTimeout(t), NEW s \in Sessions
  PROVE  SessionKeeps(s)'
<1>1. TypeOK /\ NetType /\ ServerType /\ RequestsKnown /\ SessionKeeps(s)
  BY TypeParts DEF TruthInv
<1>2. cmd' = cmd /\ kindOf' = kindOf
  BY ServeFrame
<1>3. CASE s # t
  BY <1>1, <1>3, ServesOne, SessionLeft
<1>4. CASE s = t /\ (ServeStore(s) \/ ServeRetr(s))
  <2>1. toServer[s] # <<>> /\ srv[s] = "LOGGED" /\ skids' = skids /\ job'[s] = Head(toServer[s]).tag
    BY <1>1, <1>4 DEF ServeStore, ServeRetr, Pending, Asked, ServerType
  <2>2. 1 \in 1..Len(toServer[s]) /\ Head(toServer[s]) = toServer[s][1]
    BY <1>1, <2>1, Shortened DEF NetType, Channels
  <2>3. Known(job'[s])
    BY <1>1, <2>1, <2>2 DEF RequestsKnown
  <2>4. skids[s] = "none" /\ remote[s] = "absent"
    BY <1>1, <2>1 DEF SessionKeeps, ServerType
  <2>5. remote'[s] # "absent" => srv'[s] = "START" /\ kindOf[job'[s][1]] = "put"
    <3>1. CASE ServeStore(s)
      <4>1. kindOf[job'[s][1]] = "put"
        BY <1>1, <2>1, <2>2, <3>1 DEF RequestsKnown, ServeStore, Pending
      <4> QED
        BY <1>1, <2>4, <3>1, <4>1 DEF ServeStore, ServerType
    <3>2. CASE ServeRetr(s)
      BY <2>4, <3>2 DEF ServeRetr
    <3> QED
      BY <1>4, <3>1, <3>2
  <2> QED
    BY <1>2, <2>1, <2>3, <2>4, <2>5 DEF SessionKeeps, Known
<1>5. CASE s = t /\ ServeCommand(s)
  BY <1>5, SessionLeft DEF ServeCommand, serverVars
<1>6. CASE s = t /\ ServeStart(s)
  <2>1. srv[s] = "START" /\ job'[s] = job[s] /\ skids[s] = "none"
    BY <1>1, <1>6 DEF ServeStart, SessionKeeps
  <2>2. \/ srv'[s] = "BUSY" /\ skids'[s] = "running" /\ remote'[s] = remote[s]
        \/ srv'[s] = "LOGGED" /\ skids'[s] = "none" /\ remote'[s] = "absent"
    BY <1>1, <1>6, <2>1 DEF ServeStart, ServerType
  <2> QED
    BY <1>1, <1>2, <2>1, <2>2 DEF SessionKeeps, Known
<1>7. CASE s = t /\ ServeClosed(s)
  <2>1. /\ srv[s] \in {"START", "ZERO"} /\ srv'[s] = "LOGGED" /\ remote'[s] = "absent"
        /\ skids'[s] = skids[s]
    BY <1>1, <1>7 DEF ServeClosed, ServerType
  <2> QED
    BY <1>1, <2>1 DEF SessionKeeps
<1>8. CASE s = t /\ (ServeInvalid(s) \/ ServeInterrupted(s) \/ ServeEof(s) \/ ServeTimeout(s))
  <2>1. srv'[s] = "exit" /\ skids'[s] = "none" /\ remote'[s] = "absent"
    BY <1>1, <1>8, EndedFacts DEF ServeInvalid, ServeInterrupted, ServeEof, ServeTimeout
  <2> QED
    BY <2>1 DEF SessionKeeps
<1>9. CASE s = t /\ ServeFinish(s)
  <2>1. srv'[s] = "LOGGED" /\ skids'[s] = "none" /\ remote'[s] = "absent"
    BY <1>1, <1>9 DEF ServeFinish, ServerType
  <2> QED
    BY <2>1 DEF SessionKeeps
<1>10. CASE s = t /\ ServeFailed(s)
  <2>1. /\ srv[s] = "BUSY" /\ skids[s] = "bad" /\ srv'[s] = "CLEAN" /\ remote'[s] = "absent"
        /\ skids'[s] = skids[s] /\ job'[s] = job[s]
    BY <1>1, <1>10 DEF ServeFailed, ServerType
  <2> QED
    BY <1>1, <1>2, <2>1 DEF SessionKeeps, Known
<1>11. CASE s = t /\ ServeCleaned(s)
  <2>1. srv[s] = "CLEAN" /\ srv'[s] = "LOGGED" /\ skids'[s] = "none" /\ remote'[s] = remote[s]
    BY <1>1, <1>11 DEF ServeCleaned, ServerType
  <2> QED
    BY <1>1, <2>1 DEF SessionKeeps
<1> QED
  BY <1>3, <1>4, <1>5, <1>6, <1>7, <1>8, <1>9, <1>10, <1>11 DEF Serve

\* The client's own steps do nothing to a session but connect to it.
LEMMA SessionsStand ==
  ASSUME [Next]_vars, \A s \in Sessions : ~(Serve(s) \/ ServeTimeout(s)) /\ ~Children(s)
  PROVE  UNCHANGED serverVars \/ \E ok \in BOOLEAN : Connected(ok)
<1>1. CASE Loop \/ (Mishap /\ ~AskFails)
  BY <1>1 DEF Loop, NextCommand, StartTry, Report, Reconnect, Quit, Mishap, NoNames, CheckFails, SetupFails,
     GiveUp, PutStartFails, GetStartFails, StartFails, GetEmptyModeFails, Signalled, frame
<1>2. CASE Transfer \/ AskFails
  <2>1. UNCHANGED frame
    BY <1>2 DEF Transfer, AskFails, PutAsk, GetAsk, CommandAsk, Ask, AnswerBroken, Refused, AnsweredOk,
       Accepted, PutGivesUp, GetGivesUp, CreateFails, PutStart, GetStart, Start, GetEmpty,
       GetEmptyNotRenamed, CheckChildren, FirstTimeNoChild, NoMoreChild, WaitBroken, Informed,
       TransferFailed, PutDone, GetDone, GetDoneFails, Abort, Broken
  <2> QED
    BY <2>1 DEF frame
<1>3. CASE PutAcked \/ KidsFail
  BY <1>3 DEF PutAcked, KidsFail, childFrame, serverVars
<1>4. CASE UNCHANGED vars
  BY <1>4 DEF vars
<1> QED
  BY <1>1, <1>2, <1>3, <1>4 DEF Next, Mishap, Over

LEMMA SessionsStep ==
  ASSUME TruthInv, History, [Next]_vars, NEW s \in Sessions PROVE SessionKeeps(s)'
<1>1. CASE \E t \in Sessions : Serve(t) \/ ServeTimeout(t)
  BY <1>1, SessionServe
<1>2. CASE \E t \in Sessions : Children(t)
  BY <1>2, SessionChildren
<1>3. CASE UNCHANGED serverVars
  BY <1>3, SessionLeft DEF serverVars
<1>4. CASE \E ok \in BOOLEAN : Connected(ok)
  BY <1>4, SessionConnected
<1> QED
  BY <1>1, <1>2, <1>3, <1>4, SessionsStand

-----------------------------------------------------------------------------
(* The client's copy of a get.                                             *)

\* Nothing more is known to be complete than before.
LEMMA GetStays ==
  ASSUME TruthInv, UNCHANGED <<conn, cmd, kindOf, local>>,
         open'[conn] => open[conn], pc' = "wait" => pc = "wait", kids' = "running" => kids = "running",
         skids'[conn] \in {"acked", "done"} => skids[conn] \in {"acked", "done"},
         \A n \in 1..Len(toClient'[conn]) : toClient'[conn][n].code = "OK" =>
           \/ skids[conn] = "done" \/ pc = "answer"
           \/ \E m \in 1..Len(toClient[conn]) : toClient'[conn][n] = toClient[conn][m]
  PROVE  GetComplete'
BY DEF TruthInv, GetComplete, Kind

\* Outside of the wait there is nothing to show.
LEMMA GetElsewhere ==
  ASSUME TruthInv, pc' # "wait", kids' # "running" \/ UNCHANGED <<kids, local>>
  PROVE  GetComplete'
BY DEF TruthInv, GetComplete

\* When the transfer starts, the session has no children and has said nothing.
LEMMA GetStarts ==
  ASSUME TruthInv, NEW kind, NEW file \in {"absent", "partial"}, Start(kind, file)
  PROVE  GetComplete'
<1>1. TypeOK /\ conn \in Sessions /\ Conversation /\ SessionKeeps(conn)
  BY TypeParts DEF TruthInv, LoopType
<1>2. CASE Broken("CONN_BROKEN")
  BY <1>2, GetElsewhere DEF Broken, CleanChild, Return
<1>3. CASE /\ kids' = "running" /\ local' = file /\ pc' = "wait"
           /\ UNCHANGED <<frame, tryVars, dest, open, toClient>>
  <2>1. pc = "prepare" /\ conn' = conn /\ open' = open /\ toClient' = toClient /\ skids' = skids
    BY <1>3 DEF Start, frame, serverVars
  <2>2. open[conn] => toClient[conn] = <<>> /\ skids[conn] = "none"
    BY <1>1, <2>1 DEF Conversation, Together, SessionKeeps
  <2> QED
    BY <1>3, <2>1, <2>2 DEF GetComplete
<1> QED
  BY <1>2, <1>3 DEF Start

\* The children: those of a get end well when the file is complete.
LEMMA GetChildren ==
  ASSUME TruthInv, PutAcked \/ KidsFail \/ \E s \in Sessions : Children(s)
  PROVE  GetComplete'
<1>1. conn \in Sessions /\ ServerType
  BY TypeParts DEF TruthInv, LoopType
<1>2. UNCHANGED <<conn, cmd, kindOf, pc, open, toClient>>
  BY DEF PutAcked, KidsFail, Children, PutData, GetData, GetAcked, SkidsFail, childFrame, netVars
<1>3. CASE PutAcked
  BY <1>2, <1>3, GetStays DEF PutAcked
<1>4. CASE KidsFail
  <2>1. /\ kids = "running" /\ kids' = "ended" /\ skids' = skids
        /\ local' = IF Kind = "get" THEN "absent" ELSE local
    BY <1>4 DEF KidsFail
  <2>2. CASE Kind = "get"
    <3>1. local # "full"
      BY <2>1 DEF TruthInv, GetComplete
    <3> QED
      BY <1>2, <2>1, <2>2, <3>1 DEF TruthInv, GetComplete, Kind
  <2>3. CASE Kind # "get"
    BY <1>2, <2>1, <2>3 DEF GetComplete, Kind
  <2> QED
    BY <2>2, <2>3
<1>5. ASSUME NEW s \in Sessions, PutData(s) PROVE GetComplete'
  BY <1>2, <1>5 DEF PutData, GetComplete, Kind
<1>6. ASSUME NEW s \in Sessions, GetData(s) PROVE GetComplete'
  BY <1>6 DEF GetData, GetComplete
<1>7. ASSUME NEW s \in Sessions, GetAcked(s) PROVE GetComplete'
  BY <1>1, <1>2, <1>7, GetStays DEF GetAcked, ServerType
<1>8. ASSUME NEW s \in Sessions, SkidsFail(s) PROVE GetComplete'
  BY <1>1, <1>2, <1>8, GetStays DEF SkidsFail, ServerType
<1> QED
  BY <1>3, <1>4, <1>5, <1>6, <1>7, <1>8 DEF Children

\* While the client waits, the session says OK only when its children ended well.
LEMMA OkWhenDone ==
  ASSUME TruthInv, open[conn], pc = "wait", Serve(conn) \/ ServeTimeout(conn),
         NEW n \in 1..Len(toClient'[conn]), toClient'[conn][n].code = "OK"
  PROVE  \/ skids[conn] = "done"
         \/ \E m \in 1..Len(toClient[conn]) : toClient'[conn][n] = toClient[conn][m]
<1>1. TypeOK /\ NetType /\ ServerType /\ conn \in Sessions /\ Requested
  BY TypeParts DEF TruthInv, LoopType, Conversation
<1>2. {"ACCEPT", "EMPTY", "OK", "BAD", "NORETRY", "INFO"} \subseteq Codes
  BY DEF Codes, Final
<1>3. toServer[conn] # <<>> => Head(toServer[conn]).code \notin Requests
  BY <1>1, Shortened DEF NetType, Channels, Requested
<1>4. ~ServeStore(conn) /\ ~ServeRetr(conn) /\ ~ServeCommand(conn)
  BY <1>3 DEF ServeStore, ServeRetr, ServeCommand, Pending, Requests
<1>5. toServer[conn] # <<>> => Asked(conn) \in Tags
  BY <1>1, AskedType
<1>6. ASSUME NEW code \in {"BAD", "NORETRY", "INFO"}, NEW tag \in Tags, Reply(conn, code, tag)
      PROVE  \E m \in 1..Len(toClient[conn]) : toClient'[conn][n] = toClient[conn][m]
  <2> DEFINE new == [code |-> code, tag |-> tag]
  <2>1. \/ \E m \in 1..Len(toClient[conn]) : toClient'[conn][n] = toClient[conn][m]
        \/ toClient'[conn][n] = new
    <3>1. code \in Codes
      BY <1>2
    <3> QED
      BY <1>1, <1>6, <3>1, Answering
  <2>2. new.code # "OK"
    OBVIOUS
  <2> QED
    BY <2>1, <2>2
<1>7. CASE ServeFinish(conn)
  BY <1>7 DEF ServeFinish
<1>8. CASE ServeStart(conn) \/ ServeInvalid(conn) \/ ServeFailed(conn)
  <2>1. \/ toClient' = toClient
        \/ \E code \in {"BAD", "NORETRY", "INFO"}, tag \in Tags : Reply(conn, code, tag)
    BY <1>1, <1>5, <1>8 DEF ServeStart, ServeInvalid, ServeFailed, Refusals, ServerType
  <2> QED
    BY <1>6, <2>1
<1>9. CASE \/ ServeClosed(conn) \/ ServeInterrupted(conn) \/ ServeEof(conn) \/ ServeTimeout(conn)
           \/ ServeCleaned(conn)
  BY <1>9 DEF ServeClosed, ServeInterrupted, ServeEof, ServeTimeout, ServeCleaned
<1> QED
  BY <1>4, <1>7, <1>8, <1>9 DEF Serve

LEMMA GetServe ==
  ASSUME TruthInv, NEW s \in Sessions, Serve(s) \/ ServeTimeout(s)
  PROVE  GetComplete'
<1>1. TypeOK /\ ServerType /\ conn \in Sessions
  BY TypeParts DEF TruthInv, LoopType
<1>2. UNCHANGED <<conn, cmd, kindOf, local, pc, kids, open>>
  BY ServeFrame
<1>3. CASE s # conn
  BY <1>1, <1>2, <1>3, ServesOne, GetStays
<1>4. CASE s = conn /\ open[conn] /\ pc = "wait"
  <2>1. skids'[conn] \in {"acked", "done"} => skids[conn] \in {"acked", "done"}
    BY <1>1, <1>4, EndedFacts
       DEF Serve, ServeTimeout, ServeStore, ServeRetr, ServeCommand, ServeStart, ServeClosed,
           ServeInvalid, ServeInterrupted, ServeEof, ServeFinish, ServeFailed, ServeCleaned,
           serverVars, ServerType
  <2> QED
    BY <1>2, <1>4, <2>1, OkWhenDone, GetStays
<1>5. CASE pc # "wait"
  BY <1>2, <1>5, GetElsewhere
<1>6. CASE ~open[conn]
  BY <1>2, <1>6 DEF TruthInv, GetComplete
<1> QED
  BY <1>3, <1>4, <1>5, <1>6

LEMMA GetStep ==
  ASSUME TruthInv, [Next]_vars PROVE GetComplete'
<1>1. ASSUME NEW rc, Broken(rc) PROVE GetComplete'
  BY <1>1, GetElsewhere DEF Broken, CleanChild, Return
<1>2. ASSUME NEW rc, Return(rc), UNCHANGED <<kids, local>> \/ CleanChild PROVE GetComplete'
  BY <1>2, GetElsewhere DEF CleanChild, Return
<1>3. ASSUME NEW rc, NEW brokenRc, Abort(rc, brokenRc) PROVE GetComplete'
  BY <1>1, <1>2, <1>3 DEF Abort
<1>4. CASE Loop \/ NoNames \/ SetupFails \/ GiveUp \/ Signalled
  <2>1. pc' # "wait" /\ (kids' # "running" \/ UNCHANGED <<kids, local>>)
    BY <1>4 DEF Loop, NextCommand, StartTry, Report, Reconnect, Connected, Quit, NoNames, SetupFails,
       GiveUp, Signalled, CleanChild
  <2> QED
    BY <2>1, GetElsewhere
<1>5. CASE PutAsk \/ GetAsk \/ CommandAsk \/ Accepted
  <2>1. pc' # "wait" /\ UNCHANGED <<kids, local>>
    BY <1>5 DEF PutAsk, GetAsk, CommandAsk, Ask, Accepted
  <2> QED
    BY <2>1, GetElsewhere
<1>6. CASE Refused \/ AnsweredOk \/ CheckFails \/ PutStartFails \/ GetStartFails \/ GetEmptyModeFails
  BY <1>2, <1>6 DEF Refused, AnsweredOk, CheckFails, PutStartFails, GetStartFails, StartFails,
     GetEmptyModeFails
<1>7. CASE AnswerBroken \/ AskFails \/ NoMoreChild \/ WaitBroken
  BY <1>1, <1>7 DEF AnswerBroken, AskFails, NoMoreChild, WaitBroken
<1>8. CASE PutGivesUp \/ GetGivesUp \/ CreateFails \/ GetEmptyNotRenamed
  BY <1>3, <1>8 DEF PutGivesUp, GetGivesUp, CreateFails, GetEmptyNotRenamed
<1>9. CASE PutStart \/ GetStart
  BY <1>9, GetStarts DEF PutStart, GetStart
<1>10. CASE GetEmpty
  BY <1>2, <1>10 DEF GetEmpty, frame
<1>11. CASE CheckChildren \/ FirstTimeNoChild
  BY <1>11, GetStays DEF CheckChildren, FirstTimeNoChild, frame, netVars, serverVars
<1>12. CASE Informed
  <2>1. Arrived /\ Receive /\ UNCHANGED <<conn, cmd, kindOf, local, open, pc, kids, skids>>
    BY <1>12 DEF Informed, Ended, frame, serverVars
  <2>2. \A n \in 1..Len(toClient'[conn]) :
          \E m \in 1..Len(toClient[conn]) : toClient'[conn][n] = toClient[conn][m]
    BY <2>1, Received DEF TruthInv
  <2> QED
    BY <2>1, <2>2, GetStays
<1>13. CASE TransferFailed \/ PutDone \/ GetDone \/ GetDoneFails
  BY <1>2, <1>13 DEF TransferFailed, PutDone, GetDone, GetDoneFails
<1>14. CASE PutAcked \/ KidsFail \/ \E s \in Sessions : Children(s)
  BY <1>14, GetChildren
<1>15. ASSUME NEW s \in Sessions, Serve(s) \/ ServeTimeout(s) PROVE GetComplete'
  BY <1>15, GetServe
<1>16. CASE UNCHANGED vars
  BY <1>16 DEF vars, clientVars, netVars, serverVars, TruthInv, GetComplete, Kind
<1> QED
  BY <1>4, <1>5, <1>6, <1>7, <1>8, <1>9, <1>10, <1>11, <1>12, <1>13, <1>14, <1>15, <1>16
     DEF Next, Transfer, Mishap, Over

-----------------------------------------------------------------------------
(* What is reported.                                                       *)

\* The loop works on a command that was read.
LEMMA WorksOnCommand ==
  ASSUME TruthInv, [Next]_vars, pc' \notin {"idle", "exit"} PROVE cmd' \in Commands
<1>1. CASE NextCommand
  BY <1>1, TypeParts, BoundsAssumption DEF NextCommand, TruthInv, LoopType, Commands
<1>2. CASE ~NextCommand
  <2>1. CASE Loop \/ Mishap
    BY <1>2, <2>1 DEF Loop, StartTry, Report, Reconnect, Connected, Quit, Mishap, NoNames, CheckFails, SetupFails,
       GiveUp, PutStartFails, GetStartFails, StartFails, GetEmptyModeFails, Signalled, AskFails,
       TruthInv, Results, frame, Broken
  <2>2. CASE Transfer
    <3>1. pc \notin {"idle", "exit"}
      BY <2>2 DEF Transfer, PutAsk, GetAsk, CommandAsk, Ask, AnswerBroken, Refused, AnsweredOk,
         Accepted, Answered, PutGivesUp, GetGivesUp, CreateFails, PutStart, GetStart, Start, GetEmpty,
         GetEmptyNotRenamed, CheckChildren, FirstTimeNoChild, NoMoreChild, WaitBroken, Informed, Ended,
         TransferFailed, PutDone, GetDone, GetDoneFails
    <3> QED
      BY <1>2, <3>1, CommandKept DEF TruthInv, Results
  <2>3. CASE PutAcked \/ KidsFail \/ \E s \in Sessions : Children(s)
    <3>1. pc' = pc
      BY <2>3 DEF PutAcked, KidsFail, Children, PutData, GetData, GetAcked, SkidsFail, childFrame
    <3> QED
      BY <1>2, <3>1, CommandKept DEF TruthInv, Results
  <2>4. ASSUME NEW s \in Sessions, Serve(s) \/ ServeTimeout(s) PROVE cmd' \in Commands
    BY <2>4, ServeFrame DEF TruthInv, Results
  <2>5. CASE UNCHANGED vars
    BY <2>5 DEF vars, clientVars, TruthInv, Results
  <2> QED
    BY <2>1, <2>2, <2>3, <2>4, <2>5 DEF Next, Over
<1> QED
  BY <1>1, <1>2

\* Only the end of the loop reports.
LEMMA ReportsAtEnd ==
  ASSUME [Next]_vars, ~Report PROVE reported' = reported
<1>1. CASE Loop \/ (Mishap /\ ~AskFails)
  BY <1>1 DEF Loop, NextCommand, StartTry, Report, Reconnect, Connected, Quit, Mishap, NoNames, CheckFails,
     SetupFails, GiveUp, PutStartFails, GetStartFails, StartFails, GetEmptyModeFails, Signalled, frame
<1>2. CASE Transfer \/ AskFails
  <2>1. UNCHANGED frame
    BY <1>2 DEF Transfer, AskFails, PutAsk, GetAsk, CommandAsk, Ask, AnswerBroken, Refused, AnsweredOk,
       Accepted, PutGivesUp, GetGivesUp, CreateFails, PutStart, GetStart, Start, GetEmpty,
       GetEmptyNotRenamed, CheckChildren, FirstTimeNoChild, NoMoreChild, WaitBroken, Informed,
       TransferFailed, PutDone, GetDone, GetDoneFails, Abort, Broken
  <2> QED
    BY <2>1 DEF frame
<1>3. CASE PutAcked \/ KidsFail \/ \E s \in Sessions : Children(s)
  BY <1>3 DEF PutAcked, KidsFail, Children, PutData, GetData, GetAcked, SkidsFail, childFrame
<1>4. ASSUME NEW s \in Sessions, Serve(s) \/ ServeTimeout(s) PROVE reported' = reported
  BY <1>4, ServeFrame
<1>5. CASE UNCHANGED vars
  BY <1>5 DEF vars, clientVars
<1> QED
  BY <1>1, <1>2, <1>3, <1>4, <1>5 DEF Next, Mishap, Over

\* The loop ends with the return code OK only after one of four answers.
LEMMA LoopEndsOk ==
  ASSUME TruthInv, [Next]_vars, pc' = "loop", tries' = 0, retcode' = "OK"
  PROVE  \/ UNCHANGED <<pc, tries, retcode>>
         \/ AnsweredOk \/ PutDone \/ GetDone \/ (GetEmpty /\ retcode' = "OK")
<1>1. ASSUME NEW rc, Return(rc), rc # "OK" PROVE FALSE
  BY <1>1 DEF Return
<1>2. CASE Loop \/ NoNames \/ SetupFails \/ GiveUp \/ Signalled
  BY <1>2, BoundsAssumption DEF NoNames, Loop, NextCommand, StartTry, Report, Reconnect,
     Connected, Quit, SetupFails, GiveUp, Signalled
<1>3. CASE PutAsk \/ GetAsk \/ CommandAsk \/ Accepted
  BY <1>3 DEF PutAsk, GetAsk, CommandAsk, Ask, Accepted
<1>4. CASE Refused \/ CheckFails \/ PutStartFails \/ GetStartFails \/ GetEmptyModeFails
           \/ TransferFailed \/ GetDoneFails
  BY <1>1, <1>4 DEF Refused, CheckFails, PutStartFails, GetStartFails, StartFails, GetEmptyModeFails,
     TransferFailed, GetDoneFails
<1>5. CASE AnswerBroken \/ AskFails \/ NoMoreChild \/ WaitBroken
  BY <1>1, <1>5 DEF AnswerBroken, AskFails, NoMoreChild, WaitBroken, Broken
<1>6. CASE PutGivesUp \/ GetGivesUp \/ CreateFails \/ GetEmptyNotRenamed
  BY <1>1, <1>6 DEF PutGivesUp, GetGivesUp, CreateFails, GetEmptyNotRenamed, Abort, Broken
<1>7. CASE PutStart \/ GetStart
  BY <1>1, <1>7 DEF PutStart, GetStart, Start, Broken
<1>8. CASE CheckChildren \/ FirstTimeNoChild \/ Informed
  BY <1>8 DEF CheckChildren, FirstTimeNoChild, Informed, tryVars
<1>9. CASE PutAcked \/ KidsFail \/ \E s \in Sessions : Children(s)
  BY <1>9 DEF PutAcked, KidsFail, Children, PutData, GetData, GetAcked, SkidsFail, childFrame
<1>10. ASSUME NEW s \in Sessions, Serve(s) \/ ServeTimeout(s) PROVE UNCHANGED <<pc, tries, retcode>>
  BY <1>10, ServeFrame
<1>11. CASE UNCHANGED vars
  BY <1>11 DEF vars, clientVars
<1> QED
  BY <1>2, <1>3, <1>4, <1>5, <1>6, <1>7, <1>8, <1>9, <1>10, <1>11 DEF Next, Transfer, Mishap, Over

\* Then the file is there, whoever renamed it.
LEMMA OkIsTransferred ==
  ASSUME TruthInv, History, [Next]_vars, pc' = "loop", tries' = 0, retcode' = "OK",
         Kind' # "other"
  PROVE  dest'[cmd'] = "new"
<1>1. LoopType /\ DestType /\ Results
  BY TypeParts DEF TruthInv
<1>2. ~NextCommand
  BY BoundsAssumption DEF NextCommand
<1>3. cmd' = cmd /\ kindOf' = kindOf
  BY <1>2, CommandKept
<1>4. cmd \in Commands /\ cmd \in 1..cmd
  BY <1>3, WorksOnCommand, BoundsAssumption DEF Commands
<1>5. Kind \in {"put", "get"}
  BY <1>1, <1>3, <1>4 DEF LoopType, Kind
<1>6. dest[cmd] = "new" => dest'[cmd'] = "new"
  BY <1>3, <1>4 DEF History
<1>7. CASE UNCHANGED <<pc, tries, retcode>>
  BY <1>1, <1>3, <1>5, <1>6, <1>7 DEF Results
<1>8. CASE AnsweredOk
  <2>1. Arrived /\ Got.code = "OK" /\ Kind # "get"
    BY <1>8 DEF AnsweredOk, Answered, Expected
  <2> QED
    BY <1>5, <1>6, <2>1, AnswerFacts
<1>9. CASE PutDone
  BY <1>6, <1>9, AnswerFacts DEF PutDone, Ended
<1>10. CASE GetDone
  <2>1. local = "full"
    BY <1>10, AnswerFacts DEF GetDone, Ended
  <2> QED
    BY <1>1, <1>3, <1>4, <1>10, <2>1 DEF GetDone, DestType
<1>11. CASE GetEmpty
  BY <1>1, <1>3, <1>4, <1>11 DEF GetEmpty, DestType
<1> QED
  BY <1>7, <1>8, <1>9, <1>10, <1>11, LoopEndsOk

LEMMA ResultsStep ==
  ASSUME TruthInv, History, [Next]_vars PROVE Results'
<1>1. LoopType /\ Results
  BY TypeParts DEF TruthInv
<1>2. pc' \notin {"idle", "exit"} => cmd' \in Commands
  BY WorksOnCommand
<1>3. pc' = "loop" /\ tries' = 0 /\ retcode' = "OK" /\ Kind' # "other" => dest'[cmd'] = "new"
  BY OkIsTransferred
<1>4. ASSUME NEW c \in Commands, reported'[c] = "OK"
      PROVE  c \in 1..cmd /\ (kindOf[c] # "other" => dest[c] = "new")
  <2>1. CASE reported[c] = "OK"
    BY <1>1, <2>1, BoundsAssumption DEF Results, Commands, LoopType
  <2>2. CASE reported[c] # "OK"
    <3>1. Report
      BY <1>4, <2>2, ReportsAtEnd
    <3>2. c = cmd /\ retcode = "OK" /\ pc = "loop" /\ tries = 0
      BY <1>1, <1>4, <2>2, <3>1 DEF Report, LoopType
    <3> QED
      BY <1>1, <3>2, BoundsAssumption DEF Results, Commands, Kind
  <2> QED
    BY <2>1, <2>2
<1>5. ASSUME NEW c \in Commands, reported'[c] = "OK"
      PROVE  c <= cmd' /\ (kindOf'[c] # "other" => dest'[c] = "new")
  BY <1>1, <1>4, <1>5 DEF History, LoopType
<1> QED
  BY <1>2, <1>3, <1>5 DEF Results

-----------------------------------------------------------------------------
\* Every step of the system.
LEMMA TruthStep == TruthInv /\ [Next]_vars => TruthInv'
<1> SUFFICES ASSUME TruthInv, [Next]_vars PROVE TruthInv'
  OBVIOUS
<1>1. TypeOK /\ Connections /\ Conversation /\ NeverPartial
  BY DEF TruthInv
<1>2. History
  BY HistoryKept
<1>3. TypeOK' /\ Connections' /\ Conversation'
  BY <1>1, TypeStep, ConnectionsStep, TalkStep
<1>4. RequestsKnown' /\ AnswersTrue' /\ GetComplete' /\ Results'
  BY <1>2, RequestsStep, AnswersStep, GetStep, ResultsStep
<1>5. \A s \in Sessions : SessionKeeps(s)'
  BY <1>2, SessionsStep
<1>6. NeverPartial'
  BY <1>1, DestGoesNew DEF NeverPartial
<1> QED
  BY <1>3, <1>4, <1>5, <1>6 DEF TruthInv

LEMMA TruthInvariance == Spec => []TruthInv
BY TruthInit, TruthStep, PTL DEF Spec

\* What the client may read while it waits is about the try it waits for: bbftp
\* never takes the answer of an earlier try for the one of this try. A try that is
\* broken closes its connection; the others have read the one answer to their
\* request, or gave it up by MSG_ABORT or in silence, which is not answered.
THEOREM AnswersAreCurrentHolds == Spec => []AnswersAreCurrent
<1>1. TruthInv => AnswersAreCurrent
  <2> SUFFICES ASSUME TruthInv, NEW n \in 1..Len(toClient[conn])
               PROVE  toClient[conn][n].code = "payload" \/ toClient[conn][n].tag = Try
    BY DEF AnswersAreCurrent
  <2>1. conn \in Sessions /\ Len(toClient[conn]) # 0
    BY TypeParts DEF TruthInv, LoopType, NetType, Channels
  <2>2. open[conn]
    BY <2>1 DEF TruthInv, Connections
  <2> QED
    BY <2>2 DEF TruthInv, Conversation, Replied
<1> QED
  BY <1>1, TruthInvariance, PTL

\* The keyword OK in the result file is true: when treatcommand has written it for
\* a put or a get, the destination holds the new file, although the sessions of
\* earlier tries may still be at work on the same file. It holds whatever fails; the OK
\* of a transfer whose file names could not be allocated is not covered (NoNames).
THEOREM OkMeansTransferredHolds == Spec => []OkMeansTransferred
<1>1. TruthInv => OkMeansTransferred
  BY DEF TruthInv, Results, OkMeansTransferred
<1> QED
  BY <1>1, TruthInvariance, PTL

\* A destination is replaced only by a complete file, on the client's side
\* (bbftp_get, after MSG_OK) and on the server's (the end of a store): with
\* TROPT_TMP a reader of the destination never sees a part of it.
THEOREM NeverPartialHolds == Spec => []NeverPartial
<1>1. TruthInv => NeverPartial
  BY DEF TruthInv
<1> QED
  BY <1>1, TruthInvariance, PTL

=============================================================================
