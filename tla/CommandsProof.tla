--------------------------- MODULE CommandsProof ---------------------------
(***************************************************************************)
(* Proofs about the commands of the control connection (Commands.tla).     *)
(*                                                                         *)
(* As long as no session has answered a request twice, the queues of the   *)
(* connection in use hold at most one message, the request of the client   *)
(* or its answer (Requested, Answered), and the session is in the state    *)
(* the user means in all that is not still to be replayed (Settled).       *)
(***************************************************************************)
EXTENDS Commands, TLAPS

\* The states in which the client works with the current connection.
Usable == \/ pc \in {"setup", "try", "wait"}
          \/ pc \in {"idle", "loop", "files", "file"} /\ ~broken

\* The session has what the user has set, but for what is still to be replayed.
CwdSettled == "cd" \in todo \/ cwd[conn] = believed
UmaskSettled == "umask" \in todo \/ mask = 0 \/ umask[conn] = mask

\* The globals hold what the user has set.
GlobalsKept == /\ \/ remotedir = NoDir /\ believed = <<>>
                  \/ remotedir = <<believed>>
               /\ \/ remoteumask = mask
                  \/ remoteumask = 0 /\ mask = DefaultUmask
               /\ ("cd" \in todo => remotedir # NoDir)
               /\ ("umask" \in todo => remoteumask # 0)

\* The request m is the one the client has just sent.
RequestOk(m) ==
  /\ m.op = Awaited /\ m.tag = Tag
  /\ todo = {} /\ op.kind \notin {"umask", "cos"} => ~m.absolute /\ m.arg = op.arg
  /\ todo # {} /\ Awaited = "cd" => m.absolute /\ <<m.arg>> = remotedir
  /\ Awaited = "umask" => m.val = IF todo = {} THEN op.val ELSE remoteumask

\* The answer a is to that request, and says what has become of it.
AnswerOk(a) ==
  /\ a.op = Awaited /\ a.tag = Tag
  /\ a.code \in {"OK", "LIST"} /\ a.sure => a.done
  /\ a.code = "OK" /\ Awaited = "cd" =>
       a.at = IF todo = {} THEN Resolve(believed, op.arg) ELSE believed
  /\ todo = {} /\ Awaited \notin {"cd", "umask", "cos"} => a.at = Resolve(believed, op.arg)
  /\ srv[conn] = "LOGGED" =>
       /\ IF a.code = "OK" /\ Awaited = "cd" THEN cwd[conn] = a.at ELSE CwdSettled
       /\ IF a.code = "OK" /\ Awaited = "umask"
          THEN umask[conn] = IF todo = {} THEN op.val ELSE remoteumask
          ELSE UmaskSettled

\* At most one message is on its way, in one direction.
Requested == toServer[conn] # <<>> =>
               /\ pc = "wait" /\ toClient[conn] = <<>>
               /\ toServer[conn] = <<Head(toServer[conn])>>
               /\ RequestOk(Head(toServer[conn]))
Answered == toClient[conn] # <<>> =>
               /\ pc = "wait"
               /\ toClient[conn] = <<Head(toClient[conn])>>
               /\ AnswerOk(Head(toClient[conn]))
Settled == (srv[conn] = "LOGGED" /\ toClient[conn] = <<>>
            /\ (pc = "wait" => toServer[conn] # <<>>)) => CwdSettled /\ UmaskSettled

\* What holds whatever the sessions answer.
ShapeInv ==
  /\ conn \in Sessions /\ confused \in [Sessions -> BOOLEAN]
  /\ DOMAIN toServer = Sessions /\ DOMAIN toClient = Sessions
  /\ DOMAIN cwd = Sessions /\ DOMAIN umask = Sessions /\ DOMAIN srv = Sessions
  /\ tries \in 0..MaxTries /\ op.kind \in Kinds
  /\ todo \subseteq {"umask", "cos", "cd"} /\ (todo # {} => pc \in {"setup", "wait"})
  /\ (pc = "try" => ~broken)
  /\ (pc \in {"files", "file"} => op.kind \in Many)
  /\ (back = "file" /\ pc \notin {"idle", "loop"} => op.kind \in Many)
  /\ back \in {"try", "file"}
  /\ (lines # {} => op.kind \in Many)
  /\ \A s \in Sessions : s > conn =>
       /\ srv[s] = "none" /\ cwd[s] = <<>> /\ umask[s] = DefaultUmask
       /\ toServer[s] = <<>> /\ toClient[s] = <<>>

\* What holds while no session has got out of step.
StepInv == GlobalsKept /\ (Usable => Requested /\ Answered /\ Settled)

Inv == ShapeInv /\ (InStep => StepInv /\ OkMeansDone /\ FilesReported)

-----------------------------------------------------------------------------
(* The shape of the state.                                                 *)

LEMMA InitShape == Init => ShapeInv
BY BoundsAssumption DEF Init, ShapeInv, Sessions, Many, Kinds, Local

\* The parts of ShapeInv that are about the sessions, and those that are not.
SessionShape ==
  /\ conn \in Sessions /\ confused \in [Sessions -> BOOLEAN]
  /\ DOMAIN toServer = Sessions /\ DOMAIN toClient = Sessions
  /\ DOMAIN cwd = Sessions /\ DOMAIN umask = Sessions /\ DOMAIN srv = Sessions
  /\ \A s \in Sessions : s > conn =>
       /\ srv[s] = "none" /\ cwd[s] = <<>> /\ umask[s] = DefaultUmask
       /\ toServer[s] = <<>> /\ toClient[s] = <<>>
ClientShape ==
  /\ tries \in 0..MaxTries /\ op.kind \in Kinds
  /\ todo \subseteq {"umask", "cos", "cd"} /\ (todo # {} => pc \in {"setup", "wait"})
  /\ (pc = "try" => ~broken)
  /\ (pc \in {"files", "file"} => op.kind \in Many)
  /\ (back = "file" /\ pc \notin {"idle", "loop"} => op.kind \in Many)
  /\ back \in {"try", "file"}
  /\ (lines # {} => op.kind \in Many)

LEMMA ShapeParts == ShapeInv <=> SessionShape /\ ClientShape
BY DEF ShapeInv, SessionShape, ClientShape

\* A step of the client changes the queues of its connection only.
LEMMA OneQueue ==
  ASSUME SessionShape, NEW f, NEW g,
         toServer' = toServer \/ toServer' = [toServer EXCEPT ![conn] = f],
         toClient' = toClient \/ toClient' = [toClient EXCEPT ![conn] = g],
         UNCHANGED <<conn, confused, cwd, umask, srv>>
  PROVE  SessionShape'
<1>1. conn \in Sessions /\ conn' = conn
  BY DEF SessionShape
<1>2. DOMAIN toServer' = Sessions /\ DOMAIN toClient' = Sessions
  BY DEF SessionShape
<1>3. ASSUME NEW s \in Sessions, s > conn
      PROVE  toServer'[s] = toServer[s] /\ toClient'[s] = toClient[s]
  <2>1. s # conn
    BY <1>1, <1>3 DEF Sessions
  <2> QED BY <2>1, <1>3 DEF SessionShape
<1> QED BY <1>1, <1>2, <1>3 DEF SessionShape

LEMMA OutcomeShape ==
  ASSUME ClientShape, NEW rc, Outcome(rc), pc \in {"try", "setup", "wait"},
         UNCHANGED <<op, back, lines>>
  PROVE  ClientShape'
<1>0. back = "file" => op.kind \in Many
  BY DEF ClientShape
<1>1. CASE todo = {}
  <2>1. todo' = {} /\ pc' = "loop" /\ tries' \in {0, tries}
    BY <1>1 DEF Outcome, Return
  <2> QED BY <1>0, <2>1, BoundsAssumption DEF ClientShape
<1>2. CASE todo # {}
  <2>1. /\ todo' \subseteq todo /\ (todo' # {} => pc' = "setup")
        /\ pc' \in {"setup", "connect"} /\ UNCHANGED <<tries, broken>>
    BY <1>2 DEF Outcome
  <2> QED BY <1>0, <2>1 DEF ClientShape
<1> QED BY <1>1, <1>2

LEMMA SendShape ==
  ASSUME ShapeInv, NEW verb, NEW arg, NEW absolute, NEW val, NEW opts,
         Send(verb, arg, absolute, val, opts)
  PROVE  ShapeInv'
<1>0. SessionShape /\ ClientShape
  BY ShapeParts
<1> DEFINE m == [op |-> verb, arg |-> arg, absolute |-> absolute, val |-> val, opts |-> opts,
                 tag |-> Tag]
<1>1. /\ \/ toServer' = toServer
         \/ toServer' = [toServer EXCEPT ![conn] = Append(toServer[conn], m)]
         \/ toServer' = [toServer EXCEPT ![conn] = Append(toServer[conn], [op |-> "cut", of |-> verb])]
      /\ \/ toClient' = toClient
         \/ toClient' = [toClient EXCEPT ![conn] = <<>>]
      /\ UNCHANGED <<conn, confused, cwd, umask, srv>>
  BY Zenon DEF Send, Shut, serverVars
<1> HIDE DEF m
<1>2. SessionShape'
  BY <1>0, <1>1, OneQueue
<1>3. pc \in {"try", "setup"} /\ UNCHANGED <<op, back, lines>>
  BY DEF Send, manyVars
<1>4. \/ pc' = "wait" /\ UNCHANGED <<tries, broken, todo>>
      \/ Outcome("CONN_BROKEN")
  BY Zenon DEF Send
<1>5. ClientShape'
  <2>1. CASE pc' = "wait" /\ UNCHANGED <<tries, broken, todo>>
    BY <1>0, <1>3, <2>1 DEF ClientShape
  <2>2. CASE Outcome("CONN_BROKEN")
    BY <1>0, <1>3, <2>2, OutcomeShape
  <2> QED BY <1>4, <2>1, <2>2
<1> QED BY <1>2, <1>5, ShapeParts, PTL

LEMMA FailedShape ==
  ASSUME ShapeInv, NEW kind, NEW code, Failed(kind, code)
  PROVE  ShapeInv'
<1>0. SessionShape /\ ClientShape
  BY ShapeParts
<1>1. /\ toServer' = toServer
      /\ \/ toClient' = toClient
         \/ toClient' = [toClient EXCEPT ![conn] = <<>>]
         \/ toClient' = [toClient EXCEPT ![conn] = Tail(toClient[conn])]
      /\ UNCHANGED <<conn, confused, cwd, umask, srv, op, back, lines>>
      /\ pc = "wait"
      /\ \E rc \in {"CONN_BROKEN", "ERROR", "FT_NR", "FT_NR_CONN_BROKEN"} : Outcome(rc)
  BY Zenon DEF Failed, NoAnswer, Refused, Unusable, Shut, answerFrame, serverVars, manyVars
<1>2. SessionShape'
  BY <1>0, <1>1, OneQueue
<1>3. ClientShape'
  BY <1>0, <1>1, OutcomeShape
<1> QED BY <1>2, <1>3, ShapeParts, PTL

LEMMA TakenShape ==
  ASSUME ShapeInv, NEW kind, NEW code, Taken(kind, code), UNCHANGED lines,
         \/ Outcome("OK")
         \/ /\ pc' = "files" /\ op.kind \in Many /\ todo = {}
            /\ UNCHANGED <<tries, broken, todo>>
  PROVE  ShapeInv'
<1>0. SessionShape /\ ClientShape
  BY ShapeParts
<1>1. /\ toServer' = toServer
      /\ toClient' = [toClient EXCEPT ![conn] = Tail(toClient[conn])]
      /\ UNCHANGED <<conn, confused, cwd, umask, srv, op, back, lines>>
      /\ pc = "wait"
  BY Zenon DEF Taken, answerFrame, serverVars
<1>2. SessionShape'
  BY <1>0, <1>1, OneQueue
<1>3. ClientShape'
  <2>1. CASE Outcome("OK")
    BY <1>0, <1>1, <2>1, OutcomeShape
  <2>2. CASE /\ pc' = "files" /\ op.kind \in Many /\ todo = {}
             /\ UNCHANGED <<tries, broken, todo>>
    BY <1>0, <1>1, <2>2 DEF ClientShape
  <2> QED BY <2>1, <2>2
<1> QED BY <1>2, <1>3, ShapeParts, PTL

\* Steps of the client that leave the connection and the settings alone.
LEMMA QuietShape ==
  ASSUME SessionShape, UNCHANGED <<conn, confused, cwd, umask, srv, toServer, toClient>>
  PROVE  SessionShape'
BY OneQueue

LEMMA LocalShape ==
  ASSUME ShapeInv, LocalCommand \/ DirNoMemory
  PROVE  ShapeInv'
<1>0. SessionShape /\ ClientShape
  BY ShapeParts
<1>1. SessionShape'
  BY <1>0, QuietShape DEF LocalCommand, RefuseCommand, Lcd, SetValue, SetOption, BadOption,
     DirNoMemory, localFrame, serverVars
<1>2. ClientShape'
  <2>1. CASE RefuseCommand
    BY <1>0, <2>1 DEF ClientShape, RefuseCommand, manyVars
  <2>2. CASE Lcd \/ SetOption
    BY <1>0, <2>2, BoundsAssumption
       DEF ClientShape, Lcd, SetOption, Return, localFrame, manyVars
  <2>3. CASE SetValue \/ BadOption
    BY <1>0, <2>3, BoundsAssumption
       DEF ClientShape, SetValue, BadOption, Return, localFrame, manyVars
  <2>4. CASE DirNoMemory
    BY <1>0, <2>4 DEF ClientShape, DirNoMemory, localFrame, manyVars
  <2> QED BY <2>1, <2>2, <2>3, <2>4 DEF LocalCommand
<1> QED BY <1>1, <1>2, ShapeParts, PTL

LEMMA LoopShape ==
  ASSUME ShapeInv, Loop \/ GiveUp \/ SetupDone
  PROVE  ShapeInv'
<1>0. SessionShape /\ ClientShape
  BY ShapeParts
<1>1. SessionShape'
  BY <1>0, QuietShape DEF Loop, NextCommand, StartTry, Report, GiveUp, SetupDone, connectFrame,
     serverVars
<1>2. ClientShape'
  <2>1. CASE NextCommand
    BY <1>0, <2>1, BoundsAssumption, OperationsAssumption DEF ClientShape, NextCommand
  <2>2. CASE StartTry
    BY <1>0, <2>2, BoundsAssumption DEF ClientShape, StartTry, manyVars
  <2>3. CASE Report
    BY <1>0, <2>3 DEF ClientShape, Report, manyVars
  <2>4. CASE GiveUp
    BY <1>0, <2>4 DEF ClientShape, GiveUp, workVars, manyVars
  <2>5. CASE SetupDone
    BY <1>0, <2>5 DEF ClientShape, SetupDone, connectFrame, workVars, manyVars
  <2> QED BY <2>1, <2>2, <2>3, <2>4, <2>5 DEF Loop
<1> QED BY <1>1, <1>2, ShapeParts, PTL

LEMMA ConnectShape ==
  ASSUME ShapeInv, Connect
  PROVE  ShapeInv'
<1>0. SessionShape /\ ClientShape
  BY ShapeParts
<1>1. SessionShape'
  <2>1. /\ conn \in Sessions /\ conn' = conn + 1 /\ conn' \in Sessions
        /\ srv' = [srv EXCEPT ![conn'] = "LOGGED"]
        /\ UNCHANGED <<confused, cwd, umask, toServer, toClient>>
    BY <1>0, BoundsAssumption DEF SessionShape, Connect, Sessions, connectFrame
  <2>2. ASSUME NEW s \in Sessions, s > conn'
        PROVE  s > conn /\ srv'[s] = srv[s]
    BY <1>0, <2>1, <2>2 DEF SessionShape, Sessions
  <2> QED BY <1>0, <2>1, <2>2 DEF SessionShape
<1>2. ClientShape'
  <2>1. /\ todo' \subseteq {"umask", "cos", "cd"} /\ pc' = "setup" /\ pc = "connect"
        /\ UNCHANGED <<tries, op, back, lines>>
    BY DEF Connect, Replay, connectFrame, workVars, manyVars
  <2> QED BY <1>0, <2>1 DEF ClientShape
<1> QED BY <1>1, <1>2, ShapeParts, PTL

LEMMA FilesShape ==
  ASSUME ShapeInv, ManyFiles
  PROVE  ShapeInv'
<1>0. SessionShape /\ ClientShape
  BY ShapeParts
<1>1. SessionShape'
  <2>1. /\ UNCHANGED <<toServer, conn, confused, cwd, umask, srv>>
        /\ toClient' = toClient \/ toClient' = [toClient EXCEPT ![conn] = <<>>]
    BY Zenon DEF ManyFiles, CheckDir, LocalList, NextFile, NoFileLeft, FileNoMemory, FileReconnect, FileDone,
       FileFails, FileRetry, FileLost, Shut, localFrame, fileFrame, serverVars
  <2> QED BY <1>0, <2>1, OneQueue
<1>2. ClientShape'
  <2>1. CASE CheckDir
    BY <1>0, <2>1, BoundsAssumption DEF ClientShape, CheckDir, Return, localFrame, manyVars
  <2>2. CASE LocalList
    BY <1>0, <2>2, BoundsAssumption DEF ClientShape, LocalList, Return, Many
  <2>3. CASE NextFile
    BY <1>0, <2>3 DEF ClientShape, NextFile
  <2>4. CASE NoFileLeft \/ FileNoMemory
    BY <1>0, <2>4, BoundsAssumption DEF ClientShape, NoFileLeft, FileNoMemory, Return, manyVars
  <2>5. CASE FileReconnect
    BY <1>0, <2>5 DEF ClientShape, FileReconnect, fileFrame
  <2>6. CASE FileDone
    BY <1>0, <2>6 DEF ClientShape, FileDone, Line, fileFrame
  <2>7. CASE FileFails
    BY <1>0, <2>7 DEF ClientShape, FileFails, Line, fileFrame
  <2>8. CASE FileRetry
    BY <1>0, <2>8 DEF ClientShape, FileRetry, Line, fileFrame
  <2>9. CASE FileLost
    BY <1>0, <2>9 DEF ClientShape, FileLost, Line, fileFrame
  <2> QED BY <2>1, <2>2, <2>3, <2>4, <2>5, <2>6, <2>7, <2>8, <2>9 DEF ManyFiles
<1> QED BY <1>1, <1>2, ShapeParts, PTL

-----------------------------------------------------------------------------
(* What a handler of the server does.                                      *)

LEMMA HandlersSay ==
  ASSUME NEW s, NEW m, Handlers(s, m)
  PROVE  /\ \E codes, done, list, goesOn, strays : Say(s, m, codes, done, list, goesOn, strays)
         /\ cwd' = cwd \/ \E d : cwd' = [cwd EXCEPT ![s] = d]
         /\ umask' = umask \/ umask' = [umask EXCEPT ![s] = m.val]
<1>1. CASE DoCd(s, m)
  BY <1>1, Zenon DEF DoCd, Reply, ReplyAndEnd
<1>2. CASE DoMkdir(s, m)
  BY <1>2, Zenon DEF DoMkdir, Reply
<1>3. CASE DoRm(s, m)
  BY <1>3, Zenon DEF DoRm, Reply, ReplyAndEnd
<1>4. CASE DoStat(s, m) \/ DoStatfs(s, m)
  BY <1>4, Zenon DEF DoStat, DoStatfs, Reply, ReplyAndEnd
<1>5. CASE DoList(s, m)
  BY <1>5, Zenon DEF DoList, Reply, ReplyAndEnd
<1>6. CASE DoChumask(s, m) \/ DoChcos(s, m)
  BY <1>6, Zenon DEF DoChumask, DoChcos, Reply
<1>7. CASE NoMemory(s, m)
  BY <1>7, Zenon DEF NoMemory, ReplyAndEnd
<1>8. CASE UnreadText(s, m)
  BY <1>8, Zenon DEF UnreadText
<1>9. CASE UnreadValue(s, m)
  BY <1>9, Zenon DEF UnreadValue, ReplyAndEnd
<1> QED BY <1>1, <1>2, <1>3, <1>4, <1>5, <1>6, <1>7, <1>8, <1>9 DEF Handlers

LEMMA SayFrame ==
  ASSUME NEW s, NEW m, NEW codes, NEW done, NEW list, NEW goesOn, NEW strays,
         Say(s, m, codes, done, list, goesOn, strays)
  PROVE  /\ confused' = [confused EXCEPT ![s] = confused[s] \/ strays]
         /\ \E q : toClient' = toClient \/ toClient' = [toClient EXCEPT ![s] = q]
         /\ srv' = srv \/ srv' = [srv EXCEPT ![s] = "exit"]
BY Zenon DEF Say

LEMMA HandleShape ==
  ASSUME ShapeInv, NEW s \in Sessions, HandleLogged(s)
  PROVE  /\ ShapeInv'
         /\ \A t \in Sessions \ {s} : /\ cwd'[t] = cwd[t] /\ umask'[t] = umask[t] /\ srv'[t] = srv[t]
                                      /\ toServer'[t] = toServer[t] /\ toClient'[t] = toClient[t]
         /\ \A t \in Sessions : confused[t] => confused'[t]
<1>0. SessionShape /\ ClientShape
  BY ShapeParts
<1> DEFINE m == Head(toServer[s])
<1>1. Handlers(s, m) /\ UNCHANGED clientVars /\ srv[s] = "LOGGED"
      /\ toServer' = [toServer EXCEPT ![s] = Tail(toServer[s])]
  BY Zenon DEF HandleLogged
<1> HIDE DEF m
<1>2. PICK codes, done, list, goesOn, strays : Say(s, m, codes, done, list, goesOn, strays)
  BY <1>1, HandlersSay
<1>3. /\ confused' = [confused EXCEPT ![s] = confused[s] \/ strays]
      /\ srv' = srv \/ srv' = [srv EXCEPT ![s] = "exit"]
      /\ \E q : toClient' = toClient \/ toClient' = [toClient EXCEPT ![s] = q]
  BY <1>2, SayFrame
<1>4. PICK q : toClient' = toClient \/ toClient' = [toClient EXCEPT ![s] = q]
  BY <1>3
<1>5. PICK d : /\ cwd' = cwd \/ cwd' = [cwd EXCEPT ![s] = d]
               /\ umask' = umask \/ umask' = [umask EXCEPT ![s] = m.val]
  BY <1>1, HandlersSay
<1>6. /\ DOMAIN toServer' = Sessions /\ DOMAIN toClient' = Sessions /\ DOMAIN srv' = Sessions
      /\ DOMAIN cwd' = Sessions /\ DOMAIN umask' = Sessions
  BY <1>0, <1>1, <1>3, <1>4, <1>5 DEF SessionShape
<1>7. \A t \in Sessions \ {s} : /\ cwd'[t] = cwd[t] /\ umask'[t] = umask[t] /\ srv'[t] = srv[t]
                               /\ toServer'[t] = toServer[t] /\ toClient'[t] = toClient[t]
  BY <1>0, <1>1, <1>3, <1>4, <1>5 DEF SessionShape
<1>8. confused' \in [Sessions -> BOOLEAN] /\ \A t \in Sessions : confused[t] => confused'[t]
  BY <1>0, <1>3 DEF SessionShape
<1>9. conn' = conn /\ conn \in Sessions
  BY <1>0, <1>1 DEF SessionShape, clientVars
<1>10. SessionShape'
  <2>1. ASSUME NEW t \in Sessions, t > conn
        PROVE  t # s
    BY <1>0, <1>1, <2>1 DEF SessionShape
  <2> QED BY <1>0, <1>6, <1>7, <1>8, <1>9, <2>1 DEF SessionShape
<1>11. ClientShape'
  BY <1>0, <1>1 DEF ClientShape, clientVars, workVars, manyVars
<1>12. ShapeInv'
  BY <1>10, <1>11, ShapeParts, PTL
<1> QED BY <1>7, <1>8, <1>12

LEMMA EndShape ==
  ASSUME ShapeInv, NEW s \in Sessions, EndSession(s)
  PROVE  ShapeInv'
<1>0. SessionShape /\ ClientShape
  BY ShapeParts
<1>1. /\ UNCHANGED <<conn, confused, cwd, umask, toClient>>
      /\ srv[s] = "LOGGED" /\ srv' = [srv EXCEPT ![s] = "exit"]
      /\ toServer' = [toServer EXCEPT ![s] = <<>>]
  BY DEF EndSession, clientVars
<1>2. SessionShape'
  <2>1. ASSUME NEW t \in Sessions, t > conn
        PROVE  t # s
    BY <1>0, <1>1, <2>1 DEF SessionShape
  <2> QED BY <1>0, <1>1, <2>1 DEF SessionShape
<1>3. ClientShape'
  BY <1>0 DEF EndSession, ClientShape, clientVars, workVars, manyVars
<1> QED BY <1>2, <1>3, ShapeParts, PTL

LEMMA ShapeStep ==
  ASSUME ShapeInv, [Next]_vars
  PROVE  ShapeInv'
<1>1. CASE LocalCommand \/ DirNoMemory
  BY <1>1, LocalShape
<1>2. CASE Loop
  BY <1>2, LoopShape
<1>3. CASE Reconnect
  BY <1>3, LoopShape, ConnectShape DEF Reconnect
<1>4. CASE Request
  BY <1>4, SendShape DEF Request, SendCd, SendMkdir, SendRm, SendStat, SendDf, SendList, SendUmask, SendCos
<1>5. CASE Failure
  BY <1>5, FailedShape DEF Failure, CdFails, MkdirFails, RmFails, StatFails, DfFails, UmaskFails,
     CosFails, ListFails
<1>6. CASE Success
  <2>1. CASE CdDone \/ UmaskDone \/ CosDone
    BY <2>1, TakenShape DEF CdDone, UmaskDone, CosDone, manyVars
  <2>2. CASE MkdirDone \/ RmDone \/ StatDone \/ DfDone
    BY <2>2, TakenShape DEF MkdirDone, RmDone, StatDone, DfDone, manyVars
  <2>3. CASE ListDone
    <3>1. Taken("list", "LIST") /\ UNCHANGED lines
      BY <2>3 DEF ListDone
    <3>2. Awaited = "list"
      BY <3>1 DEF Taken
    <3>3. todo = {}
      <4>1. First # "list"
        BY DEF First
      <4>2. CASE todo # {}
        BY <3>2, <4>1, <4>2 DEF Awaited
      <4> QED BY <4>2
    <3>4. \/ Outcome("OK")
          \/ /\ pc' = "files" /\ op.kind # "dir"
             /\ UNCHANGED <<tries, broken, todo>>
      BY <2>3, Zenon DEF ListDone
    <3>5. op.kind \in {"dir", "mget"}
      BY <3>2, <3>3 DEF Awaited, ShapeInv, Kinds, Simple, Many, Local
    <3> QED BY <3>1, <3>2, <3>3, <3>4, <3>5, TakenShape DEF Many
  <2> QED BY <1>6, <2>1, <2>2, <2>3 DEF Success
<1>7. CASE ManyFiles
  BY <1>7, FilesShape
<1>8. CASE ServerStep
  BY <1>8, HandleShape, EndShape DEF ServerStep
<1>9. CASE UNCHANGED vars
  BY <1>9 DEF vars, workVars, manyVars, settingVars, serverVars, ShapeInv
<1> QED BY <1>1, <1>2, <1>3, <1>4, <1>5, <1>6, <1>7, <1>8, <1>9 DEF Next, ClientStep, Over

-----------------------------------------------------------------------------
(* Steps that leave the connection in use as it is, or give it up.         *)

globals == <<believed, mask, remotedir, remoteumask>>
session == <<toServer[conn], toClient[conn], srv[conn], cwd[conn], umask[conn]>>

LEMMA LostStep ==
  ASSUME GlobalsKept, UNCHANGED globals, todo' \subseteq todo, ~Usable'
  PROVE  StepInv'
BY DEF globals, GlobalsKept, StepInv

\* Between two requests the queues are empty.
LEMMA BetweenRequests ==
  ASSUME StepInv, Usable, pc # "wait"
  PROVE  /\ toServer[conn] = <<>> /\ toClient[conn] = <<>>
         /\ srv[conn] = "LOGGED" => CwdSettled /\ UmaskSettled
BY DEF StepInv, Requested, Answered, Settled

LEMMA QuietStep ==
  ASSUME StepInv, UNCHANGED <<conn, session, todo>>, UNCHANGED globals, pc # "wait", pc' # "wait",
         Usable' => Usable
  PROVE  StepInv'
<1>1. GlobalsKept'
  BY DEF StepInv, GlobalsKept, globals
<1>2. CASE Usable
  <2>1. /\ toServer[conn] = <<>> /\ toClient[conn] = <<>>
        /\ srv[conn] = "LOGGED" => CwdSettled /\ UmaskSettled
    BY <1>2, BetweenRequests
  <2>2. (srv[conn])' = "LOGGED" => CwdSettled' /\ UmaskSettled'
    BY <2>1 DEF session, globals, CwdSettled, UmaskSettled
  <2>3. (toServer[conn])' = <<>> /\ (toClient[conn])' = <<>>
    BY <2>1 DEF session
  <2> QED BY <1>1, <2>2, <2>3 DEF StepInv, Requested, Answered, Settled
<1>3. CASE ~Usable'
  BY <1>1, <1>3 DEF StepInv
<1> QED BY <1>2, <1>3

\* A command is not reported OK in this state.
NotOk == \/ pc # "loop" \/ tries # 0
         \/ retcode # "OK" \/ op.kind \notin Simple

LEMMA NotOkStep ==
  ASSUME NotOk'
  PROVE  OkMeansDone'
BY DEF NotOk, OkMeansDone

LEMMA SameFiles ==
  ASSUME FilesReported, InStep, UNCHANGED <<lines, fetched, believed>>
  PROVE  FilesReported'
BY DEF FilesReported

Kept == StepInv /\ OkMeansDone /\ FilesReported

LEMMA LocalKept ==
  ASSUME ShapeInv, InStep, Kept, LocalCommand \/ DirNoMemory
  PROVE  Kept'
<1>1. /\ UNCHANGED <<conn, session, todo>> /\ UNCHANGED globals
      /\ UNCHANGED <<lines, fetched>> /\ pc \in {"loop", "try"} /\ pc' \in {"loop", "idle"}
  BY DEF LocalCommand, RefuseCommand, Lcd, SetValue, SetOption, BadOption, DirNoMemory, Return,
     localFrame, globals, session, serverVars, manyVars, settingVars, userVars
<1>2. Usable' => Usable
  <2>1. CASE RefuseCommand
    BY <2>1 DEF Usable, RefuseCommand
  <2>2. CASE ~RefuseCommand
    BY <2>2 DEF LocalCommand, Lcd, SetValue, SetOption, BadOption, DirNoMemory, Usable
  <2> QED BY <2>1, <2>2
<1>3. StepInv'
  BY <1>1, <1>2, QuietStep DEF Kept
<1>4. NotOk'
  <2>1. CASE RefuseCommand
    BY <2>1 DEF NotOk, RefuseCommand
  <2>2. CASE Lcd \/ SetValue \/ SetOption \/ BadOption
    BY <2>2 DEF NotOk, Lcd, SetValue, SetOption, BadOption, localFrame, Simple
  <2>3. CASE DirNoMemory
    BY <2>3 DEF NotOk, DirNoMemory
  <2> QED BY <2>1, <2>2, <2>3 DEF LocalCommand
<1>5. believed' = believed
  BY <1>1 DEF globals
<1> QED BY <1>1, <1>3, <1>4, <1>5, NotOkStep, SameFiles DEF Kept

LEMMA LoopKept ==
  ASSUME ShapeInv, InStep, Kept, Loop \/ GiveUp \/ SetupDone
  PROVE  Kept'
<1>1. /\ UNCHANGED <<conn, session, todo>> /\ UNCHANGED globals
      /\ lines' = {} \/ UNCHANGED <<lines, fetched>>
      /\ pc # "wait" /\ pc' # "wait"
  BY DEF Loop, NextCommand, StartTry, Report, GiveUp, SetupDone, connectFrame, ShapeInv,
     globals, session, serverVars, manyVars, settingVars, userVars
<1>2. Usable' => Usable
  BY DEF Loop, NextCommand, StartTry, Report, GiveUp, SetupDone, Usable
<1>3. StepInv'
  BY <1>1, <1>2, QuietStep DEF Kept
<1>4. NotOk'
  BY BoundsAssumption DEF Loop, NextCommand, StartTry, Report, GiveUp, SetupDone, NotOk, ShapeInv
<1>5. believed' = believed
  BY <1>1 DEF globals
<1>6. FilesReported'
  <2>1. CASE lines' = {}
    BY <2>1 DEF FilesReported
  <2>2. CASE UNCHANGED <<lines, fetched>>
    BY <1>1, <1>5, <2>2, SameFiles DEF Kept
  <2> QED BY <1>1, <2>1, <2>2
<1> QED BY <1>3, <1>4, <1>6, NotOkStep DEF Kept

\* The new session has what a login gives it, and all that differs is replayed.
LEMMA ConnectKept ==
  ASSUME ShapeInv, InStep, Kept, Connect
  PROVE  Kept'
<1>1. /\ conn' = conn + 1 /\ conn' \in Sessions /\ conn' > conn
      /\ pc' = "setup" /\ todo' = Replay
      /\ UNCHANGED <<toServer, toClient, cwd, umask>> /\ UNCHANGED globals
      /\ UNCHANGED <<lines, fetched>>
  BY BoundsAssumption DEF Connect, ShapeInv, Sessions, connectFrame, globals, settingVars, userVars,
     manyVars
<1>2. /\ toServer'[conn'] = <<>> /\ toClient'[conn'] = <<>>
      /\ cwd'[conn'] = <<>> /\ umask'[conn'] = DefaultUmask
  BY <1>1 DEF ShapeInv
<1>3. /\ "cd" \in todo' <=> remotedir # NoDir
      /\ "umask" \in todo' <=> remoteumask # 0
  BY <1>1 DEF Replay
<1>4. GlobalsKept'
  BY <1>1, <1>3 DEF Kept, StepInv, GlobalsKept, globals
<1>5. CwdSettled' /\ UmaskSettled'
  <2>0. <<believed>> # <<>>
    OBVIOUS
  <2>1. remotedir # NoDir \/ believed = <<>>
    BY <2>0 DEF Kept, StepInv, GlobalsKept, NoDir
  <2>2. remoteumask # 0 \/ mask = 0 \/ mask = DefaultUmask
    BY DEF Kept, StepInv, GlobalsKept
  <2> QED BY <1>1, <1>2, <1>3, <2>1, <2>2 DEF CwdSettled, UmaskSettled, globals
<1>6. StepInv'
  BY <1>2, <1>4, <1>5 DEF StepInv, Requested, Answered, Settled
<1>7. NotOk'
  BY <1>1 DEF NotOk
<1>8. believed' = believed
  BY <1>1 DEF globals
<1> QED BY <1>1, <1>6, <1>7, <1>8, NotOkStep, SameFiles DEF Kept

-----------------------------------------------------------------------------
(* Requests and answers.                                                   *)

\* A function that fails with the connection leaves nothing to rely on.
LEMMA OutcomeLost ==
  ASSUME NEW rc \in BrokenCodes, Outcome(rc), UNCHANGED op
  PROVE  ~Usable' /\ NotOk' /\ todo' \subseteq todo
<1>1. CASE todo = {}
  BY <1>1 DEF Outcome, Return, Usable, NotOk, BrokenCodes
<1>2. CASE todo # {}
  BY <1>2 DEF Outcome, Usable, NotOk, BrokenCodes
<1> QED BY <1>1, <1>2

LEMMA SendKept ==
  ASSUME ShapeInv, InStep, Kept, NEW verb, NEW arg, NEW absolute, NEW val, NEW opts,
         Send(verb, arg, absolute, val, opts),
         todo = {} /\ op.kind \notin {"umask", "cos"} => ~absolute /\ arg = op.arg,
         todo # {} /\ Awaited = "cd" => absolute /\ <<arg>> = remotedir,
         Awaited = "umask" => val = IF todo = {} THEN op.val ELSE remoteumask
  PROVE  Kept'
<1>m. PICK m : m = [op |-> verb, arg |-> arg, absolute |-> absolute, val |-> val, opts |-> opts,
                    tag |-> Tag]
  OBVIOUS
<1>0. /\ m.op = verb /\ m.tag = Tag /\ m.arg = arg /\ m.absolute = absolute /\ m.val = val
  BY <1>m
<1>1. /\ pc \in {"try", "setup"} /\ Awaited = verb
      /\ UNCHANGED <<cmd, op, conn, srv, cwd, umask, lines, fetched>> /\ UNCHANGED globals
  BY DEF Send, settingVars, userVars, manyVars, serverVars, globals
<1>2. \/ /\ toServer' = IF srv[conn] = "exit" THEN toServer
                        ELSE [toServer EXCEPT ![conn] = Append(toServer[conn], m)]
         /\ pc' = "wait" /\ UNCHANGED <<tries, todo, toClient>>
      \/ Outcome("CONN_BROKEN")
  BY <1>m, Zenon DEF Send
<1>3. believed' = believed
  BY <1>1 DEF globals
<1>4. FilesReported'
  BY <1>1, <1>3, SameFiles DEF Kept
<1>5. CASE Outcome("CONN_BROKEN")
  <2>1. ~Usable' /\ NotOk' /\ todo' \subseteq todo
    BY <1>1, <1>5, OutcomeLost DEF BrokenCodes
  <2>2. StepInv'
    BY <1>1, <2>1, LostStep DEF Kept, StepInv
  <2> QED BY <1>4, <2>1, <2>2, NotOkStep DEF Kept
<1>6. CASE /\ toServer' = IF srv[conn] = "exit" THEN toServer
                         ELSE [toServer EXCEPT ![conn] = Append(toServer[conn], m)]
           /\ pc' = "wait" /\ UNCHANGED <<tries, todo, toClient>>
  <2>1. /\ toServer[conn] = <<>> /\ toClient[conn] = <<>>
        /\ srv[conn] = "LOGGED" => CwdSettled /\ UmaskSettled
    BY <1>1, BetweenRequests DEF Kept, Usable
  <2>2. Awaited' = Awaited /\ Tag' = Tag
    BY <1>1, <1>6 DEF Awaited, Tag, First
  <2>3. RequestOk(m)'
    BY <1>0, <1>1, <1>6, <2>2 DEF RequestOk, globals
  <2>4. Append(<<>>, m) = <<m>> /\ Head(<<m>>) = m /\ <<m>> # <<>>
    OBVIOUS
  <2>5. (toServer[conn])' = <<>> \/ (toServer[conn])' = <<m>>
    BY <1>1, <1>6, <2>1, <2>4 DEF ShapeInv
  <2>6. (toClient[conn])' = <<>>
    BY <1>1, <1>6, <2>1
  <2>7. Requested' /\ Answered'
    <3>1. CASE (toServer[conn])' = <<>>
      BY <2>6, <3>1 DEF Requested, Answered
    <3>2. CASE (toServer[conn])' = <<m>>
      <4>1. (Head(toServer[conn]))' = m
        BY <2>4, <3>2
      <4> QED BY <1>6, <2>3, <2>6, <3>2, <4>1 DEF Requested, Answered
    <3> QED BY <2>5, <3>1, <3>2
  <2>8. (srv[conn])' = "LOGGED" => CwdSettled' /\ UmaskSettled'
    BY <1>1, <1>6, <2>1 DEF CwdSettled, UmaskSettled, globals
  <2>9. GlobalsKept'
    BY <1>1, <1>6 DEF Kept, StepInv, GlobalsKept, globals
  <2>10. StepInv'
    BY <2>7, <2>8, <2>9 DEF StepInv, Settled
  <2>11. NotOk'
    BY <1>6 DEF NotOk
  <2> QED BY <1>4, <2>10, <2>11, NotOkStep DEF Kept
<1> QED BY <1>2, <1>5, <1>6

\* The client waits for the one answer there is.
LEMMA AtTheAnswer ==
  ASSUME StepInv, pc = "wait", toClient[conn] # <<>>
  PROVE  /\ AnswerOk(Head(toClient[conn])) /\ Tail(toClient[conn]) = <<>>
         /\ toServer[conn] = <<>> /\ GlobalsKept
<1>1. Requested /\ Answered /\ GlobalsKept
  BY DEF StepInv, Usable
<1>2. toClient[conn] = <<Head(toClient[conn])>>
  BY <1>1 DEF Answered
<1>3. Tail(<<Head(toClient[conn])>>) = <<>>
  OBVIOUS
<1> QED BY <1>1, <1>2, <1>3 DEF Requested, Answered

\* After the answer the queues are empty, and what was settled still is.
LEMMA AnswerTaken ==
  ASSUME GlobalsKept', (toServer[conn])' = <<>>, (toClient[conn])' = <<>>, pc' # "wait",
         (srv[conn])' = "LOGGED" => CwdSettled' /\ UmaskSettled'
  PROVE  StepInv'
BY DEF StepInv, Requested, Answered, Settled

LEMMA FailedKept ==
  ASSUME ShapeInv, InStep, Kept, NEW kind, NEW code, Failed(kind, code)
  PROVE  Kept'
<1>1. /\ pc = "wait"
      /\ UNCHANGED <<cmd, op, conn, srv, cwd, umask, lines, fetched, toServer>> /\ UNCHANGED globals
      /\ NoAnswer \/ Refused \/ Unusable(code)
  BY DEF Failed, answerFrame, settingVars, userVars, manyVars, serverVars, globals
<1>2. believed' = believed
  BY <1>1 DEF globals
<1>3. FilesReported'
  BY <1>1, <1>2, SameFiles DEF Kept
<1>4. ASSUME NEW rc \in BrokenCodes, Outcome(rc)
      PROVE  Kept'
  <2>1. ~Usable' /\ NotOk' /\ todo' \subseteq todo
    BY <1>1, <1>4, OutcomeLost
  <2>2. StepInv'
    BY <1>1, <2>1, LostStep DEF Kept, StepInv
  <2> QED BY <1>3, <2>1, <2>2, NotOkStep DEF Kept
<1>5. ASSUME NEW rc \in {"ERROR", "FT_NR"}, Outcome(rc), toClient[conn] # <<>>,
             Head(toClient[conn]).code \in Refusals,
             IF todo = {} THEN UNCHANGED open /\ toClient' = [toClient EXCEPT ![conn] = Tail(toClient[conn])]
             ELSE Shut
      PROVE  Kept'
  <2>1. CASE todo = {}
    <3>1. /\ pc' = "loop" /\ todo' = {} /\ retcode' = rc
          /\ toClient' = [toClient EXCEPT ![conn] = Tail(toClient[conn])]
      BY <1>5, <2>1 DEF Outcome, Return
    <3>2. NotOk'
      BY <3>1 DEF NotOk
    <3>3. /\ AnswerOk(Head(toClient[conn])) /\ Tail(toClient[conn]) = <<>>
          /\ toServer[conn] = <<>> /\ GlobalsKept
      BY <1>1, <1>5, AtTheAnswer DEF Kept
    <3>4. (toServer[conn])' = <<>> /\ (toClient[conn])' = <<>>
      BY <1>1, <3>1, <3>3 DEF ShapeInv
    <3>5. srv[conn] = "LOGGED" => CwdSettled /\ UmaskSettled
      BY <1>5, <3>3 DEF AnswerOk, Refusals
    <3>6. (srv[conn])' = "LOGGED" => CwdSettled' /\ UmaskSettled'
      BY <1>1, <2>1, <3>1, <3>5 DEF CwdSettled, UmaskSettled, globals
    <3>7. GlobalsKept'
      BY <1>1, <3>1, <3>3 DEF GlobalsKept, globals
    <3>8. StepInv'
      BY <3>1, <3>4, <3>6, <3>7, AnswerTaken
    <3> QED BY <1>3, <3>2, <3>8, NotOkStep DEF Kept
  <2>2. CASE todo # {}
    <3>1. pc' = "connect" /\ todo' = {}
      BY <1>5, <2>2 DEF Outcome
    <3>2. StepInv'
      BY <1>1, <3>1, LostStep DEF Kept, StepInv, Usable
    <3>3. NotOk'
      BY <3>1 DEF NotOk
    <3> QED BY <1>3, <3>2, <3>3, NotOkStep DEF Kept
  <2> QED BY <2>1, <2>2
<1>6. CASE NoAnswer
  BY <1>4, <1>6 DEF NoAnswer, BrokenCodes
<1>7. CASE Unusable(code)
  BY <1>4, <1>7 DEF Unusable, BrokenCodes
<1>8. CASE Refused
  <2> DEFINE retry == Head(toClient[conn]).code = "BAD"
  <2>1. toClient[conn] # <<>> /\ Head(toClient[conn]).code \in Refusals
    BY <1>8 DEF Refused
  <2>2. \/ /\ Outcome(IF retry THEN "ERROR" ELSE "FT_NR")
           /\ IF todo = {} THEN UNCHANGED open /\ toClient' = [toClient EXCEPT ![conn] = Tail(toClient[conn])]
              ELSE Shut
        \/ Outcome("CONN_BROKEN")
        \/ Outcome(IF retry THEN "CONN_BROKEN" ELSE "FT_NR_CONN_BROKEN")
    BY <1>8, Zenon DEF Refused
  <2>3. (IF retry THEN "ERROR" ELSE "FT_NR") \in {"ERROR", "FT_NR"}
    OBVIOUS
  <2>4. (IF retry THEN "CONN_BROKEN" ELSE "FT_NR_CONN_BROKEN") \in BrokenCodes
        /\ "CONN_BROKEN" \in BrokenCodes
    BY DEF BrokenCodes
  <2> HIDE DEF retry
  <2>5. CASE Outcome("CONN_BROKEN")
    BY <1>4, <2>4, <2>5
  <2>6. CASE Outcome(IF retry THEN "CONN_BROKEN" ELSE "FT_NR_CONN_BROKEN")
    BY <1>4, <2>4, <2>6
  <2>7. CASE /\ Outcome(IF retry THEN "ERROR" ELSE "FT_NR")
             /\ IF todo = {} THEN UNCHANGED open /\ toClient' = [toClient EXCEPT ![conn] = Tail(toClient[conn])]
                ELSE Shut
    BY <1>5, <2>1, <2>3, <2>7
  <2> QED BY <2>2, <2>5, <2>6, <2>7
<1> QED BY <1>1, <1>6, <1>7, <1>8

\* What a function does with an answer that says yes, whatever its kind.
LEMMA TakenEffect ==
  ASSUME ShapeInv, InStep, Kept, NEW kind, NEW code, Taken(kind, code)
  PROVE  /\ AnswerOk(Head(toClient[conn])) /\ GlobalsKept
         /\ Head(toClient[conn]).code = code /\ pc = "wait" /\ Awaited = kind
         /\ (toServer[conn])' = <<>> /\ (toClient[conn])' = <<>>
         /\ UNCHANGED <<cmd, op, conn, srv, cwd, umask>>
<1>1. /\ pc = "wait" /\ toClient[conn] # <<>> /\ Head(toClient[conn]).code = code
      /\ Awaited = kind /\ toClient' = [toClient EXCEPT ![conn] = Tail(toClient[conn])]
      /\ UNCHANGED <<cmd, op, conn, srv, cwd, umask, toServer>>
  BY DEF Taken, answerFrame, serverVars
<1>2. /\ AnswerOk(Head(toClient[conn])) /\ Tail(toClient[conn]) = <<>>
      /\ toServer[conn] = <<>> /\ GlobalsKept
  BY <1>1, AtTheAnswer DEF Kept
<1> QED BY <1>1, <1>2 DEF ShapeInv

\* The commands that change no setting.
LEMMA PlainDone ==
  ASSUME ShapeInv, InStep, Kept, NEW kind \in {"mkdir", "rm", "stat", "df", "list"},
         NEW code \in {"OK", "LIST"}, Taken(kind, code),
         \/ Outcome("OK")
         \/ pc' = "files" /\ UNCHANGED todo,
         UNCHANGED settingVars, UNCHANGED <<lines, fetched, believed, mask>>
  PROVE  Kept'
<1> DEFINE a == Head(toClient[conn])
<1>1. /\ AnswerOk(a) /\ GlobalsKept /\ a.code = code /\ pc = "wait" /\ Awaited = kind
      /\ (toServer[conn])' = <<>> /\ (toClient[conn])' = <<>>
      /\ UNCHANGED <<cmd, op, conn, srv, cwd, umask>>
  BY TakenEffect
<1>2. todo = {}
  <2>1. First \in {"umask", "cos", "cd"}
    BY DEF First
  <2> QED BY <1>1, <2>1 DEF Awaited
<1>3. todo' = {} /\ pc' \in {"loop", "files"}
  BY <1>2 DEF Outcome, Return
<1>4. srv[conn] = "LOGGED" => CwdSettled /\ UmaskSettled
  BY <1>1 DEF AnswerOk
<1>5. (srv[conn])' = "LOGGED" => CwdSettled' /\ UmaskSettled'
  BY <1>1, <1>2, <1>3, <1>4 DEF CwdSettled, UmaskSettled
<1>6. GlobalsKept'
  BY <1>1, <1>3 DEF GlobalsKept, settingVars
<1>7. StepInv'
  BY <1>1, <1>3, <1>5, <1>6, AnswerTaken
<1>8. got' = [tag |-> a.tag, awaited |-> a.tag = Tag, at |-> a.at, done |-> a.done, sure |-> a.sure]
  BY <1>2 DEF Taken
<1>9. /\ got'.tag = a.tag /\ got'.awaited = (a.tag = Tag) /\ got'.at = a.at
      /\ got'.done = a.done /\ got'.sure = a.sure
  BY <1>8
<1>10. /\ a.tag = Tag /\ Tag[1] = cmd
       /\ (a.sure => a.done)
  BY <1>1 DEF AnswerOk, Tag
<1>11. a.at = Resolve(believed, op.arg) /\ op.kind # "cd"
  BY <1>1, <1>2 DEF AnswerOk, Awaited
<1>12. OkMeansDone'
  BY <1>1, <1>9, <1>10, <1>11 DEF OkMeansDone
<1>13. FilesReported'
  BY SameFiles DEF Kept
<1> QED BY <1>7, <1>12, <1>13 DEF Kept

\* The commands that set something: by the user, or on a new connection.
LEMMA SettingDone ==
  ASSUME ShapeInv, InStep, Kept, NEW kind \in {"cd", "umask", "cos"},
         Taken(kind, "OK"), Outcome("OK"), UNCHANGED <<lines, fetched>>,
         GlobalsKept', (srv[conn])' = "LOGGED" => CwdSettled' /\ UmaskSettled',
         todo # {} => believed' = believed,
         todo = {} /\ kind = "cd" => believed' = Head(toClient[conn]).at,
         kind # "cd" => believed' = believed
  PROVE  Kept'
<1> DEFINE a == Head(toClient[conn])
<1>1. /\ AnswerOk(a) /\ a.code = "OK" /\ pc = "wait" /\ Awaited = kind
      /\ (toServer[conn])' = <<>> /\ (toClient[conn])' = <<>>
      /\ UNCHANGED <<cmd, op, conn, srv, cwd, umask>>
  BY TakenEffect
<1>2. pc' # "wait"
  BY DEF Outcome, Return
<1>3. StepInv'
  BY <1>1, <1>2, AnswerTaken
<1>4. CASE todo = {}
  <2>1. got' = [tag |-> a.tag, awaited |-> a.tag = Tag, at |-> a.at, done |-> a.done, sure |-> a.sure]
    BY <1>4 DEF Taken
  <2>2. /\ got'.tag = a.tag /\ got'.awaited = (a.tag = Tag) /\ got'.at = a.at
        /\ got'.done = a.done /\ got'.sure = a.sure
    BY <2>1
  <2>3. /\ a.tag = Tag /\ Tag[1] = cmd
        /\ (a.sure => a.done)
    BY <1>1 DEF AnswerOk, Tag
  <2>4. op.kind = kind
    BY <1>1, <1>4 DEF Awaited
  <2>5. OkMeansDone'
    BY <1>1, <1>4, <2>2, <2>3, <2>4 DEF OkMeansDone
  <2>6. lines' = {}
    BY <2>4 DEF ShapeInv, Many
  <2>7. FilesReported'
    BY <2>6 DEF FilesReported
  <2> QED BY <1>3, <2>5, <2>7 DEF Kept
<1>5. CASE todo # {}
  <2>1. NotOk'
    BY <1>5 DEF Outcome, NotOk
  <2>2. FilesReported'
    BY <1>5, SameFiles DEF Kept
  <2> QED BY <1>3, <2>1, <2>2, NotOkStep DEF Kept
<1> QED BY <1>4, <1>5

LEMMA CdKept ==
  ASSUME ShapeInv, InStep, Kept, CdDone
  PROVE  Kept'
<1> DEFINE a == Head(toClient[conn])
<1>1. Taken("cd", "OK") /\ Outcome("OK") /\ UNCHANGED <<lines, fetched, remoteumask, mask>>
  BY DEF CdDone, manyVars
<1>2. /\ AnswerOk(a) /\ GlobalsKept /\ a.code = "OK" /\ Awaited = "cd"
      /\ UNCHANGED <<conn, srv, cwd, umask>>
  BY <1>1, TakenEffect
<1>3. a.op = "cd" /\ remotedir' = <<a.at>>
  BY <1>2 DEF CdDone, AnswerOk
<1>4. believed' = a.at
  BY <1>2 DEF CdDone, AnswerOk
<1>5. todo' = todo \ {"cd"}
  BY <1>1, <1>2 DEF Outcome, Return, Awaited
<1>6. <<a.at>> # <<>>
  OBVIOUS
<1>7. GlobalsKept'
  BY <1>1, <1>2, <1>3, <1>4, <1>5, <1>6 DEF GlobalsKept, NoDir
<1>8. srv[conn] = "LOGGED" => cwd[conn] = a.at /\ UmaskSettled
  BY <1>2 DEF AnswerOk
<1>9. (srv[conn])' = "LOGGED" => CwdSettled' /\ UmaskSettled'
  BY <1>1, <1>2, <1>4, <1>5, <1>8 DEF CwdSettled, UmaskSettled
<1>10. todo # {} => believed' = believed
  BY DEF CdDone
<1> QED BY <1>1, <1>4, <1>7, <1>9, <1>10, SettingDone

LEMMA UmaskKept ==
  ASSUME ShapeInv, InStep, Kept, UmaskDone
  PROVE  Kept'
<1> DEFINE a == Head(toClient[conn])
<1>1. /\ Taken("umask", "OK") /\ Outcome("OK")
      /\ UNCHANGED <<lines, fetched, remotedir, believed>>
      /\ remoteumask' = (IF todo = {} THEN op.val ELSE remoteumask)
      /\ mask' = (IF todo = {} THEN op.val ELSE mask)
  BY DEF UmaskDone, manyVars
<1>2. /\ AnswerOk(a) /\ GlobalsKept /\ a.code = "OK" /\ Awaited = "umask"
      /\ UNCHANGED <<conn, srv, cwd, umask>>
  BY <1>1, TakenEffect
<1>3. todo # {} => "umask" \in todo
  BY <1>2 DEF Awaited, First
<1>4. todo' = todo \ {"umask"}
  BY <1>1, <1>2 DEF Outcome, Return, Awaited
<1>5. remoteumask' = mask'
  BY <1>1, <1>2, <1>3 DEF GlobalsKept
<1>6. GlobalsKept'
  BY <1>1, <1>2, <1>4, <1>5 DEF GlobalsKept
<1>7. srv[conn] = "LOGGED" => CwdSettled /\ umask[conn] = remoteumask'
  BY <1>1, <1>2 DEF AnswerOk
<1>8. (srv[conn])' = "LOGGED" => CwdSettled' /\ UmaskSettled'
  BY <1>1, <1>2, <1>4, <1>5, <1>7 DEF CwdSettled, UmaskSettled
<1> QED BY <1>1, <1>6, <1>8, SettingDone

LEMMA CosKept ==
  ASSUME ShapeInv, InStep, Kept, CosDone
  PROVE  Kept'
<1> DEFINE a == Head(toClient[conn])
<1>1. /\ Taken("cos", "OK") /\ Outcome("OK")
      /\ UNCHANGED <<lines, fetched, remotedir, remoteumask, believed, mask>>
  BY DEF CosDone, manyVars
<1>2. /\ AnswerOk(a) /\ GlobalsKept /\ Awaited = "cos"
      /\ UNCHANGED <<conn, srv, cwd, umask>>
  BY <1>1, TakenEffect
<1>3. todo' = todo \ {"cos"}
  BY <1>1, <1>2 DEF Outcome, Return, Awaited
<1>4. GlobalsKept'
  BY <1>1, <1>2, <1>3 DEF GlobalsKept
<1>5. srv[conn] = "LOGGED" => CwdSettled /\ UmaskSettled
  BY <1>2 DEF AnswerOk
<1>6. (srv[conn])' = "LOGGED" => CwdSettled' /\ UmaskSettled'
  BY <1>1, <1>2, <1>3, <1>5 DEF CwdSettled, UmaskSettled
<1> QED BY <1>1, <1>4, <1>6, SettingDone

LEMMA SuccessKept ==
  ASSUME ShapeInv, InStep, Kept, Success
  PROVE  Kept'
<1>1. CASE MkdirDone \/ RmDone \/ StatDone \/ DfDone
  BY <1>1, PlainDone DEF MkdirDone, RmDone, StatDone, DfDone, manyVars
<1>2. CASE ListDone
  <2>1. Outcome("OK") \/ (pc' = "files" /\ UNCHANGED todo)
    BY <1>2, Zenon DEF ListDone
  <2> QED BY <1>2, <2>1, PlainDone DEF ListDone
<1> QED BY <1>1, <1>2, CdKept, UmaskKept, CosKept DEF Success

-----------------------------------------------------------------------------
(* The files of mget and mput.                                             *)

LEMMA ManyFilesKept ==
  ASSUME ShapeInv, InStep, Kept, ManyFiles
  PROVE  Kept'
<1>1. op.kind \in Many /\ op' = op
  BY DEF ManyFiles, CheckDir, LocalList, NextFile, NoFileLeft, FileNoMemory, FileReconnect,
     FileDone, FileFails, FileRetry, FileLost, localFrame, fileFrame, ShapeInv, Many
<1>2. NotOk'
  BY <1>1 DEF NotOk, Many, Simple
<1>3. UNCHANGED globals /\ UNCHANGED <<conn, srv, cwd, umask, toServer>> /\ todo' = todo
  BY DEF ManyFiles, CheckDir, LocalList, NextFile, NoFileLeft, FileNoMemory, FileReconnect,
     FileDone, FileFails, FileRetry, FileLost, localFrame, fileFrame, settingVars, userVars,
     serverVars, globals
<1>4. pc \in {"try", "files", "file"} /\ pc' # "wait"
  BY DEF ManyFiles, CheckDir, LocalList, NextFile, NoFileLeft, FileNoMemory, FileReconnect,
     FileDone, FileFails, FileRetry, FileLost, Line, Return
<1>5. \/ toClient' = toClient /\ (Usable' => Usable)
      \/ ~Usable'
  <2>1. CASE CheckDir \/ LocalList
    BY <2>1 DEF CheckDir, LocalList, localFrame, Usable
  <2>2. CASE NextFile \/ NoFileLeft \/ FileNoMemory
    BY <2>2 DEF NextFile, NoFileLeft, FileNoMemory, Return, Usable
  <2>3. CASE FileReconnect
    BY <2>3 DEF FileReconnect, Usable
  <2>4. CASE FileDone \/ FileRetry
    BY <2>4 DEF FileDone, FileRetry, Line, Usable
  <2>5. CASE FileFails
    BY <2>5 DEF FileFails, Line, Usable
  <2>6. CASE FileLost
    BY <2>6 DEF FileLost, Line, Usable
  <2> QED BY <2>1, <2>2, <2>3, <2>4, <2>5, <2>6 DEF ManyFiles
<1>6. StepInv'
  <2>1. CASE ~Usable'
    BY <1>3, <2>1, LostStep DEF Kept, StepInv
  <2>2. CASE toClient' = toClient /\ (Usable' => Usable)
    BY <1>3, <1>4, <2>2, QuietStep DEF Kept, session
  <2> QED BY <1>5, <2>1, <2>2
<1>7. believed' = believed
  BY <1>3 DEF globals
<1>8. FilesReported'
  <2>1. CASE FileDone
    <3>1. /\ pc = "file" /\ ~broken /\ srv[conn] = "LOGGED"
          /\ lines' = lines \cup {<<file, TRUE>>}
          /\ fetched' = fetched \cup {Resolve(cwd[conn], file)}
      BY <2>1 DEF FileDone, Line
    <3>2. todo = {}
      BY <3>1 DEF ShapeInv
    <3>3. cwd[conn] = believed
      BY <3>1, <3>2, BetweenRequests DEF Kept, Usable, CwdSettled
    <3>4. ASSUME NEW l \in lines', l[2]
          PROVE  Resolve(believed', l[1]) \in fetched'
      <4>1. CASE l \in lines
        BY <1>7, <3>1, <3>4, <4>1 DEF Kept, FilesReported
      <4>2. CASE l = <<file, TRUE>>
        BY <1>7, <3>1, <3>3, <4>2
      <4> QED BY <3>1, <3>4, <4>1, <4>2
    <3> QED BY <3>4 DEF FilesReported
  <2>2. CASE ~FileDone
    <3>1. fetched' = fetched /\ (lines' = lines \/ lines' = lines \cup {<<file, FALSE>>})
      BY <2>2 DEF ManyFiles, CheckDir, LocalList, NextFile, NoFileLeft, FileNoMemory, FileReconnect,
         FileFails, FileRetry, FileLost, Line, localFrame, manyVars
    <3>2. ~ <<file, FALSE>>[2]
      OBVIOUS
    <3>3. ASSUME NEW l \in lines', l[2]
          PROVE  Resolve(believed', l[1]) \in fetched'
      BY <1>7, <3>1, <3>2, <3>3 DEF Kept, FilesReported
    <3> QED BY <3>3 DEF FilesReported
  <2> QED BY <2>1, <2>2
<1> QED BY <1>2, <1>6, <1>8, NotOkStep DEF Kept

-----------------------------------------------------------------------------
(* The server's side.                                                      *)

\* The one answer a to m that a call of reply writes.
Written(s, m, code, done, goesOn, a) ==
  /\ a.code = code /\ a.op = m.op /\ a.tag = m.tag /\ a.done = done
  /\ (a.sure <=> ~(m.op = "rm" /\ "rfio" \in topt[s]))
  /\ a.at = IF m.op = "cd" /\ code = "OK" THEN cwd'[s] ELSE Resolve(cwd[s], m.arg)
  /\ (goesOn \/ srv'[s] = "exit")

LEMMA SayOne ==
  ASSUME SessionShape, NEW s \in Sessions, NEW m, NEW code, NEW done, NEW list, NEW goesOn,
         NEW strays, Say(s, m, <<code>>, done, list, goesOn, strays), toClient[s] = <<>>
  PROVE  toClient' = toClient \/ \E a : toClient'[s] = <<a>> /\ Written(s, m, code, done, goesOn, a)
<1> DEFINE at(c) == IF m.op = "cd" /\ c = "OK" THEN cwd'[s] ELSE Resolve(cwd[s], m.arg)
           answer(c) == [code |-> c, op |-> m.op, tag |-> m.tag, at |-> at(c), list |-> list,
                         done |-> done, sure |-> ~(m.op = "rm" /\ "rfio" \in topt[s])]
           sent == [i \in DOMAIN <<code>> |-> answer(<<code>>[i])]
<1>1. \/ /\ toClient' = IF open[s] THEN [toClient EXCEPT ![s] = toClient[s] \o sent] ELSE toClient
         /\ srv' = IF goesOn THEN srv ELSE [srv EXCEPT ![s] = "exit"]
      \/ toClient' = toClient
  BY Zenon DEF Say
<1>3. PICK a : a = answer(code)
  OBVIOUS
<1>4. /\ a.code = code /\ a.op = m.op /\ a.tag = m.tag /\ a.done = done
      /\ (a.sure <=> ~(m.op = "rm" /\ "rfio" \in topt[s]))
      /\ a.at = IF m.op = "cd" /\ code = "OK" THEN cwd'[s] ELSE Resolve(cwd[s], m.arg)
  BY <1>3
<1>5. sent = <<a>>
  <2>1. DOMAIN <<code>> = {1} /\ <<code>>[1] = code
    OBVIOUS
  <2>2. sent = [i \in {1} |-> a]
    BY <1>3, <2>1
  <2>3. <<a>> = [i \in {1} |-> a]
    OBVIOUS
  <2> QED BY <2>2, <2>3
<1> HIDE DEF at, answer, sent
<1>6. <<>> \o <<a>> = <<a>>
  OBVIOUS
<1>7. ASSUME toClient' = [toClient EXCEPT ![s] = toClient[s] \o sent],
             srv' = IF goesOn THEN srv ELSE [srv EXCEPT ![s] = "exit"]
      PROVE  toClient'[s] = <<a>> /\ (goesOn \/ srv'[s] = "exit")
  <2>1. toClient'[s] = <<>> \o <<a>>
    BY <1>5, <1>7 DEF SessionShape
  <2> QED BY <1>6, <1>7, <2>1 DEF SessionShape
<1>8. CASE toClient' = toClient
  BY <1>8
<1>9. CASE /\ toClient' = [toClient EXCEPT ![s] = toClient[s] \o sent]
           /\ srv' = IF goesOn THEN srv ELSE [srv EXCEPT ![s] = "exit"]
  BY <1>4, <1>7, <1>9 DEF Written
<1> QED BY <1>1, <1>8, <1>9

\* What has become of the request m when a is its answer.
Effect(s, m, a) ==
  /\ a.op = m.op /\ a.tag = m.tag
  /\ (a.code \in {"OK", "LIST"} /\ a.sure => a.done)
  /\ (m.op = "cd" => IF a.code = "OK" THEN a.at = Target(s, m) /\ cwd'[s] = a.at
                     ELSE srv'[s] = "exit")
  /\ (m.op # "cd" => cwd' = cwd /\ a.at = Resolve(cwd[s], m.arg))
  /\ (m.op = "umask" => IF a.code = "OK" THEN umask'[s] = m.val ELSE srv'[s] = "exit")
  /\ (m.op # "umask" => umask' = umask)

LEMMA AnswerWritten ==
  ASSUME SessionShape, NEW s \in Sessions, NEW m, NEW code, NEW done, NEW list, NEW goesOn,
         Say(s, m, <<code>>, done, list, goesOn, FALSE), toClient[s] = <<>>,
         code \in {"OK", "LIST"} => done \/ (m.op = "rm" /\ "rfio" \in topt[s]),
         m.op = "cd" => IF code = "OK" THEN cwd'[s] = Target(s, m) ELSE ~goesOn,
         m.op # "cd" => cwd' = cwd,
         m.op = "umask" => IF code = "OK" THEN umask'[s] = m.val ELSE ~goesOn,
         m.op # "umask" => umask' = umask
  PROVE  toClient' = toClient \/ \E a : toClient'[s] = <<a>> /\ Effect(s, m, a)
<1>1. CASE toClient' = toClient
  BY <1>1
<1>2. CASE \E a : toClient'[s] = <<a>> /\ Written(s, m, code, done, goesOn, a)
  <2>1. PICK a : toClient'[s] = <<a>> /\ Written(s, m, code, done, goesOn, a)
    BY <1>2
  <2>2. Effect(s, m, a)
    BY <2>1 DEF Effect, Written
  <2> QED BY <2>1, <2>2
<1> QED BY <1>1, <1>2, SayOne

LEMMA HandlersAnswer ==
  ASSUME SessionShape, NEW s \in Sessions, NEW m, Handlers(s, m), toClient[s] = <<>>, ~confused'[s]
  PROVE  toClient' = toClient \/ \E a : toClient'[s] = <<a>> /\ Effect(s, m, a)
<1>1. ASSUME NEW codes, NEW done, NEW list, NEW goesOn,
             Say(s, m, codes, done, list, goesOn, TRUE)
      PROVE  FALSE
  <2>1. confused' = [confused EXCEPT ![s] = confused[s] \/ TRUE]
    BY <1>1, SayFrame
  <2> QED BY <2>1 DEF SessionShape
<1>2. CASE m.op = "cd" /\ DoCd(s, m)
  <2>1. umask' = umask
    BY <1>2 DEF DoCd
  <2>2. \/ \E code \in {"NORETRY", "BAD"} : Say(s, m, <<code>>, FALSE, {}, FALSE, FALSE)
        \/ cwd' = [cwd EXCEPT ![s] = Target(s, m)] /\ Say(s, m, <<"OK">>, TRUE, {}, TRUE, FALSE)
    BY <1>2, Zenon DEF DoCd, Reply, ReplyAndEnd, Refusals
  <2>3. CASE \E code \in {"NORETRY", "BAD"} : Say(s, m, <<code>>, FALSE, {}, FALSE, FALSE)
    <3>1. PICK code \in {"NORETRY", "BAD"} : Say(s, m, <<code>>, FALSE, {}, FALSE, FALSE)
      BY <2>3
    <3> QED BY <1>2, <2>1, <3>1, AnswerWritten
  <2>4. CASE cwd' = [cwd EXCEPT ![s] = Target(s, m)] /\ Say(s, m, <<"OK">>, TRUE, {}, TRUE, FALSE)
    <3>1. cwd'[s] = Target(s, m)
      BY <2>4 DEF SessionShape
    <3> QED BY <1>2, <2>1, <2>4, <3>1, AnswerWritten
  <2> QED BY <2>2, <2>3, <2>4
<1>3. CASE m.op = "mkdir" /\ DoMkdir(s, m)
  <2>1. umask' = umask /\ cwd' = cwd
    BY <1>3 DEF DoMkdir
  <2>2. Say(s, m, <<"OK">>, TRUE, {}, TRUE, FALSE)
    BY <1>1, <1>3, Zenon DEF DoMkdir, Reply
  <2> QED BY <1>3, <2>1, <2>2, AnswerWritten
<1>4. CASE m.op = "rm" /\ DoRm(s, m)
  <2>1. umask' = umask /\ cwd' = cwd
    BY <1>4 DEF DoRm
  <2>2. \/ "rfio" \in topt[s] /\ \E done : Say(s, m, <<"OK">>, done, {}, TRUE, FALSE)
        \/ Say(s, m, <<"OK">>, TRUE, {}, TRUE, FALSE)
        \/ Say(s, m, <<"NORETRY">>, FALSE, {}, FALSE, FALSE)
    BY <1>4, Zenon DEF DoRm, Reply, ReplyAndEnd
  <2>3. CASE "rfio" \in topt[s] /\ \E done : Say(s, m, <<"OK">>, done, {}, TRUE, FALSE)
    <3>1. PICK done : Say(s, m, <<"OK">>, done, {}, TRUE, FALSE)
      BY <2>3
    <3> QED BY <1>4, <2>1, <2>3, <3>1, AnswerWritten
  <2>4. CASE Say(s, m, <<"OK">>, TRUE, {}, TRUE, FALSE)
    BY <1>4, <2>1, <2>4, AnswerWritten
  <2>5. CASE Say(s, m, <<"NORETRY">>, FALSE, {}, FALSE, FALSE)
    BY <1>4, <2>1, <2>5, AnswerWritten
  <2> QED BY <2>2, <2>3, <2>4, <2>5
<1>5. CASE (m.op = "stat" /\ DoStat(s, m)) \/ (m.op = "df" /\ DoStatfs(s, m))
  <2>1. umask' = umask /\ cwd' = cwd
    BY <1>5 DEF DoStat, DoStatfs
  <2>2. \/ \E goesOn : Say(s, m, <<"NORETRY">>, FALSE, {}, goesOn, FALSE)
        \/ Say(s, m, <<"OK">>, TRUE, {}, TRUE, FALSE)
    BY <1>5, Zenon DEF DoStat, DoStatfs, Reply, ReplyAndEnd
  <2>3. CASE \E goesOn : Say(s, m, <<"NORETRY">>, FALSE, {}, goesOn, FALSE)
    <3>1. PICK goesOn : Say(s, m, <<"NORETRY">>, FALSE, {}, goesOn, FALSE)
      BY <2>3
    <3> QED BY <1>5, <2>1, <3>1, AnswerWritten
  <2>4. CASE Say(s, m, <<"OK">>, TRUE, {}, TRUE, FALSE)
    BY <1>5, <2>1, <2>4, AnswerWritten
  <2> QED BY <2>2, <2>3, <2>4
<1>6. CASE m.op = "list" /\ DoList(s, m)
  <2>1. umask' = umask /\ cwd' = cwd
    BY <1>6 DEF DoList
  <2>2. \/ \E code \in {"NORETRY", "BAD"}, goesOn \in BOOLEAN : Say(s, m, <<code>>, FALSE, {}, goesOn, FALSE)
        \/ \E list, goesOn : Say(s, m, <<"LIST">>, TRUE, list, goesOn, FALSE)
    BY <1>6, Zenon DEF DoList, Reply, ReplyAndEnd, Refusals
  <2>3. CASE \E code \in {"NORETRY", "BAD"}, goesOn \in BOOLEAN : Say(s, m, <<code>>, FALSE, {}, goesOn, FALSE)
    <3>1. PICK code \in {"NORETRY", "BAD"}, goesOn \in BOOLEAN : Say(s, m, <<code>>, FALSE, {}, goesOn, FALSE)
      BY <2>3
    <3> QED BY <1>6, <2>1, <3>1, AnswerWritten
  <2>4. CASE \E list, goesOn : Say(s, m, <<"LIST">>, TRUE, list, goesOn, FALSE)
    <3>1. PICK list, goesOn : Say(s, m, <<"LIST">>, TRUE, list, goesOn, FALSE)
      BY <2>4
    <3> QED BY <1>6, <2>1, <3>1, AnswerWritten
  <2> QED BY <2>2, <2>3, <2>4
<1>7. CASE m.op = "umask" /\ DoChumask(s, m)
  <2>1. umask'[s] = m.val /\ cwd' = cwd
    BY <1>7 DEF DoChumask, SessionShape
  <2>2. Say(s, m, <<"OK">>, TRUE, {}, TRUE, FALSE)
    BY <1>7, Zenon DEF DoChumask, Reply
  <2> QED BY <1>7, <2>1, <2>2, AnswerWritten
<1>8. CASE m.op = "cos" /\ DoChcos(s, m)
  <2>1. umask' = umask /\ cwd' = cwd
    BY <1>8 DEF DoChcos
  <2>2. Say(s, m, <<"OK">>, TRUE, {}, TRUE, FALSE)
    BY <1>8, Zenon DEF DoChcos, Reply
  <2> QED BY <1>8, <2>1, <2>2, AnswerWritten
<1>9. CASE NoMemory(s, m)
  <2>1. umask' = umask /\ cwd' = cwd /\ m.op # "umask"
    BY <1>9 DEF NoMemory, Texts
  <2>2. Say(s, m, <<"BAD">>, FALSE, {}, FALSE, FALSE)
    BY <1>1, <1>9, Zenon DEF NoMemory, ReplyAndEnd
  <2> QED BY <2>1, <2>2, AnswerWritten
<1>10. CASE UnreadText(s, m)
  <2>1. PICK codes, goesOn : Say(s, m, codes, FALSE, {}, goesOn, TRUE)
    BY <1>10, Zenon DEF UnreadText
  <2> QED BY <1>1, <2>1
<1>11. CASE UnreadValue(s, m)
  <2>1. umask' = umask /\ cwd' = cwd /\ m.op # "cd"
    BY <1>11 DEF UnreadValue
  <2>2. Say(s, m, <<"BAD">>, FALSE, {}, FALSE, FALSE)
    BY <1>11, Zenon DEF UnreadValue, ReplyAndEnd
  <2> QED BY <2>1, <2>2, AnswerWritten
<1> QED BY <1>2, <1>3, <1>4, <1>5, <1>6, <1>7, <1>8, <1>9, <1>10, <1>11 DEF Handlers

\* A step of a session with which the client is not working.
LEMMA OtherSession ==
  ASSUME StepInv, UNCHANGED <<pc, broken, todo, conn, cmd, op, tries>>, UNCHANGED globals,
         UNCHANGED session
  PROVE  StepInv'
<1>1. Awaited' = Awaited /\ Tag' = Tag /\ (Usable' => Usable)
  BY DEF Awaited, Tag, First, Usable
<1>2. GlobalsKept'
  BY DEF StepInv, GlobalsKept, globals
<1>3. ASSUME Usable
      PROVE  Requested' /\ Answered' /\ Settled'
  <2>1. Requested /\ Answered /\ Settled
    BY <1>3 DEF StepInv
  <2>2. (CwdSettled' <=> CwdSettled) /\ (UmaskSettled' <=> UmaskSettled)
    BY DEF CwdSettled, UmaskSettled, session, globals
  <2>3. ASSUME NEW m, RequestOk(m)
        PROVE  RequestOk(m)'
    BY <1>1, <2>3 DEF RequestOk, globals
  <2>4. ASSUME NEW a, AnswerOk(a)
        PROVE  AnswerOk(a)'
    BY <1>1, <2>2, <2>4 DEF AnswerOk, globals, session
  <2>5. Requested'
    <3>1. PICK m : m = Head(toServer[conn])
      OBVIOUS
    <3>2. (Head(toServer[conn]))' = m
      BY <3>1 DEF session
    <3> QED BY <2>1, <2>3, <3>1, <3>2 DEF Requested, session
  <2>6. Answered'
    <3>1. PICK a : a = Head(toClient[conn])
      OBVIOUS
    <3>2. (Head(toClient[conn]))' = a
      BY <3>1 DEF session
    <3> QED BY <2>1, <2>4, <3>1, <3>2 DEF Answered, session
  <2>7. Settled'
    BY <2>1, <2>2 DEF Settled, session
  <2> QED BY <2>5, <2>6, <2>7
<1> QED BY <1>1, <1>2, <1>3 DEF StepInv

\* What is said of a command that is over does not change with the session.
LEMMA ServerKeepsReports ==
  ASSUME InStep, OkMeansDone, FilesReported, UNCHANGED clientVars
  PROVE  OkMeansDone' /\ FilesReported'
BY DEF OkMeansDone, FilesReported, clientVars, workVars, manyVars, userVars

LEMMA HandleKept ==
  ASSUME ShapeInv, InStep, InStep', Kept, NEW s \in Sessions, HandleLogged(s)
  PROVE  Kept'
<1>1. /\ srv[s] = "LOGGED" /\ toServer[s] # <<>> /\ Handlers(s, Head(toServer[s]))
      /\ toServer' = [toServer EXCEPT ![s] = Tail(toServer[s])] /\ UNCHANGED clientVars
  BY DEF HandleLogged
<1>2. OkMeansDone' /\ FilesReported'
  BY <1>1, ServerKeepsReports DEF Kept
<1>3. /\ UNCHANGED <<pc, broken, todo, conn, cmd, op, tries>> /\ UNCHANGED globals
      /\ conn \in Sessions
  BY <1>1 DEF clientVars, workVars, settingVars, userVars, globals, ShapeInv
<1>4. GlobalsKept'
  BY <1>3 DEF Kept, StepInv, GlobalsKept, globals
<1>5. CASE s # conn
  <2>1. UNCHANGED session
    BY <1>3, <1>5, HandleShape DEF session
  <2> QED BY <1>2, <1>3, <2>1, OtherSession DEF Kept
<1>6. CASE s = conn /\ ~Usable
  BY <1>2, <1>3, <1>4, <1>6 DEF Kept, StepInv, Usable
<1>7. CASE s = conn /\ Usable
  <2>1. PICK m : m = Head(toServer[conn])
    OBVIOUS
  <2>2. /\ pc = "wait" /\ toClient[conn] = <<>> /\ toServer[conn] = <<m>> /\ RequestOk(m)
    BY <1>1, <1>7, <2>1 DEF Kept, StepInv, Requested
  <2>3. CwdSettled /\ UmaskSettled
    BY <1>1, <1>7, <2>2 DEF Kept, StepInv, Settled
  <2>4. Tail(<<m>>) = <<>>
    OBVIOUS
  <2>5. (toServer[conn])' = <<>>
    BY <1>1, <1>3, <1>7, <2>2, <2>4 DEF ShapeInv
  <2>6. Handlers(conn, m) /\ toClient[conn] = <<>>
    BY <1>1, <1>7, <2>1, <2>2
  <2>7. SessionShape
    BY ShapeParts
  <2>8. toClient' = toClient \/ \E a : toClient'[conn] = <<a>> /\ Effect(conn, m, a)
    BY <1>3, <2>6, <2>7, HandlersAnswer DEF InStep
  <2>9. Requested'
    BY <2>5 DEF Requested
  <2>10. CASE toClient' = toClient
    <3>1. (toClient[conn])' = <<>>
      BY <1>3, <2>2, <2>10
    <3> QED BY <1>2, <1>3, <1>4, <2>2, <2>5, <2>9, <3>1 DEF Kept, StepInv, Answered, Settled
  <2>11. CASE \E a : toClient'[conn] = <<a>> /\ Effect(conn, m, a)
    <3>1. PICK a : toClient'[conn] = <<a>> /\ Effect(conn, m, a)
      BY <2>11
    <3>2. <<a>> # <<>> /\ Head(<<a>>) = a
      OBVIOUS
    <3>3. (toClient[conn])' = <<a>>
      BY <1>3, <3>1
    <3>4. Awaited' = Awaited /\ Tag' = Tag
      BY <1>3 DEF Awaited, Tag, First
    <3>5. m.op = Awaited /\ m.tag = Tag
      BY <2>2 DEF RequestOk
    <3>6. a.op = Awaited /\ a.tag = Tag /\ (a.code \in {"OK", "LIST"} /\ a.sure => a.done)
      BY <3>1, <3>5 DEF Effect
    <3>7. ASSUME Awaited = "cd"
          PROVE  /\ a.code = "OK" => a.at = IF todo = {} THEN Resolve(believed, op.arg) ELSE believed
                 /\ srv'[conn] = "LOGGED" => a.code = "OK" /\ cwd'[conn] = a.at
                 /\ UNCHANGED umask
      <4>1. IF a.code = "OK" THEN a.at = Target(conn, m) /\ cwd'[conn] = a.at ELSE srv'[conn] = "exit"
        BY <3>1, <3>5, <3>7 DEF Effect
      <4>2. CASE todo = {}
        <5>1. op.kind = "cd"
          BY <3>7, <4>2 DEF Awaited
        <5>2. ~m.absolute /\ m.arg = op.arg
          BY <2>2, <4>2, <5>1 DEF RequestOk
        <5>3. Target(conn, m) = Resolve(believed, op.arg)
          BY <2>3, <4>2, <5>2 DEF Target, CwdSettled
        <5> QED BY <3>1, <3>5, <3>7, <4>1, <4>2, <5>3 DEF Effect
      <4>3. CASE todo # {}
        <5>1. m.absolute /\ <<m.arg>> = remotedir
          BY <2>2, <3>7, <4>3 DEF RequestOk
        <5>2. m.arg = believed
          <6>1. <<m.arg>> # <<>> /\ (<<m.arg>> = <<believed>> => m.arg = believed)
            OBVIOUS
          <6> QED BY <5>1, <6>1 DEF Kept, StepInv, GlobalsKept, NoDir
        <5>3. Target(conn, m) = believed
          BY <5>1, <5>2 DEF Target
        <5> QED BY <3>1, <3>5, <3>7, <4>1, <4>3, <5>3 DEF Effect
      <4> QED BY <4>2, <4>3
    <3>8. ASSUME Awaited # "cd"
          PROVE  cwd' = cwd /\ a.at = Resolve(cwd[conn], m.arg)
      BY <3>1, <3>5, <3>8 DEF Effect
    <3>9. ASSUME todo = {}, Awaited \notin {"cd", "umask", "cos"}
          PROVE  a.at = Resolve(believed, op.arg)
      <4>1. op.kind \notin {"umask", "cos"}
        BY <3>9 DEF Awaited
      <4>2. m.arg = op.arg
        BY <2>2, <3>9, <4>1 DEF RequestOk
      <4> QED BY <2>3, <3>8, <3>9, <4>2 DEF CwdSettled
    <3>10. ASSUME Awaited = "umask"
           PROVE  IF a.code = "OK"
                  THEN umask'[conn] = IF todo = {} THEN op.val ELSE remoteumask
                  ELSE srv'[conn] = "exit"
      BY <2>2, <3>1, <3>5, <3>10 DEF Effect, RequestOk
    <3>11. ASSUME Awaited # "umask"
           PROVE  umask' = umask
      BY <3>1, <3>5, <3>11 DEF Effect
    <3>12. ASSUME srv'[conn] = "LOGGED"
           PROVE  /\ IF a.code = "OK" /\ Awaited = "cd" THEN cwd'[conn] = a.at ELSE CwdSettled'
                  /\ IF a.code = "OK" /\ Awaited = "umask"
                     THEN umask'[conn] = IF todo = {} THEN op.val ELSE remoteumask
                     ELSE UmaskSettled'
      <4>1. CASE Awaited = "cd"
        BY <1>3, <2>3, <3>7, <3>12, <4>1 DEF UmaskSettled, globals
      <4>2. CASE Awaited = "umask"
        BY <1>3, <2>3, <3>8, <3>10, <3>12, <4>2 DEF CwdSettled, globals
      <4>3. CASE Awaited \notin {"cd", "umask"}
        BY <1>3, <2>3, <3>8, <3>11, <4>3 DEF CwdSettled, UmaskSettled, globals
      <4> QED BY <4>1, <4>2, <4>3
    <3>13. AnswerOk(a)'
      BY <1>3, <3>4, <3>6, <3>7, <3>9, <3>12 DEF AnswerOk, globals
    <3>14. Answered'
      BY <1>3, <2>2, <3>2, <3>3, <3>13 DEF Answered
    <3>15. Settled'
      BY <3>2, <3>3 DEF Settled
    <3> QED BY <1>2, <1>4, <2>9, <3>14, <3>15 DEF Kept, StepInv
  <2> QED BY <2>8, <2>10, <2>11
<1> QED BY <1>5, <1>6, <1>7

LEMMA EndKept ==
  ASSUME ShapeInv, InStep, Kept, NEW s \in Sessions, EndSession(s)
  PROVE  Kept'
<1>1. /\ UNCHANGED clientVars /\ UNCHANGED <<toClient, cwd, umask>>
      /\ srv' = [srv EXCEPT ![s] = "exit"] /\ toServer' = [toServer EXCEPT ![s] = <<>>]
  BY DEF EndSession
<1>2. OkMeansDone' /\ FilesReported'
  BY <1>1, ServerKeepsReports DEF Kept
<1>3. /\ UNCHANGED <<pc, broken, todo, conn, cmd, op, tries>> /\ UNCHANGED globals
      /\ conn \in Sessions
  BY <1>1 DEF clientVars, workVars, settingVars, userVars, globals, ShapeInv
<1>4. GlobalsKept'
  BY <1>3 DEF Kept, StepInv, GlobalsKept, globals
<1>5. CASE s # conn
  <2>1. UNCHANGED session
    BY <1>1, <1>3, <1>5 DEF session, ShapeInv
  <2> QED BY <1>2, <1>3, <2>1, OtherSession DEF Kept
<1>6. CASE s = conn
  <2>1. (srv[conn])' = "exit" /\ (toServer[conn])' = <<>> /\ (toClient[conn])' = toClient[conn]
    BY <1>1, <1>3, <1>6 DEF ShapeInv
  <2>2. Requested' /\ Settled'
    BY <2>1 DEF Requested, Settled
  <2>3. Usable' => Usable
    BY <1>3 DEF Usable
  <2>4. Awaited' = Awaited /\ Tag' = Tag
    BY <1>3 DEF Awaited, Tag, First
  <2>5. ASSUME NEW a, AnswerOk(a)
        PROVE  AnswerOk(a)'
    BY <1>3, <2>1, <2>4, <2>5 DEF AnswerOk, globals
  <2>6. Answered => Answered'
    <3>1. PICK a : a = Head(toClient[conn])
      OBVIOUS
    <3>2. (Head(toClient[conn]))' = a
      BY <2>1, <3>1
    <3> QED BY <1>3, <2>1, <2>5, <3>1, <3>2 DEF Answered
  <2> QED BY <1>2, <1>4, <2>2, <2>3, <2>6 DEF Kept, StepInv
<1> QED BY <1>5, <1>6

LEMMA RequestKept ==
  ASSUME ShapeInv, InStep, Kept, Request
  PROVE  Kept'
<1>1. First \in {"umask", "cos", "cd"} /\ (todo # {} => First \in todo)
  BY DEF First, ShapeInv
<1>2. CASE SendCd
  <2>1. CASE todo = {} /\ Send("cd", op.arg, FALSE, 0, options)
    <3>1. Awaited = "cd"
      BY <2>1 DEF Send
    <3> QED BY <2>1, <3>1, SendKept
  <2>2. CASE todo # {} /\ Send("cd", Head(remotedir), TRUE, 0, options \ {"rfio"})
    <3>1. Awaited = "cd"
      BY <2>2 DEF Send
    <3>2. "cd" \in todo
      BY <1>1, <2>2, <3>1 DEF Awaited
    <3>3. remotedir = <<believed>>
      BY <3>2 DEF Kept, StepInv, GlobalsKept
    <3>4. Head(<<believed>>) = believed
      OBVIOUS
    <3>5. <<Head(remotedir)>> = remotedir
      BY <3>3, <3>4
    <3> QED BY <2>2, <3>1, <3>5, SendKept
  <2> QED BY <1>2, <2>1, <2>2 DEF SendCd
<1>3. ASSUME NEW verb \in {"mkdir", "rm", "stat", "df", "list"}, Send(verb, op.arg, FALSE, 0, options)
      PROVE  Kept'
  <2>1. Awaited = verb
    BY <1>3 DEF Send
  <2> QED BY <1>3, <2>1, SendKept
<1>4. CASE SendUmask
  <2>1. Awaited = "umask"
    BY <1>4 DEF SendUmask, Send
  <2>2. todo = {} => op.kind = "umask"
    BY <2>1 DEF Awaited
  <2> QED BY <1>4, <2>1, <2>2, SendKept DEF SendUmask
<1>5. CASE SendCos
  <2>1. Awaited = "cos"
    BY <1>5 DEF SendCos, Send
  <2>2. todo = {} => op.kind = "cos"
    BY <2>1 DEF Awaited
  <2> QED BY <1>5, <2>1, <2>2, SendKept DEF SendCos
<1> QED BY <1>2, <1>3, <1>4, <1>5 DEF Request, SendMkdir, SendRm, SendStat, SendDf, SendList

-----------------------------------------------------------------------------
(* The theorems.                                                           *)

\* A session that has got out of step with its client stays so.
LEMMA OutOfStepStays ==
  ASSUME ShapeInv, [Next]_vars, InStep'
  PROVE  InStep
<1>1. CASE \E s \in Sessions : HandleLogged(s)
  BY <1>1, HandleShape DEF InStep
<1>2. CASE confused' = confused
  BY <1>2 DEF InStep
<1>3. CASE ClientStep
  BY <1>2, <1>3 DEF ClientStep, LocalCommand, RefuseCommand, Lcd, SetValue, SetOption, BadOption,
     Loop, NextCommand, StartTry, Report, Reconnect, Connect, GiveUp, SetupDone,
     Request, SendCd, SendMkdir, SendRm, SendStat, SendDf, SendList, SendUmask, SendCos, Send,
     DirNoMemory, Failure, CdFails, MkdirFails, RmFails, StatFails, DfFails, UmaskFails, CosFails,
     ListFails, Failed, Success, CdDone, MkdirDone, RmDone, StatDone, DfDone, ListDone, UmaskDone,
     CosDone, Taken, ManyFiles, CheckDir, LocalList, NextFile, NoFileLeft, FileNoMemory,
     FileReconnect, FileDone, FileFails, FileRetry, FileLost, localFrame, answerFrame, fileFrame,
     serverVars
<1>4. CASE \E s \in Sessions : EndSession(s)
  BY <1>2, <1>4 DEF EndSession
<1>5. CASE UNCHANGED vars
  BY <1>2, <1>5 DEF vars, serverVars
<1> QED BY <1>1, <1>3, <1>4, <1>5 DEF Next, ServerStep, Over

LEMMA InitKept == Init => Inv
<1> SUFFICES ASSUME Init PROVE Inv
  OBVIOUS
<1>1. ShapeInv
  BY InitShape
<1>2. OkMeansDone /\ FilesReported
  BY DEF Init, OkMeansDone, FilesReported
<1>3. StepInv
  BY <1>1 DEF Init, StepInv, GlobalsKept, Requested, Answered, Settled, CwdSettled, UmaskSettled, ShapeInv
<1> QED BY <1>1, <1>2, <1>3 DEF Inv

LEMMA NextKept == Inv /\ [Next]_vars => Inv'
<1> SUFFICES ASSUME Inv, [Next]_vars PROVE Inv'
  OBVIOUS
<1>1. ShapeInv /\ ShapeInv'
  BY ShapeStep DEF Inv
<1>2. ASSUME InStep' PROVE Kept'
  <2>1. InStep /\ Kept
    BY <1>1, <1>2, OutOfStepStays DEF Inv, Kept
  <2>2. CASE LocalCommand \/ DirNoMemory
    BY <1>1, <2>1, <2>2, LocalKept
  <2>3. CASE Loop
    BY <1>1, <2>1, <2>3, LoopKept
  <2>4. CASE Reconnect
    BY <1>1, <2>1, <2>4, LoopKept, ConnectKept DEF Reconnect
  <2>5. CASE Request
    BY <1>1, <2>1, <2>5, RequestKept
  <2>6. CASE Failure
    BY <1>1, <2>1, <2>6, FailedKept DEF Failure, CdFails, MkdirFails, RmFails, StatFails, DfFails,
       UmaskFails, CosFails, ListFails
  <2>7. CASE Success
    BY <1>1, <2>1, <2>7, SuccessKept
  <2>8. CASE ManyFiles
    BY <1>1, <2>1, <2>8, ManyFilesKept
  <2>9. CASE ServerStep
    BY <1>1, <1>2, <2>1, <2>9, HandleKept, EndKept DEF ServerStep
  <2>10. CASE UNCHANGED vars
    <3>1. UNCHANGED clientVars /\ UNCHANGED session
      BY <2>10 DEF vars, serverVars, clientVars, session
    <3>2. UNCHANGED <<pc, broken, todo, conn, cmd, op, tries>> /\ UNCHANGED globals
      BY <3>1 DEF clientVars, workVars, settingVars, userVars, globals
    <3> QED BY <2>1, <3>1, <3>2, OtherSession, ServerKeepsReports DEF Kept
  <2> QED BY <2>2, <2>3, <2>4, <2>5, <2>6, <2>7, <2>8, <2>9, <2>10 DEF Next, ClientStep, Over
<1> QED BY <1>1, <1>2 DEF Inv, Kept

LEMMA InvHolds == Spec => []Inv
BY InitKept, NextKept, PTL DEF Spec

\* However many commands there are and however often the connection is lost, the session
\* in use is in the user's directory and has his umask once its settings are replayed.
THEOREM SettingsKeptHolds == Spec => []SettingsKept
<1>1. Inv => SettingsKept
  <2> SUFFICES ASSUME Inv, pc \in {"idle", "loop", "try", "files", "file"}, ~broken,
                      srv[conn] = "LOGGED", InStep
               PROVE  cwd[conn] = believed /\ (mask # 0 => umask[conn] = mask)
    BY DEF SettingsKept
  <2>1. StepInv /\ Usable /\ pc # "wait" /\ todo = {}
    BY DEF Inv, Usable, ShapeInv
  <2> QED BY <2>1, BetweenRequests DEF CwdSettled, UmaskSettled
<1> QED BY <1>1, InvHolds, PTL

\* Whatever the commands and the faults, one that is reported OK was done by its last try,
\* on the word of the answer to it, where the user means.
THEOREM OkMeansDoneHolds == Spec => []OkMeansDone
<1>1. Inv => OkMeansDone
  BY DEF Inv, OkMeansDone
<1> QED BY <1>1, InvHolds, PTL

\* However many files mget or mput has and however many connections they take, a file
\* that is reported as transferred is one of the user's directory.
THEOREM FilesReportedHolds == Spec => []FilesReported
<1>1. Inv => FilesReported
  BY DEF Inv, FilesReported
<1> QED BY <1>1, InvHolds, PTL

-----------------------------------------------------------------------------
(* The types.  That a session in step with its client has one message at   *)
(* most needs no more than what the client waits for: OneAtATime is that   *)
(* part of StepInv, for every session and without the others being in step.*)

States == {"idle", "loop", "try", "connect", "setup", "wait", "files", "file", "exit"}
Codes == NoRetryCodes \cup BrokenCodes \cup {"ERROR"}
Words == {"rfio", "createdir"}
Reports == {"none", "OK", "FAILED"}

ClientTypes ==
  /\ pc \in States /\ cmd \in 0..MaxCommands /\ retcode \in Codes
  /\ errcode \in BOOLEAN /\ broken \in BOOLEAN /\ exitcode \in BOOLEAN /\ cut \in BOOLEAN
  /\ options \subseteq Words /\ reported \in [Commands -> Reports]
  /\ ftries \in 0..MaxTries
  /\ (pc = "file" => back = "file") /\ (back = "file" => ftries # 0)

\* A message has options, unless it was cut.
Worded(x) == x.op # "cut" => x.opts \subseteq Words
Queued(q) == \E S : q \in Seq(S) /\ \A x \in S : Worded(x)
ServerTypes ==
  /\ srv \in [Sessions -> {"none", "LOGGED", "exit"}] /\ open \in [Sessions -> BOOLEAN]
  /\ topt \in [Sessions -> SUBSET Words]
  /\ \A s \in Sessions : Queued(toServer[s])
FilesApart == <<>> \in dirs /\ dirs \cap files = {}
OneAtATime ==
  /\ \A s \in Sessions : ~confused[s] => \/ toServer[s] = <<>>
                                         \/ toServer[s] = <<Head(toServer[s])>>
  /\ Usable /\ ~confused[conn] =>
       /\ toServer[conn] # <<>> => pc = "wait" /\ toClient[conn] = <<>>
       /\ toClient[conn] # <<>> => pc = "wait" /\ toClient[conn] = <<Head(toClient[conn])>>

LEMMA QueueEmpty == Queued(<<>>)
<1>1. PICK q : q = <<>>
  OBVIOUS
<1>2. PICK S : S = {}
  OBVIOUS
<1>3. q \in Seq(S) /\ \A x \in S : Worded(x)
  BY <1>1, <1>2
<1>4. Queued(q)
  BY <1>3, Zenon DEF Queued
<1> QED BY <1>1, <1>4

LEMMA InitTypes == Init => ClientTypes /\ ServerTypes /\ FilesApart /\ OneAtATime
<1> SUFFICES ASSUME Init PROVE ClientTypes /\ ServerTypes /\ FilesApart /\ OneAtATime
  OBVIOUS
<1>1. ClientTypes
  <2>1. cmd \in 0..MaxCommands /\ ftries \in 0..MaxTries
    BY BoundsAssumption DEF Init
  <2>2. reported \in [Commands -> Reports]
    BY DEF Init, Reports
  <2> QED BY <2>1, <2>2 DEF Init, ClientTypes, States, Codes, NoRetryCodes
<1>2. ServerTypes
  BY QueueEmpty DEF Init, ServerTypes
<1>3. FilesApart
  BY FilesAssumption DEF Init, FilesApart
<1>4. OneAtATime
  BY BoundsAssumption DEF Init, OneAtATime, Sessions
<1> QED BY <1>1, <1>2, <1>3, <1>4

LEMMA ReturnTypes ==
  ASSUME ClientTypes, NEW rc \in Codes, Return(rc), cut' \in BOOLEAN,
         UNCHANGED <<cmd, exitcode, options, reported, ftries, back>>
  PROVE  ClientTypes'
<1>1. /\ retcode' = rc /\ pc' = "loop"
      /\ errcode' \in BOOLEAN /\ broken' \in BOOLEAN
  BY Zenon DEF Return
<1> QED BY <1>1 DEF ClientTypes, States, Commands

LEMMA OutcomeTypes ==
  ASSUME ClientTypes, NEW rc \in Codes, Outcome(rc),
         UNCHANGED <<cmd, exitcode, options, reported, ftries, back, cut>>
  PROVE  ClientTypes'
<1>1. CASE todo = {}
  <2>1. Return(rc) /\ cut' \in BOOLEAN
    BY <1>1 DEF Outcome, ClientTypes
  <2> QED BY <2>1, ReturnTypes
<1>2. CASE todo # {}
  <2>1. pc' \in {"setup", "connect"} /\ UNCHANGED <<retcode, errcode, broken>>
    BY <1>2 DEF Outcome
  <2> QED BY <2>1 DEF ClientTypes, States, Commands
<1> QED BY <1>1, <1>2

LEMMA LineTypes ==
  ASSUME ClientTypes, NEW ok \in BOOLEAN, Line(ok), broken' \in BOOLEAN,
         UNCHANGED <<cmd, retcode, options, reported, back, cut>>
  PROVE  ClientTypes'
<1>1. /\ exitcode' \in BOOLEAN /\ errcode' \in BOOLEAN
      /\ pc' = "files" /\ ftries' = ftries
  BY Zenon DEF Line
<1> QED BY <1>1 DEF ClientTypes, States, Commands

LEMMA LocalTypes ==
  ASSUME ClientTypes, LocalCommand \/ DirNoMemory \/ Loop \/ Reconnect, back \in {"try", "file"}
  PROVE  ClientTypes'
<1>1. CASE RefuseCommand
  <2>1. /\ reported' = [reported EXCEPT ![cmd] = "FAILED"] /\ pc' = "idle"
        /\ UNCHANGED <<cmd, retcode, errcode, broken, exitcode, cut, options, ftries, back>>
    BY <1>1 DEF RefuseCommand, settingVars, manyVars
  <2>2. reported' \in [Commands -> Reports]
    BY <2>1 DEF ClientTypes, Reports
  <2> QED BY <2>1, <2>2 DEF ClientTypes, States, Commands
<1>2. CASE Lcd
  <2>1. UNCHANGED <<cmd, exitcode, options, reported, ftries, back, cut>>
    BY <1>2 DEF Lcd, localFrame, manyVars
  <2>2. PICK rc \in Codes : Return(rc)
    BY <1>2, Zenon DEF Lcd, Codes, NoRetryCodes
  <2> QED BY <2>1, <2>2, ReturnTypes DEF ClientTypes
<1>3. CASE SetValue
  <2>1. UNCHANGED <<cmd, options, reported, ftries, back, cut>>
    BY <1>3 DEF SetValue, localFrame, manyVars
  <2>2. CASE Return("OK") /\ UNCHANGED exitcode
    BY <2>1, <2>2, ReturnTypes DEF ClientTypes, Codes, NoRetryCodes
  <2>3. CASE /\ retcode' = "CONN_BROKEN" /\ errcode' = TRUE
             /\ exitcode' = TRUE /\ pc' = "loop" /\ UNCHANGED broken
    BY <2>1, <2>3 DEF ClientTypes, States, Codes, BrokenCodes, Commands
  <2> QED BY <1>3, <2>2, <2>3, Zenon DEF SetValue
<1>4. CASE SetOption
  <2>1. UNCHANGED <<cmd, exitcode, reported, ftries, back, cut, op>> /\ Return("OK")
    BY <1>4 DEF SetOption, localFrame, manyVars
  <2>2. options' \subseteq Words
    BY <1>4 DEF SetOption, ClientTypes, Words
  <2>3. /\ retcode' = "OK" /\ pc' = "loop" /\ errcode' \in BOOLEAN /\ broken' \in BOOLEAN
    BY <2>1, Zenon DEF Return
  <2> QED BY <2>1, <2>2, <2>3 DEF ClientTypes, States, Codes, NoRetryCodes, Commands
<1>5. CASE BadOption \/ DirNoMemory
  <2>1. /\ UNCHANGED <<cmd, reported, ftries, back, cut, options>>
        /\ retcode' = "CONN_BROKEN" /\ pc' = "loop" /\ errcode' = errcode
    BY <1>5 DEF BadOption, DirNoMemory, localFrame, manyVars
  <2>2. exitcode' \in {exitcode, TRUE} /\ broken' \in {broken, TRUE}
    BY <1>5 DEF BadOption, DirNoMemory
  <2> QED BY <2>1, <2>2 DEF ClientTypes, States, Codes, BrokenCodes, Commands
<1>6. CASE NextCommand
  <2>1. cmd' \in 0..MaxCommands
    BY <1>6, BoundsAssumption DEF NextCommand, ClientTypes
  <2>2. /\ retcode' = "OK" /\ errcode' = FALSE /\ cut' = FALSE /\ pc' = "loop"
        /\ UNCHANGED <<broken, exitcode, options, reported, back, ftries>>
    BY <1>6 DEF NextCommand, settingVars
  <2> QED BY <2>1, <2>2 DEF ClientTypes, States, Codes, NoRetryCodes, Commands
<1>7. CASE StartTry
  BY <1>7 DEF StartTry, settingVars, manyVars, ClientTypes, States, Commands
<1>8. CASE Report
  <2>1. /\ reported' = [reported EXCEPT ![cmd] = IF retcode = "OK" THEN "OK" ELSE "FAILED"]
        /\ pc' = "idle" /\ exitcode' \in {exitcode, errcode}
        /\ UNCHANGED <<cmd, retcode, errcode, broken, cut, options, ftries, back>>
    BY <1>8 DEF Report, settingVars, manyVars
  <2>2. reported' \in [Commands -> Reports]
    BY <2>1 DEF ClientTypes, Reports
  <2> QED BY <2>1, <2>2 DEF ClientTypes, States, Commands
<1>9. CASE Connect
  BY <1>9 DEF Connect, connectFrame, workVars, settingVars, manyVars, ClientTypes, States, Commands
<1>10. CASE GiveUp
  BY <1>10 DEF GiveUp, workVars, settingVars, manyVars, ClientTypes, States, Commands
<1>11. CASE SetupDone
  BY <1>11 DEF SetupDone, connectFrame, workVars, settingVars, manyVars, ClientTypes, States, Commands
<1> QED BY <1>1, <1>2, <1>3, <1>4, <1>5, <1>6, <1>7, <1>8, <1>9, <1>10, <1>11
        DEF LocalCommand, Loop, Reconnect

\* A request or an answer changes the state of the client through Outcome.
LEMMA AnswerTypes ==
  ASSUME ClientTypes, Request \/ Failure \/ Success
  PROVE  ClientTypes'
<1>1. CASE Request
  <2>1. PICK verb, arg, absolute, val, opts : Send(verb, arg, absolute, val, opts)
    BY <1>1, Zenon DEF Request, SendCd, SendMkdir, SendRm, SendStat, SendDf, SendList, SendUmask, SendCos
  <2>2. UNCHANGED <<cmd, exitcode, options, reported, ftries, back, cut>>
    BY <2>1, Zenon DEF Send, manyVars, settingVars
  <2>3. \/ pc' = "wait" /\ UNCHANGED <<retcode, errcode, broken>>
        \/ Outcome("CONN_BROKEN")
    BY <2>1, Zenon DEF Send
  <2>4. CASE pc' = "wait" /\ UNCHANGED <<retcode, errcode, broken>>
    BY <2>2, <2>4 DEF ClientTypes, States, Commands
  <2> QED BY <2>2, <2>3, <2>4, OutcomeTypes DEF Codes, BrokenCodes
<1>2. CASE Failure
  <2>1. PICK kind, code : Failed(kind, code)
    BY <1>2, Zenon DEF Failure, CdFails, MkdirFails, RmFails, StatFails, DfFails, UmaskFails, CosFails,
       ListFails
  <2>2. UNCHANGED <<cmd, exitcode, options, reported, ftries, back, cut>>
    BY <2>1, Zenon DEF Failed, answerFrame, manyVars, settingVars
  <2>3. \E rc \in {"CONN_BROKEN", "ERROR", "FT_NR", "FT_NR_CONN_BROKEN"} : Outcome(rc)
    BY <2>1, Zenon DEF Failed, NoAnswer, Refused, Unusable
  <2>4. PICK rc \in Codes : Outcome(rc)
    BY <2>3 DEF Codes, NoRetryCodes, BrokenCodes
  <2> QED BY <2>2, <2>4, OutcomeTypes
<1>3. CASE Success
  <2>1. UNCHANGED <<cmd, exitcode, reported, back>>
    BY <1>3, Zenon DEF Success, CdDone, MkdirDone, RmDone, StatDone, DfDone, ListDone, UmaskDone, CosDone,
       Taken, answerFrame
  <2>2. UNCHANGED <<options, ftries, cut>>
    BY <1>3, Zenon DEF Success, CdDone, MkdirDone, RmDone, StatDone, DfDone, ListDone, UmaskDone, CosDone,
       manyVars, settingVars
  <2>3. Outcome("OK") \/ (pc' = "files" /\ UNCHANGED <<retcode, errcode, broken>>)
    BY <1>3, Zenon DEF Success, CdDone, MkdirDone, RmDone, StatDone, DfDone, ListDone, UmaskDone, CosDone
  <2>4. CASE pc' = "files" /\ UNCHANGED <<retcode, errcode, broken>>
    BY <2>1, <2>2, <2>4 DEF ClientTypes, States, Commands
  <2> QED BY <2>1, <2>2, <2>3, <2>4, OutcomeTypes DEF Codes, NoRetryCodes
<1> QED BY <1>1, <1>2, <1>3

LEMMA ManyTypes ==
  ASSUME ClientTypes, ManyFiles
  PROVE  ClientTypes'
<1>1. CASE CheckDir
  <2>1. UNCHANGED <<cmd, exitcode, options, reported, ftries, back, cut>>
    BY <1>1 DEF CheckDir, localFrame, manyVars
  <2>2. PICK rc \in Codes : Return(rc)
    BY <1>1 DEF CheckDir, Codes, NoRetryCodes
  <2> QED BY <2>1, <2>2, ReturnTypes DEF ClientTypes
<1>2. CASE LocalList
  <2>1. UNCHANGED <<cmd, exitcode, options, reported, ftries, back>>
    BY <1>2 DEF LocalList, settingVars
  <2>2. cut' \in BOOLEAN
    BY <1>2, Zenon DEF LocalList, ClientTypes
  <2>3. \/ \E rc \in {"OK", "FT_NR"} : Return(rc)
        \/ pc' = "files" /\ UNCHANGED <<retcode, errcode, broken>>
    BY <1>2, Zenon DEF LocalList
  <2>4. CASE \E rc \in {"OK", "FT_NR"} : Return(rc)
    BY <2>1, <2>2, <2>4, ReturnTypes DEF Codes, NoRetryCodes
  <2>5. CASE pc' = "files" /\ UNCHANGED <<retcode, errcode, broken>>
    BY <2>1, <2>2, <2>5 DEF ClientTypes, States, Commands
  <2> QED BY <2>3, <2>4, <2>5
<1>3. CASE NextFile
  BY <1>3, BoundsAssumption DEF NextFile, settingVars, ClientTypes, States, Commands
<1>4. CASE NoFileLeft \/ FileNoMemory
  <2>1. UNCHANGED <<cmd, exitcode, options, reported, ftries, back, cut>>
    BY <1>4 DEF NoFileLeft, FileNoMemory, manyVars, settingVars
  <2>2. PICK rc \in Codes : Return(rc)
    BY <1>4, Zenon DEF NoFileLeft, FileNoMemory, Codes, NoRetryCodes
  <2> QED BY <2>1, <2>2, ReturnTypes DEF ClientTypes
<1>5. CASE FileReconnect
  BY <1>5 DEF FileReconnect, fileFrame, settingVars, ClientTypes, States, Commands
<1>6. CASE FileDone \/ FileFails \/ FileRetry \/ FileLost
  <2>1. UNCHANGED <<cmd, retcode, options, reported, back, cut>>
    BY <1>6 DEF FileDone, FileFails, FileRetry, FileLost, fileFrame, settingVars
  <2>2. broken' \in {broken, TRUE}
    BY <1>6 DEF FileDone, FileFails, FileRetry, FileLost
  <2>3. \/ \E ok \in BOOLEAN : Line(ok)
        \/ /\ ftries # 1 /\ ftries' = ftries - 1 /\ pc' \in {"file", "connect"} /\ pc = "file"
           /\ UNCHANGED <<exitcode, errcode>>
    BY <1>6, Zenon DEF FileDone, FileFails, FileRetry, FileLost
  <2>4. CASE \E ok \in BOOLEAN : Line(ok)
    BY <2>1, <2>2, <2>4, LineTypes DEF ClientTypes
  <2>5. CASE /\ ftries # 1 /\ ftries' = ftries - 1 /\ pc' \in {"file", "connect"} /\ pc = "file"
             /\ UNCHANGED <<exitcode, errcode>>
    <3>1. back = "file" /\ ftries # 0 /\ ftries \in 0..MaxTries
      BY <2>5 DEF ClientTypes
    <3>2. ftries' \in 0..MaxTries /\ ftries' # 0
      BY <2>5, <3>1, BoundsAssumption
    <3>3. broken' \in BOOLEAN /\ exitcode' \in BOOLEAN /\ errcode' \in BOOLEAN /\ pc' \in States
      BY <2>2, <2>5 DEF ClientTypes, States
    <3> QED BY <2>1, <3>1, <3>2, <3>3 DEF ClientTypes, Commands
  <2> QED BY <2>3, <2>4, <2>5
<1> QED BY <1>1, <1>2, <1>3, <1>4, <1>5, <1>6 DEF ManyFiles

LEMMA ClientTypesStep ==
  ASSUME ShapeInv, ClientTypes, [Next]_vars
  PROVE  ClientTypes'
<1>1. CASE ServerStep \/ UNCHANGED vars
  <2>1. UNCHANGED clientVars
    BY <1>1 DEF ServerStep, HandleLogged, EndSession, vars, clientVars
  <2> QED BY <2>1 DEF clientVars, workVars, settingVars, manyVars, ClientTypes, Commands
<1>2. back \in {"try", "file"}
  BY DEF ShapeInv
<1> QED BY <1>1, <1>2, LocalTypes, AnswerTypes, ManyTypes DEF Next, ClientStep, Over

LEMMA QueueAppend ==
  ASSUME NEW q, Queued(q), NEW x, Worded(x)
  PROVE  Queued(Append(q, x))
<1>1. PICK S : q \in Seq(S) /\ \A y \in S : Worded(y)
  BY Zenon DEF Queued
<1>2. q \in Seq(S \cup {x})
  BY <1>1
<1>3. Append(q, x) \in Seq(S \cup {x})
  BY <1>2
<1>4. \A y \in S \cup {x} : Worded(y)
  BY <1>1
<1> QED BY <1>3, <1>4, Zenon DEF Queued

LEMMA QueueTail ==
  ASSUME NEW q, Queued(q), q # <<>>
  PROVE  Queued(Tail(q)) /\ Worded(Head(q))
<1>1. PICK S : q \in Seq(S) /\ \A y \in S : Worded(y)
  BY Zenon DEF Queued
<1>2. Tail(q) \in Seq(S) /\ Head(q) \in S
  BY <1>1
<1> QED BY <1>1, <1>2, Zenon DEF Queued

\* What a handler does to the options of its session, and to the files.
LEMMA HandlersTypes ==
  ASSUME NEW s \in Sessions, NEW m, Worded(m), m.op # "cut", Handlers(s, m), ServerTypes, FilesApart
  PROVE  /\ topt' \in [Sessions -> SUBSET Words] /\ srv' \in [Sessions -> {"none", "LOGGED", "exit"}]
         /\ FilesApart'
<1>1. topt' = topt \/ \E o \in (SUBSET Words) \cup {m.opts} : topt' = [topt EXCEPT ![s] = o]
  <2>1. m.opts \in (SUBSET Words) \cup {m.opts}
    OBVIOUS
  <2>2. CASE UnreadText(s, m)
    <3>1. topt' = topt \/ \E o \in SUBSET {"rfio", "createdir"} : topt' = [topt EXCEPT ![s] = o]
      BY <2>2, Zenon DEF UnreadText
    <3> QED BY <3>1 DEF Words
  <2>3. CASE ~UnreadText(s, m)
    BY <2>1, <2>3, Zenon DEF Handlers, DoCd, DoMkdir, DoRm, DoStat, DoStatfs, DoList, DoChumask, DoChcos,
       NoMemory, UnreadValue, Options
  <2> QED BY <2>2, <2>3
<1>2. topt' \in [Sessions -> SUBSET Words]
  <2>1. CASE topt' = topt
    BY <2>1 DEF ServerTypes
  <2>2. CASE \E o \in (SUBSET Words) \cup {m.opts} : topt' = [topt EXCEPT ![s] = o]
    <3>1. PICK o \in (SUBSET Words) \cup {m.opts} : topt' = [topt EXCEPT ![s] = o]
      BY <2>2
    <3>2. o \in SUBSET Words
      BY DEF Worded
    <3> QED BY <3>1, <3>2 DEF ServerTypes
  <2> QED BY <1>1, <2>1, <2>2
<1>3. PICK codes, done, list, goesOn, strays : Say(s, m, codes, done, list, goesOn, strays)
  BY HandlersSay
<1>4. srv' = srv \/ srv' = [srv EXCEPT ![s] = "exit"]
  BY <1>3, SayFrame
<1>5. srv' \in [Sessions -> {"none", "LOGGED", "exit"}]
  BY <1>4 DEF ServerTypes
<1>6. CASE UNCHANGED <<dirs, files>>
  BY <1>2, <1>5, <1>6 DEF FilesApart
<1>7. CASE dirs' = dirs /\ files' \subseteq files
  BY <1>2, <1>5, <1>7 DEF FilesApart
<1>8. CASE DoMkdir(s, m)
  <2> DEFINE dir == Target(s, m)
  <2>1. /\ files' = files
        /\ \/ dirs' = dirs
           \/ dir \in Made(dir, m.opts) /\ dirs' = Made(dir, m.opts)
    BY <1>8, Zenon DEF DoMkdir
  <2>2. ASSUME dir \in Made(dir, m.opts)
        PROVE  /\ Made(dir, m.opts) \cap files = {} /\ <<>> \in Made(dir, m.opts)
    <3>1. \/ Made(dir, m.opts) = dirs
          \/ Above(dir) \cap files = {} /\ Made(dir, m.opts) = dirs \cup Above(dir)
          \/ (dir = <<>> \/ CanMake(dir, dirs)) /\ Made(dir, m.opts) = dirs \cup {dir}
      BY Zenon DEF Made
    <3>2. dir = <<>> \/ CanMake(dir, dirs) => dir \notin files
      BY DEF FilesApart, CanMake
    <3> QED BY <3>1, <3>2 DEF FilesApart
  <2> QED BY <1>2, <1>5, <2>1, <2>2 DEF FilesApart
<1>9. UNCHANGED <<dirs, files>> \/ DoRm(s, m) \/ UnreadText(s, m) \/ DoMkdir(s, m)
  BY Zenon DEF Handlers, DoCd, DoStat, DoStatfs, DoList, DoChumask, DoChcos, NoMemory, UnreadValue
<1>10. DoRm(s, m) \/ UnreadText(s, m) => dirs' = dirs /\ files' \subseteq files
  BY DEF DoRm, UnreadText
<1> QED BY <1>6, <1>7, <1>8, <1>9, <1>10

\* What the client does to the sessions: it appends to a queue, opens and shuts a
\* connection, and its transfers leave the options and the files.
LEMMA ClientLeaves ==
  ASSUME ShapeInv, ClientTypes, ServerTypes, FilesApart, ClientStep
  PROVE  ServerTypes' /\ FilesApart'
<1>0. conn \in Sessions
  BY DEF ShapeInv
<1>1. ASSUME UNCHANGED <<srv, topt, toServer, dirs, files>>,
             open' = open \/ open' = [open EXCEPT ![conn] = FALSE]
      PROVE  ServerTypes' /\ FilesApart'
  BY <1>0, <1>1 DEF ServerTypes, FilesApart
<1>2. CASE LocalCommand \/ DirNoMemory \/ Loop \/ GiveUp \/ SetupDone
  <2>1. UNCHANGED <<srv, topt, toServer, dirs, files, open>>
    BY <1>2 DEF LocalCommand, RefuseCommand, Lcd, SetValue, SetOption, BadOption, DirNoMemory, Loop,
       NextCommand, StartTry, Report, GiveUp, SetupDone, localFrame, connectFrame, serverVars
  <2> QED BY <1>1, <2>1
<1>3. CASE Connect
  <2>1. /\ srv' = [srv EXCEPT ![conn + 1] = "LOGGED"] /\ open' = [open EXCEPT ![conn + 1] = TRUE]
        /\ UNCHANGED <<topt, toServer, dirs, files>>
    BY <1>3 DEF Connect, connectFrame
  <2> QED BY <2>1 DEF ServerTypes, FilesApart
<1>4. CASE Request
  <2>1. PICK verb, arg, absolute, val, opts : /\ Send(verb, arg, absolute, val, opts)
                                              /\ opts \in {options, options \ {"rfio"}, {}}
    BY <1>4, Zenon DEF Request, SendCd, SendMkdir, SendRm, SendStat, SendDf, SendList, SendUmask, SendCos
  <2> DEFINE m == [op |-> verb, arg |-> arg, absolute |-> absolute, val |-> val, opts |-> opts,
                   tag |-> Tag]
             c == [op |-> "cut", of |-> verb]
  <2>2. Worded(m) /\ Worded(c)
    BY <2>1 DEF Worded, ClientTypes
  <2>3. /\ \/ toServer' = toServer
           \/ toServer' = [toServer EXCEPT ![conn] = Append(toServer[conn], m)]
           \/ toServer' = [toServer EXCEPT ![conn] = Append(toServer[conn], c)]
        /\ open' = open \/ open' = [open EXCEPT ![conn] = FALSE]
        /\ UNCHANGED <<srv, topt, dirs, files>>
    BY <2>1, Zenon DEF Send, Shut, serverVars
  <2> HIDE DEF m, c
  <2>4. Queued(Append(toServer[conn], m)) /\ Queued(Append(toServer[conn], c))
    BY <1>0, <2>2, QueueAppend DEF ServerTypes
  <2>5. ASSUME NEW q, Queued(q), toServer' = [toServer EXCEPT ![conn] = q]
        PROVE  \A s \in Sessions : Queued(toServer'[s])
    BY <1>0, <2>5 DEF ServerTypes, ShapeInv
  <2>6. \A s \in Sessions : Queued(toServer'[s])
    BY <2>3, <2>4, <2>5 DEF ServerTypes
  <2> QED BY <1>0, <2>3, <2>6 DEF ServerTypes, FilesApart
<1>5. CASE Failure
  <2>1. PICK kind, code : Failed(kind, code)
    BY <1>5, Zenon DEF Failure, CdFails, MkdirFails, RmFails, StatFails, DfFails, UmaskFails, CosFails,
       ListFails
  <2>2. /\ UNCHANGED <<srv, topt, toServer, dirs, files>>
        /\ open' = open \/ open' = [open EXCEPT ![conn] = FALSE]
    BY <2>1, Zenon DEF Failed, NoAnswer, Refused, Unusable, Shut, answerFrame, serverVars
  <2> QED BY <1>1, <2>2
<1>6. CASE Success
  <2>1. UNCHANGED <<srv, topt, toServer, dirs, files, open>>
    BY <1>6, Zenon DEF Success, CdDone, MkdirDone, RmDone, StatDone, DfDone, ListDone, UmaskDone, CosDone,
       Taken, answerFrame, serverVars
  <2> QED BY <1>1, <2>1
<1>7. CASE CheckDir \/ LocalList \/ NextFile \/ NoFileLeft \/ FileNoMemory \/ FileReconnect
  <2>1. UNCHANGED <<srv, topt, toServer, dirs, files, open>>
    BY <1>7 DEF CheckDir, LocalList, NextFile, NoFileLeft, FileNoMemory, FileReconnect, localFrame,
       fileFrame, serverVars
  <2> QED BY <1>1, <2>1
<1>8. CASE FileDone
  <2>1. /\ UNCHANGED <<srv, open, toServer, dirs>> /\ topt' = [topt EXCEPT ![conn] = options]
        /\ files' = files \/ \E path : path \notin dirs /\ files' = files \cup {path}
    BY <1>8, Zenon DEF FileDone, fileFrame
  <2>2. topt' \in [Sessions -> SUBSET Words]
    BY <2>1 DEF ServerTypes, ClientTypes
  <2> QED BY <2>1, <2>2 DEF ServerTypes, FilesApart
<1>9. CASE FileFails \/ FileRetry \/ FileLost
  <2>1. /\ UNCHANGED <<srv, topt, toServer, dirs, files>>
        /\ open' = open \/ open' = [open EXCEPT ![conn] = FALSE]
    BY <1>9, Zenon DEF FileFails, FileRetry, FileLost, Shut, fileFrame, serverVars
  <2> QED BY <1>1, <2>1
<1> QED BY <1>2, <1>3, <1>4, <1>5, <1>6, <1>7, <1>8, <1>9 DEF ClientStep, Reconnect, ManyFiles

LEMMA ServerTypesStep ==
  ASSUME ShapeInv, ClientTypes, ServerTypes, FilesApart, [Next]_vars
  PROVE  ServerTypes' /\ FilesApart'
<1>1. ASSUME NEW s \in Sessions, HandleLogged(s)
      PROVE  ServerTypes' /\ FilesApart'
  <2> DEFINE m == Head(toServer[s])
  <2>1. /\ toServer[s] # <<>> /\ m.op # "cut" /\ Handlers(s, m) /\ open' = open
        /\ toServer' = [toServer EXCEPT ![s] = Tail(toServer[s])]
    BY <1>1 DEF HandleLogged, clientVars
  <2>2. Queued(Tail(toServer[s])) /\ Worded(m)
    BY <2>1, QueueTail DEF ServerTypes
  <2> HIDE DEF m
  <2>3. /\ topt' \in [Sessions -> SUBSET Words] /\ srv' \in [Sessions -> {"none", "LOGGED", "exit"}]
        /\ FilesApart'
    BY <2>1, <2>2, HandlersTypes
  <2>4. \A t \in Sessions : Queued(toServer'[t])
    BY <2>1, <2>2 DEF ServerTypes, ShapeInv
  <2> QED BY <2>1, <2>3, <2>4 DEF ServerTypes
<1>2. ASSUME NEW s \in Sessions, EndSession(s)
      PROVE  ServerTypes' /\ FilesApart'
  <2>1. /\ UNCHANGED <<open, topt, dirs>> /\ files' \subseteq files
        /\ srv' = [srv EXCEPT ![s] = "exit"] /\ toServer' = [toServer EXCEPT ![s] = <<>>]
    BY <1>2 DEF EndSession, clientVars
  <2>2. \A t \in Sessions : Queued(toServer'[t])
    BY <2>1, QueueEmpty DEF ServerTypes, ShapeInv
  <2> QED BY <2>1, <2>2 DEF ServerTypes, FilesApart
<1>3. CASE UNCHANGED vars
  BY <1>3 DEF vars, serverVars, ServerTypes, FilesApart
<1> QED BY <1>1, <1>2, <1>3, ClientLeaves DEF Next, ServerStep, Over

\* Steps between two requests, which leave what is on its way or drop it.
LEMMA QuietOne ==
  ASSUME ShapeInv, OneAtATime, UNCHANGED <<conn, confused, toServer>>,
         (toClient[conn])' \in {toClient[conn], <<>>}, pc # "wait", Usable' => Usable
  PROVE  OneAtATime'
<1>1. ASSUME Usable', ~confused'[conn']
      PROVE  toServer[conn] = <<>> /\ (toClient[conn])' = <<>>
  BY <1>1 DEF OneAtATime
<1>2. \A s \in Sessions : ~confused'[s] => \/ toServer'[s] = <<>>
                                            \/ toServer'[s] = <<Head(toServer'[s])>>
  BY DEF OneAtATime
<1> QED BY <1>1, <1>2 DEF OneAtATime

\* The end of an exchange: lost, or the answer taken off.
LEMMA ExchangeOver ==
  ASSUME ShapeInv, OneAtATime, pc = "wait", UNCHANGED <<conn, confused, toServer>>,
         \/ ~Usable'
         \/ toClient[conn] # <<>> /\ (toClient[conn])' = Tail(toClient[conn])
  PROVE  OneAtATime'
<1>1. \A s \in Sessions : ~confused'[s] => \/ toServer'[s] = <<>>
                                            \/ toServer'[s] = <<Head(toServer'[s])>>
  BY DEF OneAtATime
<1>2. CASE ~Usable'
  BY <1>1, <1>2 DEF OneAtATime
<1>3. CASE toClient[conn] # <<>> /\ (toClient[conn])' = Tail(toClient[conn])
  <2>1. ASSUME ~confused[conn]
        PROVE  toServer[conn] = <<>> /\ toClient[conn] = <<Head(toClient[conn])>>
    BY <1>3, <2>1 DEF OneAtATime, Usable
  <2>2. PICK a : a = Head(toClient[conn])
    OBVIOUS
  <2>3. Tail(<<a>>) = <<>>
    OBVIOUS
  <2>4. ~confused[conn] => (toServer[conn])' = <<>> /\ (toClient[conn])' = <<>>
    BY <1>3, <2>1, <2>2, <2>3
  <2> QED BY <1>1, <2>4 DEF OneAtATime
<1> QED BY <1>2, <1>3

LEMMA SendOne ==
  ASSUME ShapeInv, OneAtATime, NEW verb, NEW arg, NEW absolute, NEW val, NEW opts,
         Send(verb, arg, absolute, val, opts)
  PROVE  OneAtATime'
<1> DEFINE m == [op |-> verb, arg |-> arg, absolute |-> absolute, val |-> val, opts |-> opts,
                 tag |-> Tag]
           c == [op |-> "cut", of |-> verb]
<1>1. /\ pc \in {"try", "setup"} /\ conn \in Sessions
      /\ UNCHANGED <<conn, confused, op>>
      /\ \/ toServer' = toServer
         \/ toServer' = [toServer EXCEPT ![conn] = Append(toServer[conn], m)]
         \/ toServer' = [toServer EXCEPT ![conn] = Append(toServer[conn], c)]
      /\ \/ pc' = "wait" /\ toClient' = toClient
         \/ Outcome("CONN_BROKEN")
  BY Zenon DEF Send, serverVars, ShapeInv
<1> HIDE DEF m, c
<1>2. Usable
  BY <1>1 DEF Usable, ShapeInv
<1>3. ~confused[conn] => toServer[conn] = <<>> /\ toClient[conn] = <<>>
  BY <1>1, <1>2 DEF OneAtATime
<1>4. /\ Append(<<>>, m) = <<m>> /\ Head(<<m>>) = m
      /\ Append(<<>>, c) = <<c>> /\ Head(<<c>>) = c
  OBVIOUS
<1>5. ASSUME NEW s \in Sessions, ~confused'[s]
      PROVE  toServer'[s] = <<>> \/ toServer'[s] = <<Head(toServer'[s])>>
  <2>1. CASE s = conn
    <3>1. toServer[s] = <<>>
      BY <1>1, <1>3, <1>5, <2>1
    <3>2. toServer'[s] \in {<<>>, <<m>>, <<c>>}
      BY <1>1, <1>4, <2>1, <3>1 DEF ShapeInv
    <3> QED BY <1>4, <3>2
  <2>2. CASE s # conn
    <3>1. toServer'[s] = toServer[s]
      BY <1>1, <2>2 DEF ShapeInv
    <3> QED BY <1>1, <1>5, <3>1 DEF OneAtATime
  <2> QED BY <2>1, <2>2
<1>6. CASE pc' = "wait" /\ toClient' = toClient
  BY <1>1, <1>3, <1>5, <1>6 DEF OneAtATime
<1>7. CASE Outcome("CONN_BROKEN")
  <2>1. ~Usable'
    BY <1>1, <1>7, OutcomeLost DEF BrokenCodes
  <2> QED BY <1>5, <2>1 DEF OneAtATime
<1> QED BY <1>1, <1>6, <1>7

LEMMA AnswerOne ==
  ASSUME ShapeInv, OneAtATime, Failure \/ Success
  PROVE  OneAtATime'
<1>1. CASE Failure
  <2>1. PICK kind, code : Failed(kind, code)
    BY <1>1, Zenon DEF Failure, CdFails, MkdirFails, RmFails, StatFails, DfFails, UmaskFails, CosFails,
       ListFails
  <2>2. pc = "wait" /\ UNCHANGED <<conn, confused, toServer, op>>
    BY <2>1, Zenon DEF Failed, answerFrame, serverVars
  <2>3. \/ \E rc \in BrokenCodes : Outcome(rc)
        \/ /\ todo = {} /\ toClient[conn] # <<>>
           /\ toClient' = [toClient EXCEPT ![conn] = Tail(toClient[conn])]
        \/ todo # {} /\ \E rc \in {"ERROR", "FT_NR"} : Outcome(rc)
    <3>1. NoAnswer \/ Unusable(code) => Outcome("CONN_BROKEN")
      BY Zenon DEF NoAnswer, Unusable
    <3>2. ASSUME Refused
          PROVE  \/ Outcome("CONN_BROKEN") \/ Outcome("FT_NR_CONN_BROKEN")
                 \/ /\ todo = {} /\ toClient[conn] # <<>>
                    /\ toClient' = [toClient EXCEPT ![conn] = Tail(toClient[conn])]
                 \/ todo # {} /\ \E rc \in {"ERROR", "FT_NR"} : Outcome(rc)
      <4> DEFINE retry == Head(toClient[conn]).code = "BAD"
      <4>1. /\ toClient[conn] # <<>>
            /\ \/ /\ Outcome(IF retry THEN "ERROR" ELSE "FT_NR")
                  /\ IF todo = {}
                     THEN UNCHANGED open /\ toClient' = [toClient EXCEPT ![conn] = Tail(toClient[conn])]
                     ELSE Shut
               \/ Outcome("CONN_BROKEN")
               \/ Outcome(IF retry THEN "CONN_BROKEN" ELSE "FT_NR_CONN_BROKEN")
        BY <3>2, Zenon DEF Refused
      <4>2. PICK rc \in {"ERROR", "FT_NR"} : rc = IF retry THEN "ERROR" ELSE "FT_NR"
        OBVIOUS
      <4>3. PICK rb \in {"CONN_BROKEN", "FT_NR_CONN_BROKEN"} :
              rb = IF retry THEN "CONN_BROKEN" ELSE "FT_NR_CONN_BROKEN"
        OBVIOUS
      <4> HIDE DEF retry
      <4> QED BY <4>1, <4>2, <4>3
    <3> QED BY <2>1, <3>1, <3>2, Zenon DEF Failed, BrokenCodes
  <2>4. CASE \E rc \in BrokenCodes : Outcome(rc)
    <3>1. ~Usable'
      BY <2>2, <2>4, OutcomeLost
    <3> QED BY <2>2, <3>1, ExchangeOver
  <2>5. CASE /\ todo = {} /\ toClient[conn] # <<>>
             /\ toClient' = [toClient EXCEPT ![conn] = Tail(toClient[conn])]
    <3>1. (toClient[conn])' = Tail(toClient[conn])
      BY <2>2, <2>5 DEF ShapeInv
    <3> QED BY <2>2, <2>5, <3>1, ExchangeOver
  <2>6. CASE todo # {} /\ \E rc \in {"ERROR", "FT_NR"} : Outcome(rc)
    <3>1. ~Usable'
      BY <2>6 DEF Outcome, Usable
    <3> QED BY <2>2, <3>1, ExchangeOver
  <2> QED BY <2>3, <2>4, <2>5, <2>6
<1>2. CASE Success
  <2>1. PICK kind, code : Taken(kind, code)
    BY <1>2, Zenon DEF Success, CdDone, MkdirDone, RmDone, StatDone, DfDone, ListDone, UmaskDone, CosDone
  <2>2. /\ pc = "wait" /\ UNCHANGED <<conn, confused, toServer>> /\ toClient[conn] # <<>>
        /\ toClient' = [toClient EXCEPT ![conn] = Tail(toClient[conn])]
    BY <2>1, Zenon DEF Taken, answerFrame, serverVars
  <2>3. (toClient[conn])' = Tail(toClient[conn])
    BY <2>2 DEF ShapeInv
  <2> QED BY <2>2, <2>3, ExchangeOver
<1> QED BY <1>1, <1>2

LEMMA ClientOne ==
  ASSUME ShapeInv, OneAtATime, ClientStep
  PROVE  OneAtATime'
<1>1. CASE LocalCommand \/ DirNoMemory \/ Loop \/ GiveUp \/ SetupDone
  <2>1. UNCHANGED <<conn, confused, toServer, toClient>> /\ pc # "wait"
    BY <1>1 DEF LocalCommand, RefuseCommand, Lcd, SetValue, SetOption, BadOption, DirNoMemory, Loop,
       NextCommand, StartTry, Report, GiveUp, SetupDone, localFrame, connectFrame, serverVars
  <2>2. Usable' => Usable
    <3>1. CASE Loop \/ GiveUp \/ SetupDone
      BY <3>1 DEF Loop, NextCommand, StartTry, Report, GiveUp, SetupDone, Usable
    <3>2. CASE RefuseCommand
      BY <3>2 DEF Usable, RefuseCommand
    <3>3. CASE Lcd \/ SetValue \/ SetOption \/ BadOption \/ DirNoMemory
      BY <3>3 DEF Lcd, SetValue, SetOption, BadOption, DirNoMemory, Usable
    <3> QED BY <1>1, <3>1, <3>2, <3>3 DEF LocalCommand
  <2> QED BY <2>1, <2>2, QuietOne
<1>2. CASE Connect
  <2>1. /\ conn' = conn + 1 /\ conn' \in Sessions /\ conn' > conn
        /\ UNCHANGED <<toServer, toClient, confused>>
    BY <1>2, BoundsAssumption DEF Connect, ShapeInv, Sessions, connectFrame
  <2>2. toServer'[conn'] = <<>> /\ toClient'[conn'] = <<>>
    BY <2>1 DEF ShapeInv
  <2> QED BY <2>1, <2>2 DEF OneAtATime
<1>3. CASE Request
  BY <1>3, SendOne DEF Request, SendCd, SendMkdir, SendRm, SendStat, SendDf, SendList, SendUmask, SendCos
<1>4. CASE ManyFiles
  <2>1. UNCHANGED <<conn, confused, toServer>> /\ pc \in {"try", "files", "file"}
    BY <1>4 DEF ManyFiles, CheckDir, LocalList, NextFile, NoFileLeft, FileNoMemory, FileReconnect,
       FileDone, FileFails, FileRetry, FileLost, localFrame, fileFrame, serverVars
  <2>2. (toClient[conn])' \in {toClient[conn], <<>>}
    <3>1. toClient' = toClient \/ toClient' = [toClient EXCEPT ![conn] = <<>>]
      BY <1>4, Zenon DEF ManyFiles, CheckDir, LocalList, NextFile, NoFileLeft, FileNoMemory,
         FileReconnect, FileDone, FileFails, FileRetry, FileLost, Shut, localFrame
    <3> QED BY <2>1, <3>1 DEF ShapeInv
  <2>3. Usable' => Usable
    <3>1. CASE CheckDir \/ LocalList
      BY <3>1 DEF CheckDir, LocalList, localFrame, Usable
    <3>2. CASE NextFile \/ NoFileLeft \/ FileNoMemory
      BY <3>2 DEF NextFile, NoFileLeft, FileNoMemory, Return, Usable
    <3>3. CASE FileReconnect \/ FileDone \/ FileRetry
      BY <3>3 DEF FileReconnect, FileDone, FileRetry, Line, Usable
    <3>4. CASE FileFails \/ FileLost
      BY <3>4 DEF FileFails, FileLost, Line, Usable
    <3> QED BY <1>4, <3>1, <3>2, <3>3, <3>4 DEF ManyFiles
  <2> QED BY <2>1, <2>2, <2>3, QuietOne
<1> QED BY <1>1, <1>2, <1>3, <1>4, AnswerOne DEF ClientStep, Reconnect

\* The session takes the one message and gives one answer, or is out of step from then on.
LEMMA HandleOne ==
  ASSUME ShapeInv, OneAtATime, NEW s \in Sessions, HandleLogged(s)
  PROVE  OneAtATime'
<1> DEFINE m == Head(toServer[s])
<1>1. /\ toServer[s] # <<>> /\ Handlers(s, m) /\ UNCHANGED clientVars
      /\ toServer' = [toServer EXCEPT ![s] = Tail(toServer[s])]
  BY DEF HandleLogged
<1> HIDE DEF m
<1>2. /\ \A t \in Sessions \ {s} : toServer'[t] = toServer[t] /\ toClient'[t] = toClient[t]
      /\ \A t \in Sessions : confused[t] => confused'[t]
  BY HandleShape
<1>3. UNCHANGED <<pc, conn, broken>> /\ conn \in Sessions
  BY <1>1 DEF clientVars, ShapeInv
<1>4. (Usable' <=> Usable)
  BY <1>3 DEF Usable
<1>5. ASSUME ~confused'[s]
      PROVE  toServer'[s] = <<>>
  <2>1. toServer[s] = <<Head(toServer[s])>>
    BY <1>1, <1>2, <1>5 DEF OneAtATime
  <2>2. PICK x : x = Head(toServer[s])
    OBVIOUS
  <2>3. Tail(<<x>>) = <<>>
    OBVIOUS
  <2> QED BY <1>1, <2>1, <2>2, <2>3 DEF ShapeInv
<1>6. ASSUME NEW t \in Sessions, ~confused'[t]
      PROVE  toServer'[t] = <<>> \/ toServer'[t] = <<Head(toServer'[t])>>
  <2>1. CASE t = s
    BY <1>5, <1>6, <2>1
  <2>2. CASE t # s
    BY <1>2, <1>6, <2>2 DEF OneAtATime
  <2> QED BY <2>1, <2>2
<1>7. ASSUME Usable', ~confused'[conn]
      PROVE  /\ toServer'[conn] # <<>> => pc = "wait" /\ toClient'[conn] = <<>>
             /\ toClient'[conn] # <<>> => pc = "wait" /\ toClient'[conn] = <<Head(toClient'[conn])>>
  <2>0. Usable /\ ~confused[conn]
    BY <1>2, <1>3, <1>4, <1>7
  <2>1. CASE conn # s
    BY <1>2, <1>3, <2>0, <2>1 DEF OneAtATime
  <2>2. CASE conn = s
    <3>1. pc = "wait" /\ toClient[conn] = <<>>
      BY <1>1, <2>0, <2>2 DEF OneAtATime
    <3>2. SessionShape /\ toClient[s] = <<>> /\ ~confused'[s]
      BY <1>7, <2>2, <3>1, ShapeParts
    <3>3. toClient' = toClient \/ \E a : toClient'[s] = <<a>>
      BY <1>1, <3>2, HandlersAnswer
    <3>4. toClient'[conn] = <<>> \/ toClient'[conn] = <<Head(toClient'[conn])>>
      <4>1. \A a : Head(<<a>>) = a
        OBVIOUS
      <4> QED BY <2>2, <3>1, <3>3, <4>1
    <3> QED BY <1>5, <1>7, <2>2, <3>1, <3>4
  <2> QED BY <2>1, <2>2
<1> QED BY <1>3, <1>6, <1>7 DEF OneAtATime

LEMMA EndOne ==
  ASSUME ShapeInv, OneAtATime, NEW s \in Sessions, EndSession(s)
  PROVE  OneAtATime'
<1>1. /\ UNCHANGED <<pc, conn, broken, toClient, confused>> /\ conn \in Sessions
      /\ toServer' = [toServer EXCEPT ![s] = <<>>]
  BY DEF EndSession, clientVars, ShapeInv
<1>2. \A t \in Sessions : toServer'[t] = IF t = s THEN <<>> ELSE toServer[t]
  BY <1>1 DEF ShapeInv
<1>3. Usable' <=> Usable
  BY <1>1 DEF Usable
<1>4. \A t \in Sessions : ~confused'[t] => \/ toServer'[t] = <<>>
                                            \/ toServer'[t] = <<Head(toServer'[t])>>
  BY <1>1, <1>2 DEF OneAtATime
<1>5. toServer'[conn] \in {<<>>, toServer[conn]}
  BY <1>1, <1>2
<1> QED BY <1>1, <1>3, <1>4, <1>5 DEF OneAtATime

TypesInv == ShapeInv /\ ClientTypes /\ ServerTypes /\ FilesApart /\ OneAtATime

LEMMA TypesHold == Spec => []TypesInv
<1>1. Init => TypesInv
  BY InitShape, InitTypes DEF TypesInv
<1>2. TypesInv /\ [Next]_vars => TypesInv'
  <2> SUFFICES ASSUME TypesInv, [Next]_vars PROVE TypesInv'
    OBVIOUS
  <2>1. ShapeInv' /\ ClientTypes' /\ ServerTypes' /\ FilesApart'
    BY ShapeStep, ClientTypesStep, ServerTypesStep DEF TypesInv
  <2>2. UNCHANGED vars => OneAtATime'
    <3> SUFFICES ASSUME UNCHANGED vars PROVE OneAtATime'
      OBVIOUS
    <3>1. UNCHANGED <<pc, broken, conn, toServer, toClient, confused>>
      BY DEF vars, serverVars
    <3>2. Usable' <=> Usable
      BY <3>1 DEF Usable
    <3>3. \A s \in Sessions : ~confused'[s] => \/ toServer'[s] = <<>>
                                                \/ toServer'[s] = <<Head(toServer'[s])>>
      BY <3>1 DEF TypesInv, OneAtATime
    <3> QED BY <3>1, <3>2, <3>3 DEF TypesInv, OneAtATime
  <2>3. OneAtATime'
    BY <2>2, ClientOne, HandleOne, EndOne DEF TypesInv, Next, ServerStep, Over
  <2> QED BY <2>1, <2>3 DEF TypesInv
<1> QED BY <1>1, <1>2, PTL DEF Spec

\* The types, for any number of commands, tries and sessions: among them that a session
\* which has answered every request once never has more than one message before it, and
\* that no mkdir, rm or upload of the server makes a file of a directory.
THEOREM CommandsTypeCorrect == Spec => []TypeOK
<1>1. TypesInv => TypeOK
  <2> SUFFICES ASSUME TypesInv PROVE TypeOK
    OBVIOUS
  <2>1. \A s \in Sessions : Len(toServer[s]) > 1 => confused[s]
    <3>1. ASSUME NEW s \in Sessions, ~confused[s] PROVE ~(Len(toServer[s]) > 1)
      <4>1. Len(<<>>) = 0 /\ \A x : Len(<<x>>) = 1
        OBVIOUS
      <4>2. toServer[s] = <<>> \/ toServer[s] = <<Head(toServer[s])>>
        BY <3>1 DEF TypesInv, OneAtATime
      <4>3. Len(toServer[s]) = 0 \/ Len(toServer[s]) = 1
        BY <4>1, <4>2
      <4>4. ~(0 > 1) /\ ~(1 > 1)
        OBVIOUS
      <4> QED BY <4>3, <4>4, Zenon
    <3> QED BY <3>1
  <2>2. \A c \in Commands : reported[c] \in {"none", "OK", "FAILED"}
    BY DEF TypesInv, ClientTypes, Reports
  <2>3. \A s \in Sessions : /\ srv[s] \in {"none", "LOGGED", "exit"} /\ open[s] \in BOOLEAN
                             /\ confused[s] \in BOOLEAN /\ topt[s] \subseteq {"rfio", "createdir"}
    BY DEF TypesInv, ShapeInv, ServerTypes, Words
  <2>4. {errcode, broken, exitcode, cut} \subseteq BOOLEAN
    BY DEF TypesInv, ClientTypes
  <2>5. dirs \cap files = {}
    BY DEF TypesInv, FilesApart
  <2>6. /\ pc \in States /\ cmd \in 0..MaxCommands /\ ftries \in 0..MaxTries
        /\ retcode \in Codes /\ options \subseteq Words
    BY DEF TypesInv, ClientTypes
  <2>7. /\ tries \in 0..MaxTries /\ op.kind \in Kinds /\ conn \in Sessions
        /\ todo \subseteq {"umask", "cos", "cd"} /\ back \in {"try", "file"}
    BY DEF TypesInv, ShapeInv
  <2> QED BY <2>1, <2>2, <2>3, <2>4, <2>5, <2>6, <2>7, Zenon DEF TypeOK, States, Codes, Words
<1> QED BY <1>1, TypesHold, PTL

-----------------------------------------------------------------------------
(* What has failed is told.                                                *)

Silent == {"badoption", "unknown", "dir"}

\* treatcommand overwrites the exit code with errcode: so errcode must be set when a
\* try has failed, and when a file of mget or mput has.
FailureTold ==
  /\ op.kind \notin Silent /\ retcode # "OK" => errcode
  /\ \A l \in lines : ~l[2] => exitcode /\ errcode

LEMMA InitTold == Init => FailureTold
BY DEF Init, FailureTold

\* A step that leaves what was told, or tells more.
LEMMA ToldKept ==
  ASSUME FailureTold, UNCHANGED <<op, lines>>, exitcode => exitcode', errcode => errcode',
         retcode' = retcode \/ retcode' = "OK" \/ errcode' \/ op.kind \in Silent
  PROVE  FailureTold'
BY DEF FailureTold

LEMMA ReturnTold ==
  ASSUME FailureTold, errcode \in BOOLEAN, NEW rc, Return(rc), UNCHANGED <<op, lines, exitcode>>
  PROVE  FailureTold'
<1>1. errcode' = (errcode \/ rc # "OK") /\ retcode' = rc
  BY DEF Return
<1>2. (errcode => errcode') /\ (retcode' # "OK" => errcode')
  BY <1>1
<1> QED BY <1>2, ToldKept

LEMMA OutcomeTold ==
  ASSUME FailureTold, errcode \in BOOLEAN, NEW rc, Outcome(rc), UNCHANGED <<op, lines, exitcode>>
  PROVE  FailureTold'
<1>1. CASE todo = {}
  BY <1>1, ReturnTold DEF Outcome
<1>2. CASE todo # {}
  BY <1>2, ToldKept DEF Outcome
<1> QED BY <1>1, <1>2

\* The result of a file: a failed one sets both.
LEMMA LineTold ==
  ASSUME FailureTold, NEW ok \in BOOLEAN, Line(ok), UNCHANGED <<op, retcode>>
  PROVE  FailureTold' /\ (exitcode => exitcode')
<1>1. /\ lines' = lines \cup {<<file, ok>>}
      /\ exitcode' = (exitcode \/ ~ok) /\ errcode' = (errcode \/ ~ok)
  BY DEF Line
<1>2. <<file, ok>>[2] = ok
  OBVIOUS
<1>3. ASSUME NEW l \in lines', ~l[2] PROVE exitcode' /\ errcode'
  BY <1>1, <1>2, <1>3 DEF FailureTold
<1>4. op.kind \notin Silent /\ retcode # "OK" => errcode'
  BY <1>1 DEF FailureTold
<1> QED BY <1>1, <1>3, <1>4 DEF FailureTold

\* What a step may not do to the exit code, but for the commands that say nothing.
Told == op.kind \notin Silent =>
          /\ exitcode => exitcode'
          /\ (\E l \in lines' : ~l[2]) => exitcode'
          /\ (reported' # reported /\ reported'[cmd] = "FAILED") => exitcode'

\* A step that reports no command and keeps the exit code.
LEMMA ToldStep ==
  ASSUME FailureTold', exitcode => exitcode', reported' = reported
  PROVE  Told
BY DEF FailureTold, Told

LEMMA LoopTold ==
  ASSUME ClientTypes, FailureTold, Loop
  PROVE  FailureTold' /\ Told
<1>1. CASE NextCommand
  BY <1>1 DEF NextCommand, FailureTold, Told, workVars
<1>2. CASE StartTry
  <2>1. UNCHANGED <<op, lines, exitcode, errcode, retcode, reported>>
    BY <1>2 DEF StartTry, manyVars
  <2> QED BY <2>1, ToldKept, ToldStep
<1>3. CASE Report
  <2>1. /\ exitcode' = IF retcode = "OK" THEN exitcode ELSE errcode
        /\ reported' = [reported EXCEPT ![cmd] = IF retcode = "OK" THEN "OK" ELSE "FAILED"]
        /\ UNCHANGED <<cmd, op, lines, errcode, retcode>>
    BY <1>3 DEF Report, manyVars
  <2>2. (\E l \in lines : ~l[2]) => exitcode'
    BY <2>1 DEF FailureTold
  <2>3. FailureTold'
    BY <2>1, <2>2 DEF FailureTold
  <2>4. ASSUME op.kind \notin Silent, exitcode PROVE exitcode'
    BY <2>1, <2>4 DEF FailureTold
  <2>5. ASSUME op.kind \notin Silent, reported' # reported, reported'[cmd] = "FAILED" PROVE exitcode'
    <3>1. CASE retcode = "OK"
      <4>1. CASE cmd \in Commands
        <5>1. reported'[cmd] = "OK"
          BY <2>1, <3>1, <4>1 DEF ClientTypes
        <5> QED BY <2>5, <5>1
      <4>2. CASE cmd \notin Commands
        <5>1. reported' = reported
          BY <2>1, <4>2 DEF ClientTypes
        <5> QED BY <2>5, <5>1
      <4> QED BY <4>1, <4>2
    <3>2. CASE retcode # "OK"
      BY <2>1, <2>5, <3>2 DEF FailureTold
    <3> QED BY <3>1, <3>2
  <2> QED BY <2>1, <2>2, <2>3, <2>4, <2>5 DEF Told
<1> QED BY <1>1, <1>2, <1>3 DEF Loop

LEMMA LocalTold ==
  ASSUME FailureTold, errcode \in BOOLEAN, LocalCommand \/ DirNoMemory \/ Reconnect
  PROVE  FailureTold' /\ Told
<1>1. CASE RefuseCommand
  <2>1. op.kind \in Silent /\ UNCHANGED <<op, lines, exitcode, errcode, retcode>>
    BY <1>1 DEF RefuseCommand, Silent, manyVars
  <2> QED BY <2>1, ToldKept DEF Told
<1>2. CASE Lcd \/ SetOption
  <2>1. UNCHANGED <<op, lines, exitcode, reported>>
    BY <1>2 DEF Lcd, SetOption, localFrame, manyVars
  <2>2. PICK rc : Return(rc)
    BY <1>2, Zenon DEF Lcd, SetOption
  <2> QED BY <2>1, <2>2, ReturnTold, ToldStep
<1>3. CASE SetValue
  <2>1. UNCHANGED <<op, lines, reported>>
    BY <1>3 DEF SetValue, localFrame, manyVars
  <2>2. \/ retcode' = "OK" /\ errcode' = (errcode \/ FALSE) /\ exitcode' = exitcode
        \/ errcode' = TRUE /\ exitcode' = TRUE
    BY <1>3 DEF SetValue, Return
  <2> QED BY <2>1, <2>2, ToldKept, ToldStep
<1>4. CASE BadOption
  <2>1. UNCHANGED <<op, lines, reported, errcode>> /\ exitcode' = TRUE /\ op.kind \in Silent
    BY <1>4 DEF BadOption, localFrame, manyVars, Silent
  <2> QED BY <2>1, ToldKept, ToldStep
<1>5. CASE DirNoMemory
  <2>1. UNCHANGED <<op, lines, reported, errcode, exitcode>> /\ op.kind \in Silent
    BY <1>5 DEF DirNoMemory, localFrame, manyVars, Silent
  <2> QED BY <2>1, ToldKept, ToldStep
<1>6. CASE Connect \/ SetupDone
  <2>1. UNCHANGED <<op, lines, exitcode, errcode, retcode, reported>>
    BY <1>6 DEF Connect, SetupDone, connectFrame, workVars, manyVars
  <2> QED BY <2>1, ToldKept, ToldStep
<1>7. CASE GiveUp
  <2>1. UNCHANGED <<op, lines, errcode, retcode, reported>> /\ exitcode' = TRUE
    BY <1>7 DEF GiveUp, workVars, manyVars
  <2> QED BY <2>1, ToldKept, ToldStep
<1> QED BY <1>1, <1>2, <1>3, <1>4, <1>5, <1>6, <1>7 DEF LocalCommand, Reconnect

\* The answers of the server.
LEMMA AnswerTold ==
  ASSUME FailureTold, errcode \in BOOLEAN, Request \/ Failure \/ Success
  PROVE  FailureTold' /\ Told
<1>1. ASSUME NEW rc, Outcome(rc), UNCHANGED <<op, lines, exitcode, reported>>
      PROVE  FailureTold' /\ Told
  BY <1>1, OutcomeTold, ToldStep
<1>2. ASSUME UNCHANGED <<op, lines, exitcode, errcode, retcode, reported>>
      PROVE  FailureTold' /\ Told
  BY <1>2, ToldKept, ToldStep
<1>3. CASE Request
  <2>1. PICK verb, arg, absolute, val, opts : Send(verb, arg, absolute, val, opts)
    BY <1>3, Zenon DEF Request, SendCd, SendMkdir, SendRm, SendStat, SendDf, SendList, SendUmask, SendCos
  <2>2. /\ UNCHANGED <<op, lines, exitcode, reported>>
        /\ UNCHANGED <<errcode, retcode>> \/ Outcome("CONN_BROKEN")
    BY <2>1, Zenon DEF Send, manyVars
  <2> QED BY <1>1, <1>2, <2>2
<1>4. CASE Failure
  <2>1. PICK kind, code : Failed(kind, code)
    BY <1>4, Zenon DEF Failure, CdFails, MkdirFails, RmFails, StatFails, DfFails, UmaskFails, CosFails,
       ListFails
  <2>2. UNCHANGED <<op, lines, exitcode, reported>> /\ \E rc : Outcome(rc)
    BY <2>1, Zenon DEF Failed, NoAnswer, Refused, Unusable, answerFrame, manyVars
  <2> QED BY <1>1, <2>2
<1>5. CASE Success
  <2>1. UNCHANGED <<op, exitcode, reported>>
    BY <1>5, Zenon DEF Success, CdDone, MkdirDone, RmDone, StatDone, DfDone, ListDone, UmaskDone, CosDone,
       Taken, answerFrame
  <2>2. UNCHANGED lines
    BY <1>5, Zenon DEF Success, CdDone, MkdirDone, RmDone, StatDone, DfDone, ListDone, UmaskDone, CosDone,
       manyVars
  <2>3. Outcome("OK") \/ UNCHANGED <<retcode, errcode>>
    BY <1>5, Zenon DEF Success, CdDone, MkdirDone, RmDone, StatDone, DfDone, ListDone, UmaskDone, CosDone
  <2> QED BY <1>1, <1>2, <2>1, <2>2, <2>3
<1> QED BY <1>3, <1>4, <1>5

LEMMA ManyTold ==
  ASSUME FailureTold, errcode \in BOOLEAN, ManyFiles
  PROVE  FailureTold' /\ Told
<1>1. ASSUME UNCHANGED <<op, lines, exitcode, reported>>,
             \/ UNCHANGED <<retcode, errcode>>
             \/ \E rc : Return(rc)
      PROVE  FailureTold' /\ Told
  <2>1. CASE UNCHANGED <<retcode, errcode>>
    BY <1>1, <2>1, ToldKept, ToldStep
  <2>2. CASE \E rc : Return(rc)
    BY <1>1, <2>2, ReturnTold, ToldStep
  <2> QED BY <1>1, <2>1, <2>2
<1>2. ASSUME NEW ok \in BOOLEAN, Line(ok), UNCHANGED <<op, retcode, reported>>
      PROVE  FailureTold' /\ Told
  BY <1>2, LineTold, ToldStep
<1>3. CASE CheckDir
  BY <1>1, <1>3 DEF CheckDir, localFrame, manyVars
<1>4. CASE LocalList
  <2>1. UNCHANGED <<op, lines, exitcode, reported>>
    BY <1>4 DEF LocalList
  <2>2. UNCHANGED <<retcode, errcode>> \/ \E rc : Return(rc)
    BY <1>4, Zenon DEF LocalList
  <2> QED BY <1>1, <2>1, <2>2
<1>5. CASE NextFile
  BY <1>1, <1>5 DEF NextFile
<1>6. CASE NoFileLeft \/ FileNoMemory
  BY <1>1, <1>6 DEF NoFileLeft, FileNoMemory, manyVars
<1>7. CASE FileReconnect
  BY <1>1, <1>7 DEF FileReconnect, fileFrame
<1>8. CASE FileDone \/ FileFails \/ FileRetry \/ FileLost
  <2>1. UNCHANGED <<op, retcode, reported>>
    BY <1>8 DEF FileDone, FileFails, FileRetry, FileLost, fileFrame
  <2>2. Line(TRUE) \/ Line(FALSE) \/ UNCHANGED <<lines, exitcode, errcode>>
    BY <1>8, Zenon DEF FileDone, FileFails, FileRetry, FileLost
  <2> QED BY <1>1, <1>2, <2>1, <2>2
<1> QED BY <1>3, <1>4, <1>5, <1>6, <1>7, <1>8 DEF ManyFiles

LEMMA NextTold ==
  ASSUME TypesInv, FailureTold, [Next]_vars
  PROVE  FailureTold' /\ Told
<1>1. CASE ServerStep
  <2>1. UNCHANGED clientVars
    BY <1>1 DEF ServerStep, HandleLogged, EndSession
  <2>2. UNCHANGED <<op, lines, exitcode, errcode, retcode, reported>>
    BY <2>1 DEF clientVars, workVars, manyVars
  <2> QED BY <2>2, ToldKept, ToldStep
<1>2. CASE UNCHANGED vars
  <2>1. UNCHANGED <<op, lines, exitcode, errcode, retcode, reported>>
    BY <1>2 DEF vars, workVars, manyVars
  <2> QED BY <2>1, ToldKept, ToldStep
<1>3. ClientTypes /\ errcode \in BOOLEAN
  BY DEF TypesInv, ClientTypes
<1> QED BY <1>1, <1>2, <1>3, LoopTold, LocalTold, AnswerTold, ManyTold DEF Next, ClientStep, Over

\* The exit code of the program does not forget: neither a command that succeeds after one
\* that failed, nor the end of an mget or mput whose files have failed though the command
\* itself is reported OK, clears BBftp_Myexitcode.
THEOREM ExitCodeTellsHolds == Spec => ExitCodeTells
<1>1. TypesInv /\ FailureTold /\ [Next]_vars => FailureTold'
  BY NextTold
<1>2. TypesInv /\ FailureTold /\ [Next]_vars =>
        [op.kind \notin {"badoption", "unknown", "dir"}
           => /\ exitcode => exitcode'
              /\ (\E l \in lines' : ~l[2]) => exitcode'
              /\ (reported' # reported /\ reported'[cmd] = "FAILED") => exitcode']_vars
  BY NextTold DEF Told, Silent
<1> QED BY <1>1, <1>2, InitTold, TypesHold, PTL DEF Spec, ExitCodeTells
=============================================================================
