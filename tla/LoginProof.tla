----------------------------- MODULE LoginProof -----------------------------
(* Theorems about Login, for any number of addresses, tries and slots, all *)
(* settings and all faults.                                                *)
EXTENDS Login, SequenceTheorems, TLAPS

-----------------------------------------------------------------------------
(* Types, with what a message may say.                                     *)

States == {"connect", "crypt", "decision", "login", "status", "port", "addrok", "proto",
           "version", "todo", "in", "exit"}
Reasons == {"none", "tries", "refused", "versions", "done"}
Processes == {"free", "queued", "new", "CONN", "start", "address", "listen", "PROTWAIT", "PROT",
              "LOGGED", "exit"}
Answers == {"none", "listening", "asked", "ok", "gone"}

\* The versions both programs have.
Common(x) == (x.smin..x.smax) \cap (x.cmin..x.cmax)

Words == [code : Code \ {"PROT_ANS"}]
Versions(x) == [code : {"PROT_ANS"}, low : {x.smin}, high : {x.smax}]
Choice(set) == [code : {"PROT_ANS"}, version : set]
Ups(x) == Seq(Words \cup Choice(Common(x)))
Downs(x) == Seq(Words \cup Versions(x))
Session(x) ==
  [srv : Processes, up : Ups(x), down : Downs(x), open : BOOLEAN, held : BOOLEAN,
   ids : {"none", "root", "user"}, version : {0, 2, 3}, tmp : Answers]

ClientType ==
  /\ pc \in States /\ try \in 1..MaxTries /\ at \in 1..Addresses /\ saved \in 1..Addresses
  /\ attempts \in [1..Addresses -> 0..MaxTries]
  /\ protocol \in 0..3 /\ cur \in 0..MaxSessions
  /\ replay \in {"nothing", "works", "fails"} /\ told \in BOOLEAN
  /\ why \in Reasons
WorldType == /\ setting \in Settings /\ faults \in 0..MaxFaults
             /\ daemon \in {"starting", "serving", "asleep", "stopped"}
NetType == sess \in [Slots -> Session(setting)]

\* A client that has a connection knows its slot.
HasSlot == pc \notin {"connect", "exit"} => cur \in Slots

TypeInv == ClientType /\ WorldType /\ NetType /\ HasSlot

-----------------------------------------------------------------------------

\* A setting has its fields.
LEMMA SettingFields ==
  ASSUME NEW x \in Settings
  PROVE  /\ x.cmin \in 2..3 /\ x.cmax \in 2..3 /\ x.smin \in 1..3 /\ x.smax \in 1..3
         /\ x.via \in {"password", "ssh", "status"} /\ x.gone \in BOOLEAN
         /\ x.alive \subseteq 1..Addresses
BY SettingsAssumption

\* A word is a message of both directions.
LEMMA WordIsMessage ==
  ASSUME NEW x, NEW code \in Code \ {"PROT_ANS"}
  PROVE  /\ Msg(code) \in Words \cup Choice(Common(x))
         /\ Msg(code) \in Words \cup Versions(x)
         /\ [code |-> code] \in Words \cup Versions(x)
BY DEF Msg, Words

\* What is put behind a queue, and what is left of it.
LEMMA UpAppend ==
  ASSUME NEW x, NEW q \in Ups(x), NEW m \in Words \cup Choice(Common(x))
  PROVE  Append(q, m) \in Ups(x)
BY DEF Ups
LEMMA DownAppend ==
  ASSUME NEW x, NEW q \in Downs(x), NEW m \in Words \cup Versions(x)
  PROVE  Append(q, m) \in Downs(x)
BY DEF Downs
LEMMA UpTail == ASSUME NEW x, NEW q \in Ups(x), q # <<>> PROVE Tail(q) \in Ups(x)
BY DEF Ups
LEMMA DownTail == ASSUME NEW x, NEW q \in Downs(x), q # <<>> PROVE Tail(q) \in Downs(x)
BY DEF Downs
LEMMA NoMessages == ASSUME NEW x PROVE <<>> \in Ups(x) /\ <<>> \in Downs(x)
BY DEF Ups, Downs

\* A session with new fields.
LEMMA SessionFields ==
  ASSUME NEW x, NEW r \in Session(x)
  PROVE  /\ r.up \in Ups(x) /\ r.down \in Downs(x) /\ r.open \in BOOLEAN /\ r.held \in BOOLEAN
         /\ r.srv \in Processes /\ r.tmp \in Answers /\ r.version \in {0, 2, 3}
         /\ r.ids \in {"none", "root", "user"}
BY DEF Session
LEMMA SessionUpdate ==
  ASSUME NEW x, NEW r \in Session(x)
  PROVE  /\ \A u \in Ups(x) : [r EXCEPT !.up = u] \in Session(x)
         /\ \A d \in Downs(x) : [r EXCEPT !.down = d] \in Session(x)
         /\ \A p \in Processes : [r EXCEPT !.srv = p] \in Session(x)
         /\ \A b \in BOOLEAN : [r EXCEPT !.open = b] \in Session(x) /\ [r EXCEPT !.held = b] \in Session(x)
         /\ \A v \in {0, 2, 3} : [r EXCEPT !.version = v] \in Session(x)
         /\ \A i \in {"none", "root", "user"} : [r EXCEPT !.ids = i] \in Session(x)
         /\ \A t \in Answers : [r EXCEPT !.tmp = t] \in Session(x)
BY DEF Session
LEMMA FreeIsSession == ASSUME NEW x PROVE Free \in Session(x)
BY NoMessages DEF Free, Session, Processes, Answers

LEMMA ClosedSession ==
  ASSUME NEW x, NEW r \in Session(x) PROVE [r EXCEPT !.open = FALSE, !.down = <<>>] \in Session(x)
BY NoMessages DEF Session

\* Slots that are closed, and a message taken, stay sessions.
LEMMA ShutType == ASSUME NetType, NEW s PROVE Shut(s) \in [Slots -> Session(setting)]
<1> DEFINE r(t) == [sess[t] EXCEPT !.open = FALSE, !.down = <<>>]
<1>1. \A t \in Slots : r(t) \in Session(setting)
  BY ClosedSession DEF NetType
<1>2. Shut(s) = [t \in Slots |-> IF t = s THEN r(t) ELSE sess[t]]
  BY DEF NetType, Shut
<1>3. \A t \in Slots : (IF t = s THEN r(t) ELSE sess[t]) \in Session(setting)
  BY <1>1, Zenon DEF NetType
<1> HIDE DEF r
<1> QED
  BY <1>2, <1>3
LEMMA AllShutType == ASSUME NetType PROVE AllShut \in [Slots -> Session(setting)]
<1> DEFINE r(t) == [sess[t] EXCEPT !.open = FALSE, !.down = <<>>]
<1>1. \A t \in Slots : r(t) \in Session(setting)
  BY ClosedSession DEF NetType
<1>2. AllShut = [t \in Slots |-> r(t)]
  BY DEF AllShut
<1> HIDE DEF r
<1> QED
  BY <1>1, <1>2
LEMMA TakeType ==
  ASSUME NetType, cur \in Slots, sess[cur].down # <<>> PROVE Take \in [Slots -> Session(setting)]
<1>1. Tail(sess[cur].down) \in Downs(setting)
  BY SessionFields, DownTail DEF NetType
<1>2. [sess[cur] EXCEPT !.down = Tail(sess[cur].down)] \in Session(setting)
  BY <1>1, SessionUpdate DEF NetType
<1>3. Take = [sess EXCEPT ![cur] = [sess[cur] EXCEPT !.down = Tail(sess[cur].down)]]
  BY DEF Take
<1> QED
  BY <1>2, <1>3 DEF NetType
LEMMA SendType ==
  ASSUME NetType, cur \in Slots, NEW code \in Code \ {"PROT_ANS"}
  PROVE  Send(code) \in [Slots -> Session(setting)]
<1>1. Append(sess[cur].up, Msg(code)) \in Ups(setting)
  BY SessionFields, UpAppend, WordIsMessage DEF NetType
<1>2. [sess[cur] EXCEPT !.up = Append(sess[cur].up, Msg(code))] \in Session(setting)
  BY <1>1, SessionUpdate DEF NetType
<1>3. CASE sess[cur].srv = "exit"
  BY <1>3 DEF Send, NetType
<1>4. CASE sess[cur].srv # "exit"
  <2>1. Send(code) = [sess EXCEPT ![cur] = [sess[cur] EXCEPT !.up = Append(sess[cur].up, Msg(code))]]
    BY <1>4 DEF Send
  <2> QED
    BY <1>2, <2>1 DEF NetType
<1> QED
  BY <1>3, <1>4
LEMMA ReplyType ==
  ASSUME NetType, cur \in Slots, sess[cur].down # <<>>, NEW code \in Code \ {"PROT_ANS"}
  PROVE  Reply(code) \in [Slots -> Session(setting)]
<1>1. Take \in [Slots -> Session(setting)]
  BY TakeType
<1>2. Append(Take[cur].up, Msg(code)) \in Ups(setting)
  BY <1>1, SessionFields, UpAppend, WordIsMessage
<1>3. [Take[cur] EXCEPT !.up = Append(Take[cur].up, Msg(code))] \in Session(setting)
  BY <1>1, <1>2, SessionUpdate
<1>4. CASE sess[cur].srv = "exit"
  BY <1>1, <1>4 DEF Reply
<1>5. CASE sess[cur].srv # "exit"
  <2>1. Reply(code) = [Take EXCEPT ![cur] = [Take[cur] EXCEPT !.up = Append(Take[cur].up, Msg(code))]]
    BY <1>5 DEF Reply
  <2> QED
    BY <1>1, <1>3, <2>1
<1> QED
  BY <1>4, <1>5

-----------------------------------------------------------------------------
(* The client.                                                             *)

\* Faults are counted.
LEMMA FaultType ==
  ASSUME WorldType, UNCHANGED <<setting, daemon>>, NoFault \/ (\E kind \in AllFaults : Fault(kind))
  PROVE  WorldType'
<1>1. CASE NoFault
  BY <1>1 DEF WorldType, NoFault
<1>2. CASE \E kind \in AllFaults : Fault(kind)
  <2>1. faults' \in 0..MaxFaults
    BY <1>2, BoundsAssumption DEF WorldType, Fault
  <2> QED
    BY <2>1 DEF WorldType
<1> QED
  BY <1>1, <1>2

\* The next address, and the end of the rounds.
LEMMA TurnType ==
  ASSUME TypeInv, NEW left \in [Slots -> Session(setting)], Turn(left), UNCHANGED setting
  PROVE  /\ pc' \in {"connect", "exit"} /\ why' \in Reasons
         /\ at' \in 1..Addresses /\ try' \in 1..MaxTries /\ NetType'
<1>1. pc' \in {"connect", "exit"} /\ why' \in Reasons /\ at' \in 1..Addresses /\ try' \in 1..MaxTries
  BY BoundsAssumption DEF Turn, NextAddress, InList, TypeInv, ClientType, Reasons
<1>2. NetType'
  BY AllShutType DEF TypeInv, Turn, NetType
<1> QED
  BY <1>1, <1>2
LEMMA TurnKeeps ==
  ASSUME TypeInv, NEW left \in [Slots -> Session(setting)], Turn(left), UNCHANGED setting,
         UNCHANGED <<saved, protocol, cur, replay>>,
         told' \in BOOLEAN, attempts' \in [1..Addresses -> 0..MaxTries]
  PROVE  ClientType' /\ NetType' /\ HasSlot'
BY TurnType DEF TypeInv, ClientType, HasSlot, States
LEMMA ConnectFailsType ==
  ASSUME TypeInv, ConnectFails \/ ConnectLeaks, UNCHANGED setting
  PROVE  ClientType' /\ NetType' /\ HasSlot'
<1>1. told' \in BOOLEAN /\ attempts' \in [1..Addresses -> 0..MaxTries]
  BY DEF ConnectFails, ConnectLeaks, TypeInv, ClientType
<1>2. CASE ConnectFails
  BY <1>1, <1>2, ShutType, TurnKeeps DEF ConnectFails, TypeInv
<1>3. CASE ConnectLeaks
  BY <1>1, <1>3, TurnKeeps DEF ConnectLeaks, TypeInv, NetType
<1> QED
  BY <1>2, <1>3
LEMMA SetupFailsType ==
  ASSUME TypeInv, SetupFails, UNCHANGED setting
  PROVE  ClientType' /\ NetType' /\ HasSlot'
<1>1. NetType'
  BY ShutType DEF TypeInv, SetupFails, NetType
<1> QED
  BY <1>1 DEF SetupFails, TypeInv, ClientType, HasSlot, States
LEMMA ExitType ==
  ASSUME TypeInv, NEW reason \in Reasons, Exit(reason), told' \in BOOLEAN
  PROVE  ClientType' /\ HasSlot'
BY DEF TypeInv, Exit, ClientType, HasSlot, States
LEMMA GoType ==
  ASSUME TypeInv, NEW next \in States, Go(next), cur \in Slots
  PROVE  ClientType' /\ HasSlot' /\ NoFault
BY DEF TypeInv, Go, ClientType, HasSlot

\* A connection in the first free slot.
LEMMA SlotType == ASSUME \E s \in Slots : Usable(s) PROVE Slot \in Slots /\ Usable(Slot)
BY DEF Slot

\* A try is counted.
LEMMA CountType == ASSUME ClientType, Count PROVE attempts' \in [1..Addresses -> 0..MaxTries]
BY BoundsAssumption DEF ClientType, Count

\* A new connection, of a process in its first state.
LEMMA NewConnection ==
  ASSUME NetType, NEW s \in Slots, NEW r \in Session(setting)
  PROVE  [sess EXCEPT ![s] = r] \in [Slots -> Session(setting)]
BY DEF NetType
LEMMA NewProcess ==
  ASSUME NEW x
  PROVE  /\ [Free EXCEPT !.srv = "queued", !.open = TRUE] \in Session(x)
         /\ [Free EXCEPT !.srv = "start", !.open = TRUE, !.ids = "user"] \in Session(x)
BY FreeIsSession DEF Session, Processes

\* Connecting.
LEMMA ConnectingType == ASSUME TypeInv, Connecting PROVE TypeInv'
<1> USE DEF TypeInv
<1>1. CASE Connect
  <2>1. Slot \in Slots /\ attempts' \in [1..Addresses -> 0..MaxTries]
    BY <1>1, SlotType, CountType DEF Connect
  <2>2. sess' \in [Slots -> Session(setting)]
    BY <1>1, <2>1, NewConnection, NewProcess DEF Connect
  <2>3. ClientType' /\ HasSlot'
    BY <1>1, <2>1, BoundsAssumption DEF Connect, ClientType, HasSlot, Slots, States
  <2>4. WorldType'
    BY <1>1, FaultType DEF Connect
  <2> QED
    BY <1>1, <2>2, <2>3, <2>4 DEF Connect, NetType
<1>2. CASE StartSsh
  <2>1. Slot \in Slots /\ attempts' \in [1..Addresses -> 0..MaxTries]
    BY <1>2, SlotType, CountType DEF StartSsh
  <2>2. sess' \in [Slots -> Session(setting)]
    BY <1>2, <2>1, NewConnection, NewProcess DEF StartSsh
  <2>3. ClientType' /\ HasSlot'
    BY <1>2, <2>1, BoundsAssumption DEF StartSsh, ClientType, HasSlot, Slots, States
  <2>4. WorldType'
    BY <1>2, FaultType DEF StartSsh
  <2> QED
    BY <1>2, <2>2, <2>3, <2>4 DEF StartSsh, NetType
<1>3. CASE CannotConnect
  <2>1. attempts' \in [1..Addresses -> 0..MaxTries] /\ told' \in BOOLEAN
    BY <1>3, CountType DEF CannotConnect, ClientType
  <2>2. ClientType' /\ NetType' /\ HasSlot'
    BY <1>3, <2>1, TurnKeeps DEF CannotConnect, NetType
  <2>3. WorldType'
    BY <1>3, FaultType DEF CannotConnect, AllFaults
  <2> QED
    BY <2>2, <2>3
<1> QED
  BY <1>1, <1>2, <1>3 DEF Connecting

\* A step of the client that goes on with a message taken or sent.
LEMMA StepType ==
  ASSUME TypeInv, NEW next \in States, Go(next), cur \in Slots,
         sess' \in [Slots -> Session(setting)], UNCHANGED <<setting, daemon>>
  PROVE  TypeInv'
<1>1. ClientType' /\ HasSlot' /\ NoFault
  BY GoType
<1>2. WorldType'
  BY <1>1, FaultType DEF TypeInv
<1> QED
  BY <1>1, <1>2 DEF TypeInv, NetType

\* A step that ends a connection.
LEMMA LossType ==
  ASSUME TypeInv, ConnectFails \/ ConnectLeaks \/ SetupFails, UNCHANGED <<setting, daemon>>,
         NoFault \/ (\E kind \in AllFaults : Fault(kind))
  PROVE  TypeInv'
<1>1. ClientType' /\ NetType' /\ HasSlot'
  BY ConnectFailsType, SetupFailsType
<1>2. WorldType'
  BY FaultType DEF TypeInv
<1> QED
  BY <1>1, <1>2 DEF TypeInv

\* A step that ends the program.
LEMMA EndType ==
  ASSUME TypeInv, NEW reason \in Reasons, Exit(reason), told' \in BOOLEAN, sess' = AllShut,
         UNCHANGED <<setting, daemon>>, NoFault \/ (\E kind \in AllFaults : Fault(kind))
  PROVE  TypeInv'
<1>1. ClientType' /\ HasSlot'
  BY ExitType
<1>2. WorldType'
  BY FaultType DEF TypeInv
<1>3. NetType'
  BY AllShutType DEF TypeInv, NetType
<1> QED
  BY <1>1, <1>2, <1>3 DEF TypeInv

\* What cannot be read or written counts as a fault, or as none.
LEMMA CannotFault ==
  ASSUME CannotRead \/ CannotWrite PROVE NoFault \/ (\E kind \in AllFaults : Fault(kind))
BY DEF CannotRead, CannotWrite, AllFaults

\* The words the client sends.
LEMMA ClientWords ==
  /\ {"LOG", "CRYPT", "SERVER_STATUS", "IPADDR_OK", "PROT", "CLOSE_CONN"} \subseteq Code \ {"PROT_ANS"}
  /\ {"decision", "login", "proto", "status", "addrok", "version", "todo", "in"} \subseteq States
  /\ {"refused", "done", "versions"} \subseteq Reasons
BY DEF Code, States, Reasons

\* The login.
LEMMA PasswordType == ASSUME TypeInv, Password PROVE TypeInv'
<1> USE ClientWords
<1>0. ASSUME pc \in {"crypt", "decision", "login", "status"} PROVE cur \in Slots
  BY <1>0 DEF TypeInv, HasSlot
<1>1. CASE ReadCrypt
  <2>1. cur \in Slots /\ sess[cur].down # <<>>
    BY <1>0, <1>1 DEF ReadCrypt, Answer
  <2>2. Reply("LOG") \in [Slots -> Session(setting)] /\ Reply("CRYPT") \in [Slots -> Session(setting)]
    BY <2>1, ReplyType DEF TypeInv
  <2>3. CASE Go("login") /\ sess' = Reply("LOG")
    BY <1>1, <2>1, <2>2, <2>3, StepType DEF ReadCrypt
  <2>4. CASE Go("decision") /\ sess' = Reply("CRYPT")
    BY <1>1, <2>1, <2>2, <2>4, StepType DEF ReadCrypt
  <2>5. CASE (Fault("nomem") \/ CannotWrite) /\ ConnectFails
    BY <1>1, <2>5, LossType, CannotFault DEF ReadCrypt, AllFaults
  <2> QED
    BY <1>1, <2>3, <2>4, <2>5 DEF ReadCrypt
<1>2. CASE NoCrypt
  BY <1>2, LossType, CannotFault DEF NoCrypt
<1>3. CASE SendPlain
  <2>1. cur \in Slots /\ sess[cur].down # <<>>
    BY <1>0, <1>3 DEF SendPlain, Answer
  <2>2. Reply("LOG") \in [Slots -> Session(setting)]
    BY <2>1, ReplyType DEF TypeInv
  <2>3. CASE Go("login") /\ sess' = Reply("LOG")
    BY <1>3, <2>1, <2>2, <2>3, StepType DEF SendPlain
  <2>4. CASE CannotWrite /\ ConnectFails
    BY <1>3, <2>4, LossType, CannotFault DEF SendPlain
  <2> QED
    BY <1>3, <2>3, <2>4 DEF SendPlain
<1>4. CASE LoginRefused
  <2>1. CASE (NoFault \/ Fault("read")) /\ ConnectFails
    BY <1>4, <2>1, LossType DEF LoginRefused, AllFaults
  <2>2. CASE /\ NoFault \/ Fault("read")
             /\ told' = TRUE /\ Exit("refused") /\ sess' = AllShut
    BY <1>4, <2>2, EndType DEF LoginRefused, AllFaults
  <2>3. CASE Fault("nomem") /\ ConnectLeaks
    BY <1>4, <2>3, LossType DEF LoginRefused, AllFaults
  <2> QED
    BY <1>4, <2>1, <2>2, <2>3 DEF LoginRefused
<1>5. CASE NoLoginAnswer
  BY <1>5, LossType, CannotFault DEF NoLoginAnswer, AllFaults
<1>6. CASE LoginDone
  <2>1. cur \in Slots /\ sess[cur].down # <<>>
    BY <1>0, <1>6 DEF LoginDone, Answer
  <2>2. Take \in [Slots -> Session(setting)]
    BY <2>1, TakeType DEF TypeInv
  <2> QED
    BY <1>6, <2>1, <2>2, StepType DEF LoginDone
<1>7. CASE AskStatus
  <2>1. cur \in Slots /\ sess[cur].down # <<>>
    BY <1>0, <1>7 DEF AskStatus, Answer
  <2>2. Reply("SERVER_STATUS") \in [Slots -> Session(setting)]
    BY <2>1, ReplyType DEF TypeInv
  <2>3. CASE Go("status") /\ sess' = Reply("SERVER_STATUS")
    BY <1>7, <2>1, <2>2, <2>3, StepType DEF AskStatus
  <2>4. CASE (Fault("nomem") \/ CannotWrite) /\ ConnectFails
    BY <1>7, <2>4, LossType, CannotFault DEF AskStatus, AllFaults
  <2> QED
    BY <1>7, <2>3, <2>4 DEF AskStatus
<1>8. CASE StatusDone
  <2>1. CASE NoFault /\ Exit("done") /\ sess' = AllShut /\ UNCHANGED told
    <3>1. told' \in BOOLEAN
      BY <2>1 DEF TypeInv, ClientType
    <3> QED
      BY <1>8, <2>1, <3>1, EndType DEF StatusDone
  <2>2. CASE (CannotRead \/ (Answer("OK") /\ Fault("nomem"))) /\ ConnectFails
    BY <1>8, <2>2, LossType, CannotFault DEF StatusDone, AllFaults
  <2> QED
    BY <1>8, <2>1, <2>2 DEF StatusDone
<1> QED
  BY <1>1, <1>2, <1>3, <1>4, <1>5, <1>6, <1>7, <1>8 DEF Password

\* The two ways over ssh.
LEMMA SshType == ASSUME TypeInv, Ssh PROVE TypeInv'
<1> USE ClientWords
<1>0. ASSUME pc \in {"port", "addrok"} PROVE cur \in Slots
  BY <1>0 DEF TypeInv, HasSlot
<1>1. CASE NoPort
  BY <1>1, LossType, CannotFault DEF NoPort
<1>2. CASE TellAddress
  <2>1. cur \in Slots /\ sess[cur].down # <<>>
    BY <1>0, <1>2 DEF TellAddress, Answer
  <2>2. Reply("IPADDR_OK") \in [Slots -> Session(setting)]
    BY <2>1, ReplyType DEF TypeInv
  <2>3. CASE Go("proto") /\ sess' = Reply("IPADDR_OK")
    BY <1>2, <2>1, <2>2, <2>3, StepType DEF TellAddress
  <2>4. CASE (Fault("resource") \/ CannotWrite) /\ ConnectFails
    BY <1>2, <2>4, LossType, CannotFault DEF TellAddress, AllFaults
  <2> QED
    BY <1>2, <2>3, <2>4 DEF TellAddress
<1>3. CASE ConnectBack
  <2>1. cur \in Slots /\ sess[cur].down # <<>>
    BY <1>0, <1>3 DEF ConnectBack, Answer
  <2>2. Take \in [Slots -> Session(setting)]
    BY <2>1, TakeType DEF TypeInv
  <2>3. [Take[cur] EXCEPT !.tmp = "asked"] \in Session(setting)
    BY <2>1, <2>2, SessionUpdate DEF Answers
  <2>4. sess' = [Take EXCEPT ![cur] = [Take[cur] EXCEPT !.tmp = "asked"]]
    BY <1>3 DEF ConnectBack
  <2>5. sess' \in [Slots -> Session(setting)]
    BY <2>1, <2>2, <2>3, <2>4
  <2> QED
    BY <1>3, <2>1, <2>5, StepType DEF ConnectBack
<1>4. CASE CannotConnectBack
  BY <1>4, LossType DEF CannotConnectBack, AllFaults
<1>5. CASE AddressKnown
  <2>1. cur \in Slots /\ sess' \in [Slots -> Session(setting)]
    BY <1>0, <1>5 DEF AddressKnown, TypeInv, NetType
  <2> QED
    BY <1>5, <2>1, StepType DEF AddressKnown
<1>6. CASE AddressUnknown
  BY <1>6, LossType DEF AddressUnknown, AllFaults
<1> QED
  BY <1>1, <1>2, <1>3, <1>4, <1>5, <1>6 DEF Ssh

\* The highest version of both is one that both have.
LEMMA BestIsCommon ==
  ASSUME setting \in Settings, Compatible(setting.smin, setting.smax)
  PROVE  Best(setting.smin, setting.smax) \in Common(setting) \cap (2..3)
<1>1. /\ setting.cmin \in 2..3 /\ setting.cmax \in 2..3
      /\ setting.smin \in 1..3 /\ setting.smax \in 1..3
      /\ setting.cmin <= setting.cmax /\ setting.smin <= setting.smax
  BY SettingFields, VersionsAssumption
<1> QED
  BY <1>1 DEF Best, Compatible, Common

\* What the server says about its versions is true.
LEMMA VersionsRead ==
  ASSUME TypeInv, cur \in Slots, Answer("PROT_ANS")
  PROVE  /\ sess[cur].down # <<>>
         /\ Head(sess[cur].down).low = setting.smin /\ Head(sess[cur].down).high = setting.smax
<1>1. sess[cur].down \in Downs(setting) /\ sess[cur].down # <<>>
  BY SessionFields DEF TypeInv, NetType, Answer
<1>2. Head(sess[cur].down) \in Words \cup Versions(setting)
  BY <1>1 DEF Downs
<1> QED
  BY <1>1, <1>2 DEF Answer, Words, Versions

\* The version, and the set-up.
LEMMA VersionType == ASSUME TypeInv, Version PROVE TypeInv'
<1> USE ClientWords
<1>0. ASSUME pc \in {"proto", "version", "todo"} PROVE cur \in Slots
  BY <1>0 DEF TypeInv, HasSlot
<1>1. CASE SendProto
  <2>1. cur \in Slots
    BY <1>0, <1>1 DEF SendProto
  <2>2. Send("PROT") \in [Slots -> Session(setting)]
    BY <2>1, SendType DEF TypeInv
  <2>3. CASE Go("version") /\ sess' = Send("PROT")
    BY <1>1, <2>1, <2>2, <2>3, StepType DEF SendProto
  <2>4. CASE CannotWrite /\ SetupFails
    BY <1>1, <2>4, LossType, CannotFault DEF SendProto
  <2> QED
    BY <1>1, <2>3, <2>4 DEF SendProto
<1>2. CASE NoVersions
  BY <1>2, LossType DEF NoVersions, AllFaults
<1>3. CASE ProtoRefused
  <2>1. told' \in BOOLEAN
    BY <1>3 DEF ProtoRefused, TypeInv, ClientType
  <2> QED
    BY <1>3, <2>1, EndType DEF ProtoRefused
<1>4. CASE ChooseVersion
  <2> DEFINE low == Head(sess[cur].down).low
             high == Head(sess[cur].down).high
             version == Best(low, high)
             choice == [code |-> "PROT_ANS", version |-> version]
  <2>1. cur \in Slots /\ sess[cur].down # <<>> /\ low = setting.smin /\ high = setting.smax
    BY <1>0, <1>4, VersionsRead DEF ChooseVersion
  <2>2. CASE /\ ~Compatible(low, high) /\ NoFault
             /\ Exit("versions") /\ UNCHANGED told
             /\ sess' = [AllShut EXCEPT ![cur].up = IF sess[cur].srv = "exit" THEN @
                                                    ELSE Append(@, Msg("BAD_NO_RETRY"))]
    <3>1. AllShut \in [Slots -> Session(setting)] /\ AllShut[cur].up \in Ups(setting)
      BY <2>1, AllShutType, SessionFields DEF TypeInv
    <3>2. Append(AllShut[cur].up, Msg("BAD_NO_RETRY")) \in Ups(setting)
      BY <3>1, UpAppend, WordIsMessage DEF Code
    <3> DEFINE up == IF sess[cur].srv = "exit" THEN AllShut[cur].up
                     ELSE Append(AllShut[cur].up, Msg("BAD_NO_RETRY"))
    <3>3. [AllShut[cur] EXCEPT !.up = up] \in Session(setting)
      BY <2>1, <3>1, <3>2, SessionUpdate
    <3>4. sess' = [AllShut EXCEPT ![cur] = [AllShut[cur] EXCEPT !.up = up]]
      BY <2>2
    <3>5. NetType'
      <4> HIDE DEF up
      <4> QED
        BY <1>4, <2>1, <3>1, <3>3, <3>4 DEF NetType, ChooseVersion
    <3>6. told' \in BOOLEAN
      BY <2>2 DEF TypeInv, ClientType
    <3>7. ClientType' /\ HasSlot'
      BY <2>2, <3>6, ExitType
    <3>8. WorldType'
      BY <1>4, <2>2, FaultType DEF TypeInv, ChooseVersion
    <3> QED
      BY <3>5, <3>7, <3>8 DEF TypeInv
  <2>3. CASE /\ Compatible(low, high)
             /\ NoFault /\ protocol' = version /\ pc' = "todo"
             /\ sess' = IF sess[cur].srv = "exit" THEN Take
                        ELSE [Take EXCEPT ![cur].up = Append(@, choice)]
             /\ UNCHANGED <<try, at, saved, attempts, cur, replay, told, why>>
    <3>1. version \in Common(setting) \cap (2..3)
      BY <2>1, <2>3, BestIsCommon DEF TypeInv, WorldType
    <3>2. Take \in [Slots -> Session(setting)] /\ Take[cur].up \in Ups(setting)
      BY <2>1, TakeType, SessionFields DEF TypeInv
    <3> HIDE DEF version
    <3>3. choice \in Words \cup Choice(Common(setting))
      BY <3>1 DEF Choice
    <3> HIDE DEF choice
    <3>4. Append(Take[cur].up, choice) \in Ups(setting)
      BY <3>2, <3>3, UpAppend
    <3>5. [Take[cur] EXCEPT !.up = Append(Take[cur].up, choice)] \in Session(setting)
      BY <2>1, <3>2, <3>4, SessionUpdate
    <3>6. NetType'
      BY <1>4, <2>1, <2>3, <3>2, <3>5 DEF NetType, ChooseVersion
    <3>7. ClientType' /\ HasSlot'
      BY <2>1, <2>3, <3>1 DEF TypeInv, ClientType, HasSlot
    <3>8. WorldType'
      BY <1>4, <2>3, FaultType DEF TypeInv, ChooseVersion
    <3> QED
      BY <3>6, <3>7, <3>8 DEF TypeInv
  <2>4. CASE CannotWrite /\ SetupFails
    BY <1>4, <2>4, LossType, CannotFault DEF ChooseVersion
  <2> QED
    BY <1>4, <2>2, <2>3, <2>4 DEF ChooseVersion
<1>5. CASE SetUp
  <2>1. cur \in Slots
    BY <1>0, <1>5 DEF SetUp
  <2>2. CASE Go("in") /\ UNCHANGED sess
    BY <1>5, <2>1, <2>2, StepType DEF SetUp, TypeInv, NetType
  <2>3. CASE SetupFails
    BY <1>5, <2>3, LossType DEF SetUp, AllFaults, Go
  <2> QED
    BY <1>5, <2>2, <2>3 DEF SetUp
<1> QED
  BY <1>1, <1>2, <1>3, <1>4, <1>5 DEF Version

\* A connection in use is lost, or left.
LEMMA LoseType == ASSUME TypeInv, Lose PROVE TypeInv'
<1>1. ClientType' /\ HasSlot'
  BY BoundsAssumption DEF Lose, TypeInv, ClientType, HasSlot, States
<1>2. NetType'
  BY ShutType DEF Lose, TypeInv, NetType
<1>3. WorldType'
  BY FaultType DEF Lose, TypeInv, AllFaults
<1> QED
  BY <1>1, <1>2, <1>3 DEF TypeInv
LEMMA LeaveType == ASSUME TypeInv, Leave PROVE TypeInv'
<1> DEFINE up == IF sess[cur].srv = "exit" THEN AllShut[cur].up
                 ELSE Append(AllShut[cur].up, Msg("CLOSE_CONN"))
<1>1. cur \in Slots
  BY DEF Leave, TypeInv, HasSlot
<1>2. AllShut \in [Slots -> Session(setting)] /\ AllShut[cur].up \in Ups(setting)
  BY <1>1, AllShutType, SessionFields DEF TypeInv
<1>3. Append(AllShut[cur].up, Msg("CLOSE_CONN")) \in Ups(setting)
  BY <1>2, UpAppend, WordIsMessage, ClientWords
<1>4. [AllShut[cur] EXCEPT !.up = up] \in Session(setting)
  BY <1>1, <1>2, <1>3, SessionUpdate
<1>5. sess' = [AllShut EXCEPT ![cur] = [AllShut[cur] EXCEPT !.up = up]]
  BY DEF Leave
<1>6. NetType'
  <2> HIDE DEF up
  <2> QED
    BY <1>1, <1>2, <1>4, <1>5 DEF NetType, Leave
<1>7. ClientType' /\ HasSlot'
  BY ExitType, ClientWords DEF Leave, TypeInv, ClientType
<1>8. WorldType'
  BY FaultType DEF TypeInv, Leave
<1> QED
  BY <1>6, <1>7, <1>8 DEF TypeInv

-----------------------------------------------------------------------------
(* The server.                                                             *)

\* What a step of the server does to a connection: messages are taken from the front,
\* and commands are served only after the answer with the version was taken.
Chosen(q) == q.up # <<>> /\ Head(q.up).code = "PROT_ANS"
Becomes(s, r) ==
  /\ r \in Session(setting)
  /\ sess' = [sess EXCEPT ![s] = r]
  /\ \/ r.up = sess[s].up \/ r.up = <<>>
     \/ sess[s].up # <<>> /\ r.up = Tail(sess[s].up)
  /\ r.srv = "LOGGED" => \/ Chosen(sess[s]) /\ r.version = Head(sess[s].up).version
                         \/ sess[s].srv = "LOGGED" /\ r.version = sess[s].version
Move(s) == \E r : Becomes(s, r)

\* A message that is written may find nobody.
LEMMA ToldType ==
  ASSUME NetType, NEW s \in Slots, NEW m \in Words \cup Versions(setting)
  PROVE  Told(s, m) \in Downs(setting)
BY SessionFields, DownAppend DEF Told, NetType

\* A process that goes on, says something, or ends.
LEMMA StepMoves ==
  ASSUME NetType, NEW s \in Slots, NEW state \in Processes \ {"LOGGED"}, Step(s, state)
  PROVE  Move(s)
<1> DEFINE r == [sess[s] EXCEPT !.srv = state]
<1>0. sess[s] \in Session(setting)
  BY DEF NetType
<1>1. r \in Session(setting) /\ r.up = sess[s].up /\ r.srv # "LOGGED"
  BY <1>0 DEF Session
<1>2. sess' = [sess EXCEPT ![s] = r]
  BY DEF Step
<1> HIDE DEF r
<1> QED
  BY <1>1, <1>2 DEF Move, Becomes
LEMMA SayMoves ==
  ASSUME NetType, NEW s \in Slots, NEW state \in Processes \ {"LOGGED"},
         NEW m \in Words \cup Versions(setting), Say(s, state, m)
  PROVE  Move(s)
<1> DEFINE r == [sess[s] EXCEPT !.srv = state, !.down = Told(s, m)]
<1>1. r \in Session(setting) /\ r.up = sess[s].up /\ r.srv # "LOGGED"
  BY ToldType DEF NetType, Session
<1>2. sess' = [sess EXCEPT ![s] = r]
  BY DEF Say
<1> HIDE DEF r
<1> QED
  BY <1>1, <1>2 DEF Move, Becomes
LEMMA EndedSession ==
  ASSUME NEW x, NEW q \in Session(x), NEW d \in Downs(x), NEW t \in Answers
  PROVE  /\ [q EXCEPT !.srv = "exit", !.up = <<>>, !.tmp = t] \in Session(x)
         /\ [q EXCEPT !.srv = "exit", !.up = <<>>, !.down = d, !.tmp = t] \in Session(x)
BY NoMessages DEF Session, Processes
LEMMA EndsMoves == ASSUME NetType, NEW s \in Slots, Ends(s) PROVE Move(s)
<1> DEFINE t == IF sess[s].tmp = "none" THEN sess[s].tmp ELSE "gone"
           r == [sess[s] EXCEPT !.srv = "exit", !.up = <<>>, !.tmp = t]
<1>0. sess[s] \in Session(setting)
  BY DEF NetType
<1>1. /\ t \in Answers
      /\ r.up = <<>> /\ r.srv # "LOGGED"
  BY <1>0, SessionFields DEF Answers, Session
<1>2. sess' = [sess EXCEPT ![s] = r]
  BY DEF Ends
<1>3. <<>> \in Downs(setting)
  BY NoMessages
<1> HIDE DEF t
<1>4. r \in Session(setting)
  BY <1>0, <1>1, <1>3, EndedSession
<1> HIDE DEF r
<1> QED
  BY <1>1, <1>2, <1>4 DEF Move, Becomes
LEMMA SayAndEndMoves ==
  ASSUME NetType, NEW s \in Slots, NEW code \in Code \ {"PROT_ANS"}, SayAndEnd(s, code)
  PROVE  Move(s)
<1> DEFINE t == IF sess[s].tmp = "none" THEN sess[s].tmp ELSE "gone"
           d == Told(s, Msg(code))
           r == [sess[s] EXCEPT !.srv = "exit", !.up = <<>>, !.down = d, !.tmp = t]
<1>0. sess[s] \in Session(setting)
  BY DEF NetType
<1>1. /\ t \in Answers
      /\ r.up = <<>> /\ r.srv # "LOGGED"
  BY <1>0, SessionFields DEF Answers, Session
<1>2. sess' = [sess EXCEPT ![s] = r]
  BY DEF SayAndEnd
<1>3. d \in Downs(setting)
  BY ToldType, WordIsMessage
<1> HIDE DEF t, d
<1>4. r \in Session(setting)
  BY <1>0, <1>1, <1>3, EndedSession
<1> HIDE DEF r
<1> QED
  BY <1>1, <1>2, <1>4 DEF Move, Becomes

\* A message is taken, and a field or two are set.
LEMMA RestMoves ==
  ASSUME NetType, NEW s \in Slots, Has(s), NEW r \in Session(setting),
         sess' = [sess EXCEPT ![s] = r], r.up = Tail(sess[s].up),
         r.srv = "LOGGED" => \/ Next1(s) = "PROT_ANS" /\ r.version = Head(sess[s].up).version
                             \/ sess[s].srv = "LOGGED" /\ r.version = sess[s].version
  PROVE  Move(s)
BY DEF Move, Becomes, Has, Next1, Chosen
LEMMA RestIs ==
  ASSUME NetType, NEW s \in Slots, Has(s)
  PROVE  /\ Tail(sess[s].up) \in Ups(setting)
         /\ Rest(s) = [sess EXCEPT ![s] = [sess[s] EXCEPT !.up = Tail(sess[s].up)]]
BY SessionFields, UpTail DEF NetType, Has, Rest

\* The codes of the server.
LEMMA ServerWords ==
  /\ {"CRYPT", "OK", "BAD", "BAD_NO_RETRY", "IPADDR", "LOGGED_STDIN"} \subseteq Code \ {"PROT_ANS"}
  /\ {"new", "CONN", "address", "listen", "PROTWAIT", "PROT", "exit"} \subseteq Processes \ {"LOGGED"}
BY DEF Code, Processes

LEMMA SendCryptMoves == ASSUME TypeInv, NEW s \in Slots, SendCrypt(s) PROVE Move(s)
<1>1. Msg("CRYPT") \in Words \cup Versions(setting)
  BY ServerWords, WordIsMessage
<1> QED
  BY <1>1, ServerWords, SayMoves, EndsMoves DEF SendCrypt, TypeInv
LEMMA GiveUpMoves == ASSUME TypeInv, NEW s \in Slots, GiveUpWaiting(s) PROVE Move(s)
BY EndsMoves DEF GiveUpWaiting, TypeInv
LEMMA StatusMoves == ASSUME TypeInv, NEW s \in Slots, Status(s) PROVE Move(s)
BY ServerWords, SayAndEndMoves DEF Status, TypeInv
LEMMA LoginFailsMoves == ASSUME TypeInv, NEW s \in Slots, LoginFails(s) PROVE Move(s)
BY ServerWords, SayAndEndMoves DEF LoginFails, TypeInv
LEMMA AskAddressMoves == ASSUME TypeInv, NEW s \in Slots, AskAddress(s) PROVE Move(s)
<1>1. Msg("IPADDR") \in Words \cup Versions(setting)
  BY ServerWords, WordIsMessage
<1> QED
  BY <1>1, ServerWords, SayMoves, SayAndEndMoves DEF AskAddress, TypeInv
LEMMA NobodyMoves == ASSUME TypeInv, NEW s \in Slots, NobodyCallsBack(s) PROVE Move(s)
BY ServerWords, SayAndEndMoves DEF NobodyCallsBack, TypeInv
LEMMA ServeMoves == ASSUME TypeInv, NEW s \in Slots, Serve(s) PROVE Move(s)
BY EndsMoves DEF Serve, TypeInv

\* A login in the clear is refused, or allowed.
LEMMA PlainMoves == ASSUME TypeInv, NEW s \in Slots, PlainAccepted(s) PROVE Move(s)
<1>0. NetType /\ sess[s] \in Session(setting)
  BY DEF TypeInv, NetType
<1>1. CASE setting.force
  BY <1>0, <1>1, ServerWords, SayAndEndMoves DEF PlainAccepted
<1>2. CASE ~setting.force
  <2> DEFINE d == Told(s, Msg("OK"))
             r == [sess[s] EXCEPT !.up = Tail(sess[s].up), !.down = d]
  <2>1. d \in Downs(setting)
    BY <1>0, ServerWords, WordIsMessage, ToldType
  <2>2. Tail(sess[s].up) \in Ups(setting)
    BY <1>0, RestIs DEF PlainAccepted
  <2>3. sess' = [sess EXCEPT ![s] = r]
    BY <1>0, <1>2, RestIs DEF PlainAccepted
  <2>4. sess[s].srv = "CONN" /\ Has(s)
    BY DEF PlainAccepted
  <2> HIDE DEF d
  <2>5. r \in Session(setting) /\ r.up = Tail(sess[s].up) /\ r.srv # "LOGGED"
    BY <1>0, <2>1, <2>2, <2>4 DEF Session
  <2> HIDE DEF r
  <2> QED
    BY <1>0, <2>3, <2>4, <2>5, RestMoves
<1> QED
  BY <1>1, <1>2

\* The ids of the user are taken, or not.
LEMMA LoginMoves == ASSUME TypeInv, NEW s \in Slots, Login(s) PROVE Move(s)
<1>0. NetType /\ sess[s] \in Session(setting)
  BY DEF TypeInv, NetType
<1>1. CASE SayAndEnd(s, "BAD") \/ Ends(s)
  BY <1>0, <1>1, ServerWords, SayAndEndMoves, EndsMoves
<1>2. CASE sess' = [Rest(s) EXCEPT ![s].srv = "PROTWAIT", ![s].ids = "user",
                                   ![s].down = Told(s, Msg("OK"))]
  <2> DEFINE d == Told(s, Msg("OK"))
             r == [sess[s] EXCEPT !.up = Tail(sess[s].up), !.srv = "PROTWAIT", !.ids = "user",
                                  !.down = d]
  <2>1. d \in Downs(setting)
    BY <1>0, ServerWords, WordIsMessage, ToldType
  <2>2. Has(s) /\ Tail(sess[s].up) \in Ups(setting)
    BY <1>0, RestIs DEF Login
  <2>3. sess' = [sess EXCEPT ![s] = r]
    BY <1>0, <1>2, <2>2, RestIs
  <2> HIDE DEF d
  <2>5. r \in Session(setting) /\ r.up = Tail(sess[s].up) /\ r.srv # "LOGGED"
    BY <1>0, <2>1, <2>2 DEF Session, Processes
  <2> HIDE DEF r
  <2> QED
    BY <1>0, <2>2, <2>3, <2>5, RestMoves
<1> QED
  BY <1>1, <1>2 DEF Login

LEMMA GetAddressMoves == ASSUME TypeInv, NEW s \in Slots, GetAddress(s) PROVE Move(s)
<1>0. NetType /\ sess[s] \in Session(setting)
  BY DEF TypeInv, NetType
<1>1. CASE SayAndEnd(s, "BAD")
  BY <1>0, <1>1, ServerWords, SayAndEndMoves
<1>2. CASE Has(s) /\ sess' = [Rest(s) EXCEPT ![s].srv = "PROTWAIT"]
  <2> DEFINE r == [sess[s] EXCEPT !.up = Tail(sess[s].up), !.srv = "PROTWAIT"]
  <2>2. Tail(sess[s].up) \in Ups(setting)
    BY <1>0, <1>2, RestIs
  <2>3. sess' = [sess EXCEPT ![s] = r]
    BY <1>0, <1>2, RestIs
  <2>5. r \in Session(setting) /\ r.up = Tail(sess[s].up) /\ r.srv # "LOGGED"
    BY <1>0, <2>2 DEF Session, Processes
  <2> HIDE DEF r
  <2> QED
    BY <1>0, <1>2, <2>3, <2>5, RestMoves
<1> QED
  BY <1>1, <1>2 DEF GetAddress

\* The second connection of ssh.
LEMMA ListenMoves == ASSUME TypeInv, NEW s \in Slots, Listen(s) PROVE Move(s)
<1>0. NetType /\ sess[s] \in Session(setting)
  BY DEF TypeInv, NetType
<1>1. CASE SayAndEnd(s, "BAD")
  BY <1>0, <1>1, ServerWords, SayAndEndMoves
<1>2. CASE sess' = [sess EXCEPT ![s].srv = "listen", ![s].tmp = "listening",
                                ![s].down = Told(s, [code |-> "LOGGED_STDIN"])]
  <2> DEFINE d == Told(s, [code |-> "LOGGED_STDIN"])
             r == [sess[s] EXCEPT !.srv = "listen", !.tmp = "listening", !.down = d]
  <2>1. d \in Downs(setting)
    BY <1>0, ServerWords, WordIsMessage, ToldType
  <2>3. sess' = [sess EXCEPT ![s] = r]
    BY <1>2
  <2> HIDE DEF d
  <2>5. r \in Session(setting) /\ r.up = sess[s].up /\ r.srv # "LOGGED"
    BY <1>0, <2>1 DEF Session, Processes, Answers
  <2> HIDE DEF r
  <2> QED
    BY <2>3, <2>5 DEF Move, Becomes
<1> QED
  BY <1>1, <1>2 DEF Listen

LEMMA CalledBackMoves == ASSUME TypeInv, NEW s \in Slots, CalledBack(s) PROVE Move(s)
<1> DEFINE r == [sess[s] EXCEPT !.srv = "PROTWAIT", !.tmp = "ok"]
<1>0. sess[s] \in Session(setting)
  BY DEF TypeInv, NetType
<1>1. sess' = [sess EXCEPT ![s] = r]
  BY DEF CalledBack
<1>2. r \in Session(setting) /\ r.up = sess[s].up /\ r.srv # "LOGGED"
  BY <1>0 DEF Session, Processes, Answers
<1> HIDE DEF r
<1> QED
  BY <1>1, <1>2 DEF Move, Becomes

\* The versions are sent, and one is taken.
LEMMA SendVersionsMoves == ASSUME TypeInv, NEW s \in Slots, SendVersions(s) PROVE Move(s)
<1> DEFINE m == [code |-> "PROT_ANS", low |-> setting.smin, high |-> setting.smax]
           d == Told(s, m)
           r == [sess[s] EXCEPT !.up = Tail(sess[s].up), !.srv = "PROT", !.down = d]
<1>0. NetType /\ sess[s] \in Session(setting) /\ Has(s)
  BY DEF TypeInv, NetType, SendVersions
<1>1. m \in Versions(setting)
  BY DEF Versions
<1>2. d \in Downs(setting)
  BY <1>0, <1>1, ToldType
<1>3. Tail(sess[s].up) \in Ups(setting)
  BY <1>0, RestIs
<1>4. sess' = [sess EXCEPT ![s] = r]
  BY <1>0, RestIs DEF SendVersions
<1> HIDE DEF d
<1>5. r \in Session(setting) /\ r.up = Tail(sess[s].up) /\ r.srv # "LOGGED"
  BY <1>0, <1>2, <1>3 DEF Session, Processes
<1> HIDE DEF r
<1> QED
  BY <1>0, <1>4, <1>5, RestMoves

LEMMA GetVersionMoves == ASSUME TypeInv, NEW s \in Slots, GetVersion(s) PROVE Move(s)
<1> DEFINE m == Head(sess[s].up)
           r == [sess[s] EXCEPT !.up = Tail(sess[s].up), !.srv = "LOGGED", !.version = m.version]
<1>0. NetType /\ sess[s] \in Session(setting) /\ Has(s)
  BY DEF TypeInv, NetType, GetVersion
<1>1. CASE Ends(s)
  BY <1>0, <1>1, EndsMoves
<1>2. CASE /\ m.code = "PROT_ANS" /\ m.version \in {2, 3}
           /\ sess' = [Rest(s) EXCEPT ![s].srv = "LOGGED", ![s].version = m.version]
  <2>1. Tail(sess[s].up) \in Ups(setting)
    BY <1>0, RestIs
  <2>2. sess' = [sess EXCEPT ![s] = r]
    BY <1>0, <1>2, RestIs
  <2>3. r \in Session(setting) /\ r.up = Tail(sess[s].up) /\ r.version = m.version
    BY <1>0, <1>2, <2>1 DEF Session, Processes
  <2> HIDE DEF r
  <2> QED
    BY <1>0, <1>2, <2>2, <2>3, RestMoves DEF Next1
<1> QED
  BY <1>1, <1>2 DEF GetVersion

\* Every step of a process is such a move, and so are those of the daemon that touch
\* a connection.
LEMMA ProcessMoves ==
  ASSUME TypeInv, NEW s \in Slots, Process(s)
  PROVE  /\ Move(s) /\ UNCHANGED <<setting, clientVars, daemon>>
         /\ NoFault \/ (\E kind \in AllFaults : Fault(kind))
<1>1. Move(s)
  BY SendCryptMoves, GiveUpMoves, StatusMoves, PlainMoves, LoginMoves, LoginFailsMoves,
     AskAddressMoves, GetAddressMoves, ListenMoves, NobodyMoves, CalledBackMoves,
     SendVersionsMoves, GetVersionMoves, ServeMoves DEF Process
<1>2. UNCHANGED <<setting, clientVars, daemon>>
  BY DEF Process, SendCrypt, GiveUpWaiting, Status, PlainAccepted, Login, LoginFails, AskAddress,
         GetAddress, Listen, NobodyCallsBack, CalledBack, SendVersions, GetVersion, Serve,
         ServerFrame
<1>3. NoFault \/ (\E kind \in AllFaults : Fault(kind))
  BY DEF Process, SendCrypt, GiveUpWaiting, Silent, Status, PlainAccepted, Login, LoginFails, AskAddress,
         GetAddress, Listen, NobodyCallsBack, CalledBack, SendVersions, GetVersion, Serve,
         AllFaults
<1> QED
  BY <1>1, <1>2, <1>3
LEMMA DaemonMoves ==
  ASSUME TypeInv, Daemon
  PROVE  /\ (\E s \in Slots : Move(s)) \/ UNCHANGED sess
         /\ UNCHANGED <<setting, clientVars>> /\ WorldType'
<1>1. CASE Accept
  <2>1. PICK s \in Slots : sess' = [sess EXCEPT ![s].srv = "new", ![s].ids = "root"]
    BY <1>1 DEF Accept
  <2> DEFINE r == [sess[s] EXCEPT !.srv = "new", !.ids = "root"]
  <2>2. sess' = [sess EXCEPT ![s] = r]
    BY <2>1
  <2>3. sess[s] \in Session(setting)
    BY DEF TypeInv, NetType
  <2>4. r \in Session(setting) /\ r.up = sess[s].up /\ r.srv # "LOGGED"
    BY <2>3 DEF Session, Processes
  <2> HIDE DEF r
  <2>5. Move(s)
    BY <2>2, <2>4 DEF Move, Becomes
  <2>6. WorldType'
    BY <1>1 DEF Accept, NoFault, TypeInv, WorldType
  <2> QED
    BY <1>1, <2>5, <2>6 DEF Accept
<1>2. CASE ForkFails
  <2>1. PICK s \in Slots : Step(s, "exit")
    BY <1>2 DEF ForkFails, Step
  <2>2. Move(s)
    BY <2>1, StepMoves, ServerWords DEF TypeInv
  <2>3. WorldType'
    BY <1>2, BoundsAssumption DEF ForkFails, Fault, TypeInv, WorldType
  <2> QED
    BY <1>2, <2>2, <2>3 DEF ForkFails
<1>3. CASE StartDaemon \/ AcceptFails \/ Wake
  <2>1. WorldType'
    BY <1>3, BoundsAssumption DEF StartDaemon, AcceptFails, Wake, NoFault, Fault, TypeInv, WorldType
  <2> QED
    BY <1>3, <2>1 DEF StartDaemon, AcceptFails, Wake
<1> QED
  BY <1>1, <1>2, <1>3 DEF Daemon
LEMMA MoveType == ASSUME TypeInv, NEW s \in Slots, Move(s), UNCHANGED setting PROVE NetType'
BY DEF TypeInv, Move, Becomes, NetType

LEMMA TypeInit == Init => TypeInv
<1> SUFFICES ASSUME Init PROVE TypeInv
  OBVIOUS
<1>0. 1 \in 1..MaxTries /\ 1 \in 1..Addresses /\ 0 \in 0..MaxTries /\ 0 \in 0..MaxSessions
  BY BoundsAssumption
<1>1. ClientType
  <2>1. attempts \in [1..Addresses -> 0..MaxTries]
    BY <1>0 DEF Init
  <2>2. protocol \in 0..3
    BY DEF Init
  <2> QED
    BY <1>0, <2>1, <2>2 DEF Init, ClientType, States, Reasons
<1>2. WorldType
  BY BoundsAssumption DEF Init, WorldType
<1>3. NetType
  BY FreeIsSession DEF Init, NetType
<1>4. HasSlot
  BY DEF Init, HasSlot
<1> QED
  BY <1>1, <1>2, <1>3, <1>4 DEF TypeInv
LEMMA TypeNext == TypeInv /\ [Next]_vars => TypeInv'
<1> SUFFICES ASSUME TypeInv, [Next]_vars PROVE TypeInv'
  OBVIOUS
<1>1. CASE Client \/ Lose \/ Leave
  BY <1>1, ConnectingType, PasswordType, SshType, VersionType, LoseType, LeaveType DEF Client
<1>2. CASE Daemon
  <2>1. NetType'
    BY <1>2, DaemonMoves, MoveType DEF TypeInv, NetType
  <2>2. ClientType' /\ HasSlot' /\ WorldType'
    BY <1>2, DaemonMoves DEF TypeInv, ClientType, HasSlot, clientVars
  <2> QED
    BY <2>1, <2>2 DEF TypeInv
<1>3. CASE \E s \in Slots : Process(s)
  <2>1. PICK s \in Slots : Process(s)
    BY <1>3
  <2>2. NetType'
    BY <2>1, ProcessMoves, MoveType
  <2>3. WorldType'
    BY <2>1, ProcessMoves, FaultType DEF TypeInv
  <2>4. ClientType' /\ HasSlot'
    BY <2>1, ProcessMoves DEF TypeInv, ClientType, HasSlot, clientVars
  <2> QED
    BY <2>2, <2>3, <2>4 DEF TypeInv
<1>4. CASE UNCHANGED vars
  BY <1>4 DEF TypeInv, ClientType, WorldType, NetType, HasSlot, vars, clientVars, serverVars
<1> QED
  BY <1>1, <1>2, <1>3, <1>4 DEF Next, Over
LEMMA TypeAlways == Spec => []TypeInv
BY TypeInit, TypeNext, PTL DEF Spec

\* What the model checker asks of a connection's fields is part of their types.
LEMMA TypeImplied == TypeInv => TypeOK
<1> SUFFICES ASSUME TypeInv PROVE TypeOK
  OBVIOUS
<1>1. \A s \in Slots :
        /\ DOMAIN sess[s] = DOMAIN Free
        /\ \A i \in DOMAIN sess[s].up : sess[s].up[i].code \in Code
        /\ \A i \in DOMAIN sess[s].down : sess[s].down[i].code \in Code
  <2> SUFFICES ASSUME NEW s \in Slots
               PROVE  /\ DOMAIN sess[s] = DOMAIN Free
                      /\ \A i \in DOMAIN sess[s].up : sess[s].up[i].code \in Code
                      /\ \A i \in DOMAIN sess[s].down : sess[s].down[i].code \in Code
    OBVIOUS
  <2>1. sess[s] \in Session(setting) /\ sess[s].up \in Ups(setting) /\ sess[s].down \in Downs(setting)
    BY SessionFields DEF TypeInv, NetType
  <2>2. DOMAIN sess[s] = DOMAIN Free
    BY <2>1 DEF Session, Free
  <2>3. \A m \in Words \cup Choice(Common(setting)) \cup Versions(setting) : m.code \in Code
    BY DEF Words, Choice, Versions, Code
  <2>4. \A i \in DOMAIN sess[s].up : sess[s].up[i].code \in Code
    BY <2>1, <2>3 DEF Ups
  <2>5. \A i \in DOMAIN sess[s].down : sess[s].down[i].code \in Code
    BY <2>1, <2>3 DEF Downs
  <2> QED
    BY <2>2, <2>4, <2>5
<1>2. \A s \in Slots :
        /\ sess[s].srv \in Processes /\ sess[s].open \in BOOLEAN /\ sess[s].held \in BOOLEAN
        /\ sess[s].ids \in {"none", "root", "user"} /\ sess[s].version \in {0, 2, 3}
        /\ sess[s].tmp \in Answers
  BY SessionFields DEF TypeInv, NetType
<1>3. ClientType /\ WorldType
  BY DEF TypeInv
<1> QED
  BY <1>1, <1>2, <1>3 DEF TypeOK, ClientType, WorldType, States, Reasons, Processes, Answers

\* For every number of addresses, tries and slots, and all faults, the variables have
\* their types, and a slot holds a connection whenever the client talks to one.
THEOREM LoginTypeCorrect == Spec => []TypeOK
BY TypeAlways, TypeImplied, PTL

-----------------------------------------------------------------------------
(* The version both programs use.                                          *)

Asking == States \ {"connect", "exit", "todo", "in"}

\* Commands are served in a version both have: the server takes what it is told, ...
LoggedCommon == \A s \in Slots : sess[s].srv = "LOGGED" => sess[s].version \in Common(setting)

\* ... which is nothing before the client has chosen, ...
NotChosen == pc \in Asking => sess[cur].srv # "LOGGED" /\ sess[cur].up \in Seq(Words)

\* ... and its choice from then on.
ChosenOnce ==
  pc \in {"todo", "in"} =>
    /\ sess[cur].up \in Seq(Words \cup Choice({protocol}))
    /\ sess[cur].srv = "LOGGED" => sess[cur].version = protocol

AgreeInv == LoggedCommon /\ NotChosen /\ ChosenOnce

LEMMA AgreeImplied == TypeInv /\ AgreeInv => AgreedVersion
BY DEF AgreeInv, LoggedCommon, ChosenOnce, AgreedVersion, Common

LEMMA AgreeInit == Init => AgreeInv
BY DEF Init, AgreeInv, LoggedCommon, NotChosen, ChosenOnce, Asking, Free

\* Of a queue of words only words are left.
LEMMA QueueLeft ==
  ASSUME NEW T, NEW q \in Seq(T)
  PROVE  <<>> \in Seq(T) /\ (q # <<>> => Head(q) \in T /\ Tail(q) \in Seq(T))
OBVIOUS
LEMMA WordsLeft ==
  ASSUME NEW v, NEW q \in Seq(Words \cup Choice({v}))
  PROVE  /\ <<>> \in Seq(Words \cup Choice({v}))
         /\ q # <<>> => /\ Tail(q) \in Seq(Words \cup Choice({v}))
                        /\ Head(q).code = "PROT_ANS" => Head(q).version = v
<1>1. /\ <<>> \in Seq(Words \cup Choice({v}))
      /\ q # <<>> => Head(q) \in Words \cup Choice({v}) /\ Tail(q) \in Seq(Words \cup Choice({v}))
  BY QueueLeft
<1>2. \A m \in Words \cup Choice({v}) : m.code = "PROT_ANS" => m.version = v
  BY DEF Words, Choice
<1> QED
  BY <1>1, <1>2, Zenon
LEMMA OnlyWordsLeft ==
  ASSUME NEW q \in Seq(Words)
  PROVE  /\ <<>> \in Seq(Words)
         /\ q # <<>> => Tail(q) \in Seq(Words) /\ Head(q).code # "PROT_ANS"
<1>1. ASSUME q # <<>> PROVE Head(q) \in Words /\ Tail(q) \in Seq(Words)
  BY <1>1
<1> QED
  BY <1>1 DEF Words

\* A step of the server keeps it.
LEMMA MoveAgrees ==
  ASSUME TypeInv, AgreeInv, NEW s \in Slots, Move(s), UNCHANGED <<setting, clientVars>>
  PROVE  AgreeInv'
<1>1. PICK r : Becomes(s, r)
  BY DEF Move
<1>2. /\ sess' = [sess EXCEPT ![s] = r] /\ DOMAIN sess = Slots
      /\ sess[s] \in Session(setting) /\ sess[s].up \in Ups(setting)
  BY <1>1, SessionFields DEF Becomes, TypeInv, NetType
<1>3. sess'[s] = r /\ (\A t \in Slots \ {s} : sess'[t] = sess[t])
  BY <1>2
<1>4. UNCHANGED <<pc, cur, protocol, setting>>
  BY DEF clientVars
<1>5. LoggedCommon'
  <2>1. Chosen(sess[s]) => Head(sess[s].up).version \in Common(setting)
    <3>1. \A m \in Words \cup Choice(Common(setting)) :
            m.code = "PROT_ANS" => m.version \in Common(setting)
      BY DEF Words, Choice
    <3> QED
      BY <1>2, <3>1 DEF Chosen, Ups
  <2>2. r.srv = "LOGGED" => r.version \in Common(setting)
    BY <1>1, <2>1 DEF Becomes, AgreeInv, LoggedCommon
  <2> QED
    BY <1>3, <1>4, <2>2 DEF AgreeInv, LoggedCommon
<1>6. CASE s # cur
  BY <1>3, <1>4, <1>5, <1>6 DEF AgreeInv, NotChosen, ChosenOnce, TypeInv, HasSlot, Asking, States
<1>7. CASE s = cur
  <2>1. ASSUME pc \in Asking PROVE r.srv # "LOGGED" /\ r.up \in Seq(Words)
    <3>1. sess[s].up \in Seq(Words) /\ sess[s].srv # "LOGGED"
      BY <1>7, <2>1 DEF AgreeInv, NotChosen
    <3> QED
      BY <1>1, <3>1, OnlyWordsLeft DEF Becomes, Chosen
  <2>2. ASSUME pc \in {"todo", "in"}
        PROVE  /\ r.up \in Seq(Words \cup Choice({protocol}))
               /\ r.srv = "LOGGED" => r.version = protocol
    <3>1. /\ sess[s].up \in Seq(Words \cup Choice({protocol}))
          /\ sess[s].srv = "LOGGED" => sess[s].version = protocol
      BY <1>7, <2>2 DEF AgreeInv, ChosenOnce
    <3> QED
      BY <1>1, <3>1, WordsLeft DEF Becomes, Chosen
  <2> QED
    BY <1>3, <1>4, <1>5, <1>7, <2>1, <2>2 DEF AgreeInv, NotChosen, ChosenOnce
<1> QED
  BY <1>6, <1>7

\* What the client does to a connection never lets it serve commands.
Kept(new) ==
  \A s \in Slots :
    new[s].srv = "LOGGED" => sess[s].srv = "LOGGED" /\ new[s].version = sess[s].version
LEMMA KeptAgrees ==
  ASSUME TypeInv, LoggedCommon, Kept(sess'), UNCHANGED setting PROVE LoggedCommon'
BY DEF LoggedCommon, Kept
LEMMA ClosingKeeps == ASSUME NetType PROVE Kept(sess) /\ Kept(AllShut) /\ \A s : Kept(Shut(s))
<1>1. \A t \in Slots : sess[t] \in Session(setting)
  BY DEF NetType
<1>2. Kept(sess)
  BY DEF Kept
<1>3. Kept(AllShut)
  BY <1>1 DEF Kept, AllShut, Session
<1>4. ASSUME NEW s PROVE Kept(Shut(s))
  BY <1>1 DEF Kept, Shut, Session, NetType
<1> QED
  BY <1>2, <1>3, <1>4

\* A lost connection, or the end of the program.
LEMMA LossAgrees ==
  ASSUME TypeInv, LoggedCommon, ConnectFails \/ ConnectLeaks \/ SetupFails, UNCHANGED setting
  PROVE  AgreeInv'
<1>1. Kept(sess) /\ Kept(AllShut) /\ Kept(Shut(cur))
  BY ClosingKeeps DEF TypeInv
<1>2. Kept(sess') /\ pc' \in {"connect", "exit"}
  BY <1>1 DEF ConnectFails, ConnectLeaks, SetupFails, Turn, NextAddress
<1> QED
  BY <1>2, KeptAgrees DEF AgreeInv, NotChosen, ChosenOnce, Asking
LEMMA EndAgrees ==
  ASSUME TypeInv, LoggedCommon, Kept(sess'), pc' \in {"connect", "exit"}, UNCHANGED setting
  PROVE  AgreeInv'
BY KeptAgrees DEF AgreeInv, NotChosen, ChosenOnce, Asking

\* A step of the dialogue: nothing is sent, or a word.
Says(new) ==
  /\ Kept(new) /\ new[cur].srv = sess[cur].srv
  /\ \/ new[cur].up = sess[cur].up
     \/ \E m \in Words : new[cur].up = Append(sess[cur].up, m)
LEMMA TakeSays ==
  ASSUME NetType, cur \in Slots
  PROVE  /\ Says(sess) /\ Says(Take)
         /\ \A code \in Code \ {"PROT_ANS"} : Says(Send(code)) /\ Says(Reply(code))
<1>1. \A t \in Slots : sess[t] \in Session(setting)
  BY DEF NetType
<1>2. Kept(sess) /\ Says(sess)
  BY DEF Kept, Says
<1>3. Says(Take)
  BY <1>1 DEF Says, Kept, Take, Session, NetType
<1>4. ASSUME NEW code \in Code \ {"PROT_ANS"} PROVE Says(Send(code)) /\ Says(Reply(code))
  <2>1. Msg(code) \in Words
    BY DEF Msg, Words
  <2>2. CASE sess[cur].srv = "exit"
    BY <1>2, <1>3, <2>2 DEF Send, Reply
  <2>3. CASE sess[cur].srv # "exit"
    <3> DEFINE m == Msg(code)
               up == Append(sess[cur].up, m)
    <3>1. /\ Send(code) = [sess EXCEPT ![cur].up = up]
          /\ Reply(code) = [sess EXCEPT ![cur].down = Tail(@), ![cur].up = up]
      BY <1>1, <2>3 DEF Send, Reply, Take, NetType, Session
    <3> HIDE DEF m
    <3>2. \E w \in Words : up = Append(sess[cur].up, w)
      BY <2>1 DEF m
    <3> HIDE DEF up
    <3>3. Says([sess EXCEPT ![cur].up = up])
      BY <1>1, <3>2 DEF Says, Kept, NetType, Session
    <3>4. Says([sess EXCEPT ![cur].down = Tail(@), ![cur].up = up])
      BY <1>1, <3>2 DEF Says, Kept, NetType, Session
    <3> QED
      BY <3>1, <3>3, <3>4
  <2> QED
    BY <2>2, <2>3
<1> QED
  BY <1>2, <1>3, <1>4
LEMMA StepAgrees ==
  ASSUME TypeInv, AgreeInv, NEW next \in Asking, Go(next), pc \in Asking, Says(sess'),
         UNCHANGED setting
  PROVE  AgreeInv'
<1>1. pc' = next /\ cur' = cur
  BY DEF Go
<1>2. sess'[cur].srv # "LOGGED" /\ sess'[cur].up \in Seq(Words)
  <2>1. sess[cur].srv # "LOGGED" /\ sess[cur].up \in Seq(Words)
    BY DEF AgreeInv, NotChosen
  <2>2. \A m \in Words : Append(sess[cur].up, m) \in Seq(Words)
    BY <2>1
  <2> QED
    BY <2>1, <2>2 DEF Says
<1>3. LoggedCommon'
  BY KeptAgrees DEF AgreeInv, Says
<1> QED
  BY <1>1, <1>2, <1>3 DEF AgreeInv, NotChosen, ChosenOnce, Asking

\* A connection that is new has been told nothing.
LEMMA NewAgrees ==
  ASSUME TypeInv, AgreeInv, Connect \/ StartSsh
  PROVE  AgreeInv'
<1>1. Slot \in Slots /\ DOMAIN sess = Slots
  BY SlotType DEF Connect, StartSsh, TypeInv, NetType
<1>2. PICK r \in {[Free EXCEPT !.srv = "queued", !.open = TRUE],
                   [Free EXCEPT !.srv = "start", !.open = TRUE, !.ids = "user"]} :
        sess' = [sess EXCEPT ![Slot] = r]
  BY DEF Connect, StartSsh
<1>3. r.srv # "LOGGED" /\ r.up = <<>>
  BY <1>2 DEF Free
<1>4. cur' = Slot /\ pc' \in {"crypt", "port"} /\ setting' = setting
  BY DEF Connect, StartSsh
<1>5. sess'[Slot] = r /\ \A t \in Slots \ {Slot} : sess'[t] = sess[t]
  BY <1>1, <1>2
<1>6. Kept(sess')
  BY <1>3, <1>5 DEF Kept
<1>7. <<>> \in Seq(Words)
  OBVIOUS
<1> QED
  BY <1>3, <1>4, <1>5, <1>6, <1>7, KeptAgrees DEF AgreeInv, NotChosen, ChosenOnce, Asking

\* The choice of the client is the only one the server is told.
LEMMA ChooseAgrees == ASSUME TypeInv, AgreeInv, ChooseVersion PROVE AgreeInv'
<1> DEFINE low == Head(sess[cur].down).low
           high == Head(sess[cur].down).high
           version == Best(low, high)
           choice == [code |-> "PROT_ANS", version |-> version]
<1>0. LoggedCommon /\ NetType /\ cur \in Slots /\ pc = "version" /\ setting' = setting
  BY DEF AgreeInv, TypeInv, HasSlot, ChooseVersion
<1>1. CASE CannotWrite /\ SetupFails
  BY <1>0, <1>1, LossAgrees
<1>2. CASE /\ Exit("versions")
           /\ sess' = [AllShut EXCEPT ![cur].up = IF sess[cur].srv = "exit" THEN @
                                                  ELSE Append(@, Msg("BAD_NO_RETRY"))]
  <2>1. /\ \A t \in Slots : sess[t] \in Session(setting)
        /\ DOMAIN AllShut = Slots
        /\ \A t \in Slots : AllShut[t] \in Session(setting)
    BY <1>0, AllShutType DEF NetType
  <2>2. \A t \in Slots : sess'[t].srv = AllShut[t].srv /\ sess'[t].version = AllShut[t].version
    <3> DEFINE up == IF sess[cur].srv = "exit" THEN AllShut[cur].up
                     ELSE Append(AllShut[cur].up, Msg("BAD_NO_RETRY"))
    <3>1. sess' = [AllShut EXCEPT ![cur].up = up]
      BY <1>2
    <3> HIDE DEF up
    <3> QED
      BY <2>1, <3>1 DEF Session
  <2>3. Kept(sess')
    BY <1>0, <2>2, ClosingKeeps DEF Kept
  <2> QED
    BY <1>0, <1>2, <2>3, EndAgrees DEF Exit
<1>3. CASE /\ protocol' = version /\ pc' = "todo"
           /\ sess' = IF sess[cur].srv = "exit" THEN Take
                      ELSE [Take EXCEPT ![cur].up = Append(@, choice)]
           /\ UNCHANGED cur
  <2>1. Says(Take) /\ Take[cur].up = sess[cur].up /\ DOMAIN Take = Slots
    BY <1>0, TakeSays DEF Take, NetType, Session
  <2>2. sess[cur].up \in Seq(Words) /\ sess[cur].srv # "LOGGED"
    BY <1>0 DEF AgreeInv, NotChosen, Asking, States
  <2>3. choice \in Words \cup Choice({version})
    BY DEF Choice
  <2> HIDE DEF version
  <2>4. Take[cur].up \in Seq(Words \cup Choice({version}))
    BY <2>1, <2>2
  <2> HIDE DEF choice
  <2>5. Append(Take[cur].up, choice) \in Seq(Words \cup Choice({version}))
    BY <2>3, <2>4
  <2>6. CASE sess[cur].srv = "exit"
    <3>1. sess' = Take
      BY <1>3, <2>6
    <3>2. LoggedCommon'
      BY <1>0, <2>1, <3>1, KeptAgrees DEF Says
    <3>3. sess'[cur].up \in Seq(Words \cup Choice({version})) /\ sess'[cur].srv # "LOGGED"
      BY <2>1, <2>2, <2>4, <3>1 DEF Says
    <3> QED
      BY <1>3, <3>2, <3>3 DEF AgreeInv, NotChosen, ChosenOnce, Asking
  <2>7. CASE sess[cur].srv # "exit"
    <3> DEFINE up == Append(Take[cur].up, choice)
    <3>1. sess' = [Take EXCEPT ![cur].up = up]
      BY <1>3, <2>7
    <3>2. up \in Seq(Words \cup Choice({version}))
      BY <2>5
    <3> HIDE DEF up
    <3>3. \A t \in Slots : Take[t] \in Session(setting)
      BY <1>0, TakeType DEF ChooseVersion, Answer
    <3>4. \A t \in Slots : sess'[t].srv = Take[t].srv /\ sess'[t].version = Take[t].version
      BY <2>1, <3>1, <3>3 DEF Session
    <3>5. Kept(sess')
      BY <2>1, <3>4 DEF Says, Kept
    <3>6. sess'[cur].up = up /\ sess'[cur].srv # "LOGGED"
      <4>1. sess'[cur].up = up
        BY <1>0, <2>1, <3>1, <3>3 DEF Session
      <4> QED
        BY <1>0, <2>1, <2>2, <3>4, <4>1 DEF Says
    <3>7. LoggedCommon'
      BY <1>0, <3>5, KeptAgrees
    <3> QED
      BY <1>3, <3>2, <3>6, <3>7 DEF AgreeInv, NotChosen, ChosenOnce, Asking
  <2> QED
    BY <2>6, <2>7
<1> QED
  BY <1>1, <1>2, <1>3 DEF ChooseVersion

\* The steps of the client.
LEMMA ClientAgrees == ASSUME TypeInv, AgreeInv, Client \/ Lose \/ Leave PROVE AgreeInv'
<1> USE ClientWords
<1>0. LoggedCommon /\ NetType /\ setting' = setting
  BY DEF AgreeInv, TypeInv, Client, Connecting, Connect, CannotConnect, StartSsh, Password,
         ReadCrypt, NoCrypt, SendPlain, LoginRefused, NoLoginAnswer, LoginDone, AskStatus,
         StatusDone, Ssh, NoPort, TellAddress, ConnectBack, CannotConnectBack, AddressKnown,
         AddressUnknown, Version, SendProto, NoVersions, ProtoRefused, ChooseVersion, SetUp,
         Lose, Leave
<1>1. ASSUME pc \in Asking
      PROVE  /\ cur \in Slots /\ Says(sess) /\ Says(Take)
             /\ Says(Send("PROT")) /\ Says(Reply("LOG")) /\ Says(Reply("CRYPT"))
             /\ Says(Reply("SERVER_STATUS")) /\ Says(Reply("IPADDR_OK"))
  <2>1. cur \in Slots
    BY <1>1 DEF TypeInv, HasSlot, Asking
  <2> QED
    BY <1>0, <2>1, TakeSays
<1>2. {"decision", "login", "proto", "status", "addrok", "version", "crypt", "port"} \subseteq Asking
  BY DEF Asking, States
<1>3. CASE Connecting
  <2>1. CASE CannotConnect
    <3>1. Kept(sess') /\ pc' \in {"connect", "exit"}
      BY <1>0, <2>1, ClosingKeeps DEF CannotConnect, Turn, NextAddress
    <3> QED
      BY <1>0, <3>1, EndAgrees
  <2> QED
    BY <1>3, <2>1, NewAgrees DEF Connecting
<1>4. CASE ReadCrypt
  BY <1>0, <1>1, <1>2, <1>4, StepAgrees, LossAgrees DEF ReadCrypt
<1>5. CASE NoCrypt \/ NoLoginAnswer \/ NoPort \/ CannotConnectBack \/ AddressUnknown \/ NoVersions
  BY <1>0, <1>5, LossAgrees
     DEF NoCrypt, NoLoginAnswer, NoPort, CannotConnectBack, AddressUnknown, NoVersions
<1>6. CASE SendPlain
  BY <1>0, <1>1, <1>2, <1>6, StepAgrees, LossAgrees DEF SendPlain
<1>7. CASE LoginRefused
  <2>1. ASSUME Exit("refused"), sess' = AllShut PROVE AgreeInv'
    BY <1>0, <2>1, ClosingKeeps, EndAgrees DEF Exit
  <2> QED
    BY <1>0, <1>7, <2>1, LossAgrees DEF LoginRefused
<1>8. CASE LoginDone
  BY <1>0, <1>1, <1>2, <1>8, StepAgrees DEF LoginDone
<1>9. CASE AskStatus
  BY <1>0, <1>1, <1>2, <1>9, StepAgrees, LossAgrees DEF AskStatus
<1>10. CASE StatusDone
  <2>1. ASSUME Exit("done"), sess' = AllShut PROVE AgreeInv'
    BY <1>0, <2>1, ClosingKeeps, EndAgrees DEF Exit
  <2> QED
    BY <1>0, <1>10, <2>1, LossAgrees DEF StatusDone
<1>11. CASE TellAddress
  BY <1>0, <1>1, <1>2, <1>11, StepAgrees, LossAgrees DEF TellAddress
<1>12. CASE ConnectBack
  <2>1. pc \in Asking /\ sess' = [Take EXCEPT ![cur].tmp = "asked"]
    BY <1>2, <1>12 DEF ConnectBack
  <2>2. cur \in Slots /\ Says(Take) /\ Take \in [Slots -> Session(setting)]
    BY <1>0, <1>1, <1>12, <2>1, TakeType DEF ConnectBack, Answer
  <2>3. \A t \in Slots : sess'[t].srv = Take[t].srv /\ sess'[t].version = Take[t].version
                         /\ sess'[t].up = Take[t].up
    BY <2>1, <2>2 DEF Session
  <2>4. Says(sess')
    BY <2>2, <2>3 DEF Says, Kept
  <2> QED
    BY <1>0, <1>2, <1>12, <2>1, <2>4, StepAgrees DEF ConnectBack
<1>13. CASE AddressKnown
  BY <1>0, <1>1, <1>2, <1>13, StepAgrees DEF AddressKnown
<1>14. CASE SendProto
  BY <1>0, <1>1, <1>2, <1>14, StepAgrees, LossAgrees DEF SendProto
<1>15. CASE ProtoRefused
  BY <1>0, <1>15, ClosingKeeps, EndAgrees DEF ProtoRefused, Exit
<1>16. CASE ChooseVersion
  BY <1>16, ChooseAgrees
<1>17. CASE SetUp
  <2>1. CASE Go("in") /\ UNCHANGED sess
    BY <1>0, <1>17, <2>1 DEF SetUp, Go, AgreeInv, LoggedCommon, NotChosen, ChosenOnce, Asking
  <2> QED
    BY <1>0, <1>17, <2>1, LossAgrees DEF SetUp
<1>18. CASE Lose
  BY <1>0, <1>18, ClosingKeeps, EndAgrees DEF Lose
<1>19. CASE Leave
  <2> DEFINE up == IF sess[cur].srv = "exit" THEN AllShut[cur].up
                   ELSE Append(AllShut[cur].up, Msg("CLOSE_CONN"))
  <2>1. sess' = [AllShut EXCEPT ![cur].up = up]
    BY <1>19 DEF Leave
  <2>2. DOMAIN AllShut = Slots /\ \A t \in Slots : AllShut[t] \in Session(setting)
    BY <1>0, AllShutType
  <2> HIDE DEF up
  <2>3. \A t \in Slots : sess'[t].srv = AllShut[t].srv /\ sess'[t].version = AllShut[t].version
    BY <2>1, <2>2 DEF Session
  <2>4. Kept(sess')
    BY <1>0, <2>3, ClosingKeeps DEF Kept
  <2> QED
    BY <1>0, <1>19, <2>4, EndAgrees DEF Leave, Exit
<1> QED
  BY <1>3, <1>4, <1>5, <1>6, <1>7, <1>8, <1>9, <1>10, <1>11, <1>12, <1>13, <1>14, <1>15, <1>16,
     <1>17, <1>18, <1>19 DEF Client, Password, Ssh, Version

LEMMA AgreeNext == TypeInv /\ AgreeInv /\ [Next]_vars => AgreeInv'
<1> SUFFICES ASSUME TypeInv, AgreeInv, [Next]_vars PROVE AgreeInv'
  OBVIOUS
<1>1. CASE Client \/ Lose \/ Leave
  BY <1>1, ClientAgrees
<1>2. CASE UNCHANGED <<setting, clientVars, sess>>
  BY <1>2 DEF AgreeInv, LoggedCommon, NotChosen, ChosenOnce, clientVars
<1>3. CASE Daemon
  BY <1>2, <1>3, DaemonMoves, MoveAgrees
<1>4. CASE \E s \in Slots : Process(s)
  BY <1>4, ProcessMoves, MoveAgrees
<1>5. CASE UNCHANGED vars
  BY <1>2, <1>5 DEF vars, serverVars
<1> QED
  BY <1>1, <1>3, <1>4, <1>5 DEF Next, Over

\* A session serves commands in a version that both programs have, and the client uses
\* the same, over every loss of the connection and every session that is left over.
THEOREM AgreedVersionHolds == Spec => []AgreedVersion
<1>1. Spec => [](TypeInv /\ AgreeInv)
  BY TypeInit, TypeNext, AgreeInit, AgreeNext, PTL DEF Spec
<1> QED
  BY <1>1, AgreeImplied, PTL

-----------------------------------------------------------------------------
(* A refusal for good.                                                     *)

ToldEnds == told => pc = "exit"

LEMMA ToldNext == ToldEnds /\ [Next]_vars => ToldEnds'
<1> SUFFICES ASSUME ToldEnds, [Next]_vars PROVE ToldEnds'
  OBVIOUS
<1>1. CASE UNCHANGED <<pc, told>>
  BY <1>1 DEF ToldEnds
<1>2. CASE Client
  BY <1>2 DEF ToldEnds, Client, Connecting, Connect, CannotConnect, StartSsh, Password,
         ReadCrypt, NoCrypt, SendPlain, LoginRefused, NoLoginAnswer, LoginDone, AskStatus,
         StatusDone, Ssh, NoPort, TellAddress, ConnectBack, CannotConnectBack, AddressKnown,
         AddressUnknown, Version, SendProto, NoVersions, ProtoRefused, ChooseVersion, SetUp,
         ConnectFails, ConnectLeaks, SetupFails, Go, Exit
<1>3. CASE Lose \/ Leave
  BY <1>3 DEF ToldEnds, Lose, Leave, Exit
<1>4. CASE Daemon
  BY <1>1, <1>4 DEF Daemon, StartDaemon, Accept, AcceptFails, ForkFails, Wake, clientVars
<1>5. CASE \E s \in Slots : Process(s)
  BY <1>1, <1>5 DEF Process, SendCrypt, GiveUpWaiting, Status, PlainAccepted, Login, LoginFails,
         AskAddress, GetAddress, Listen, NobodyCallsBack, CalledBack, SendVersions, GetVersion,
         Serve, ServerFrame, clientVars
<1>6. CASE UNCHANGED vars
  BY <1>1, <1>6 DEF vars, clientVars
<1> QED
  BY <1>2, <1>3, <1>4, <1>5, <1>6 DEF Next, Over

\* Once a refusal for good was taken the program only ends, and so no connection is
\* tried again with the same password.
THEOREM RefusedForGoodHolds == Spec => RefusedForGood
<1>1. Init => ToldEnds
  BY DEF Init, ToldEnds
<1>2. ToldEnds /\ [Next]_vars => [told => UNCHANGED attempts]_vars
  <2> SUFFICES ASSUME ToldEnds, told, Next PROVE UNCHANGED attempts
    BY DEF vars
  <2>0. pc = "exit"
    BY DEF ToldEnds
  <2>1. CASE Client \/ Lose \/ Leave
    BY <2>0, <2>1 DEF Client, Connecting, Connect, CannotConnect, StartSsh, Password,
         ReadCrypt, NoCrypt, SendPlain, LoginRefused, NoLoginAnswer, LoginDone, AskStatus,
         StatusDone, Ssh, NoPort, TellAddress, ConnectBack, CannotConnectBack, AddressKnown,
         AddressUnknown, Version, SendProto, NoVersions, ProtoRefused, ChooseVersion, SetUp,
         Lose, Leave
  <2>2. CASE Daemon
    BY <2>2 DEF Daemon, StartDaemon, Accept, AcceptFails, ForkFails, Wake, clientVars
  <2>3. CASE \E s \in Slots : Process(s)
    BY <2>3 DEF Process, SendCrypt, GiveUpWaiting, Status, PlainAccepted, Login, LoginFails,
         AskAddress, GetAddress, Listen, NobodyCallsBack, CalledBack, SendVersions, GetVersion,
         Serve, ServerFrame, clientVars
  <2>4. CASE Over
    BY <2>4 DEF Over, vars, clientVars
  <2> QED
    BY <2>1, <2>2, <2>3, <2>4 DEF Next
<1> QED
  BY <1>1, <1>2, ToldNext, PTL DEF Spec, RefusedForGood

-----------------------------------------------------------------------------
(* When nothing goes wrong.  The whole dialogue is in the invariant: at    *)
(* every state of the client what its process is doing and what is on its  *)
(* way between them, for the password, for ssh and for bbftpstatus.        *)

\* Nothing stands in the way: an address answers, the login is acceptable, and the two
\* programs have a version in common.
Able == /\ IF setting.via = "status" THEN 1 \in setting.alive
           ELSE setting.alive # {} \/ (setting.via = "ssh" /\ setting.ask)
        /\ Acceptable
        /\ setting.via # "status" => SomeVersion

\* Where the process is, and what is on its way to it and back.
At(srv, up, down) == sess[cur].srv = srv /\ sess[cur].up = up /\ sess[cur].down = down
Offer == [code |-> "PROT_ANS", low |-> setting.smin, high |-> setting.smax]

\* The dialogue as it goes when nothing fails, state by state of the client.
AtCrypt == /\ setting.via # "ssh"
           /\ At("queued", <<>>, <<>>) \/ At("new", <<>>, <<>>) \/ At("CONN", <<>>, <<Msg("CRYPT")>>)
AtDecision == /\ setting.via = "password" /\ ~setting.ssl
              /\ At("CONN", <<Msg("CRYPT")>>, <<>>) \/ At("CONN", <<>>, <<Msg("OK")>>)
AtLogin == /\ setting.via = "password"
           /\ At("CONN", <<Msg("LOG")>>, <<>>) \/ At("PROTWAIT", <<>>, <<Msg("OK")>>)
AtStatus == /\ setting.via = "status"
            /\ At("CONN", <<Msg("SERVER_STATUS")>>, <<>>) \/ At("exit", <<>>, <<Msg("OK")>>)
AtPort == /\ setting.via = "ssh"
          /\ \/ At("start", <<>>, <<>>)
             \/ setting.ask /\ At("address", <<>>, <<Msg("IPADDR")>>)
             \/ /\ ~setting.ask /\ At("listen", <<>>, <<Msg("LOGGED_STDIN")>>)
                /\ sess[cur].tmp = "listening"
AtAddrok == /\ setting.via = "ssh"
            /\ \/ At("listen", <<>>, <<>>) /\ sess[cur].tmp = "asked"
               \/ At("PROTWAIT", <<>>, <<>>) /\ sess[cur].tmp = "ok"
AtProto == At("PROTWAIT", <<>>, <<>>) \/ At("address", <<Msg("IPADDR_OK")>>, <<>>)
AtVersion == \/ At("PROTWAIT", <<Msg("PROT")>>, <<>>)
             \/ At("address", <<Msg("IPADDR_OK"), Msg("PROT")>>, <<>>)
             \/ At("PROT", <<>>, <<Offer>>)
AtWork == \/ \E v \in {2, 3} : At("PROT", <<[code |-> "PROT_ANS", version |-> v]>>, <<>>)
          \/ At("LOGGED", <<>>, <<>>)
Dialogue ==
  /\ pc \notin {"connect", "exit"} => sess[cur].open
  /\ pc = "crypt" => AtCrypt
  /\ pc = "decision" => AtDecision
  /\ pc = "login" => AtLogin
  /\ pc = "status" => AtStatus
  /\ pc = "port" => AtPort
  /\ pc = "addrok" => AtAddrok
  /\ pc = "proto" => AtProto
  /\ pc = "version" => AtVersion
  /\ pc \in {"todo", "in"} => AtWork
  /\ pc \in {"proto", "version", "todo", "in"} => setting.via # "status"

\* A client that has no obstacle meets no failure: it passes over the addresses that do
\* not answer, and leaves when it is done.
Smooth ==
  /\ replay = "nothing" /\ saved = 1
  /\ daemon \in {"starting", "serving"} \/ setting.via = "ssh"
  /\ setting.via = "status" => at = 1
  /\ \A a \in 1..Addresses : a < at => a \notin setting.alive
  /\ pc = "exit" => why = "done"
  /\ Dialogue
Straight == faults = 0 /\ Able => Smooth

LEMMA QueueFacts ==
  \A m : Tail(<<m>>) = <<>> /\ Head(<<m>>) = m /\ <<m>> # <<>> /\ Append(<<>>, m) = <<m>>
OBVIOUS
LEMMA PairFacts ==
  ASSUME NEW m, NEW n
  PROVE  /\ Append(<<m>>, n) = <<m, n>> /\ Head(<<m, n>>) = m
         /\ Tail(<<m, n>>) = <<n>> /\ <<m, n>> # <<>>
<1> DEFINE q == Append(<<m>>, n)
           p == <<m, n>>
           S == {m, n}
<1>1. q = p
  <2>1. <<m>> \in Seq(S) /\ p \in Seq(S) /\ n \in S
    OBVIOUS
  <2>2. /\ Len(<<m>>) = 1 /\ <<m>>[1] = m
        /\ Len(p) = 2 /\ p[1] = m /\ p[2] = n
    OBVIOUS
  <2> HIDE DEF S, p
  <2>3. /\ q \in Seq(S) /\ Len(q) = 2 /\ q[1] = m /\ q[2] = n
    BY <2>1, <2>2, AppendProperties
  <2> HIDE DEF q
  <2>4. \A i \in 1..Len(q) : q[i] = p[i]
    BY <2>2, <2>3
  <2> QED
    BY <2>1, <2>2, <2>3, <2>4, SeqEqual
<1>2. Head(<<m, n>>) = m /\ <<m, n>> # <<>>
  OBVIOUS
<1>3. Tail(<<m, n>>) = <<n>>
  OBVIOUS
<1> QED
  BY <1>1, <1>2, <1>3

LEMMA FaultCounts == ASSUME faults = 0, faults' = 0 PROVE \A kind : ~Fault(kind)
BY DEF Fault

\* The connection of the client.
LEMMA CurIs ==
  ASSUME TypeInv, pc \notin {"connect", "exit"}
  PROVE  cur \in Slots /\ NetType /\ sess[cur] \in Session(setting)
BY DEF TypeInv, HasSlot, NetType

LEMMA TakeFields ==
  ASSUME NetType, cur \in Slots
  PROVE  /\ Take[cur].down = Tail(sess[cur].down) /\ Take[cur].up = sess[cur].up
         /\ Take[cur].srv = sess[cur].srv /\ Take[cur].tmp = sess[cur].tmp
         /\ Take[cur].open = sess[cur].open
BY DEF NetType, Take, Session
LEMMA SendFields ==
  ASSUME NetType, cur \in Slots, sess[cur].srv # "exit", NEW code
  PROVE  /\ Send(code)[cur].down = sess[cur].down
         /\ Send(code)[cur].up = Append(sess[cur].up, Msg(code))
         /\ Send(code)[cur].srv = sess[cur].srv /\ Send(code)[cur].tmp = sess[cur].tmp
         /\ Send(code)[cur].open = sess[cur].open
BY DEF NetType, Send, Session
LEMMA ReplyFields ==
  ASSUME NetType, cur \in Slots, sess[cur].srv # "exit", sess[cur].down # <<>>, NEW code
  PROVE  /\ Reply(code)[cur].down = Tail(sess[cur].down)
         /\ Reply(code)[cur].up = Append(sess[cur].up, Msg(code))
         /\ Reply(code)[cur].srv = sess[cur].srv /\ Reply(code)[cur].tmp = sess[cur].tmp
         /\ Reply(code)[cur].open = sess[cur].open
<1>1. Take \in [Slots -> Session(setting)]
  BY TakeType
<1>2. Reply(code) = [Take EXCEPT ![cur].up = Append(Take[cur].up, Msg(code))]
  BY DEF Reply
<1>3. /\ Reply(code)[cur].up = Append(Take[cur].up, Msg(code)) /\ Reply(code)[cur].down = Take[cur].down
      /\ Reply(code)[cur].srv = Take[cur].srv /\ Reply(code)[cur].tmp = Take[cur].tmp
      /\ Reply(code)[cur].open = Take[cur].open
  BY <1>1, <1>2 DEF Session
<1> QED
  BY <1>3, TakeFields

\* A step of the client that goes on with the dialogue.
LEMMA GoesOn ==
  ASSUME Smooth, NEW next \in States \ {"connect", "exit"}, Go(next), UNCHANGED <<setting, daemon>>,
         Dialogue'
  PROVE  Smooth'
BY DEF Smooth, Go

\* An address that does not answer is passed over: there is another one behind it.
LEMMA AddressPassed ==
  ASSUME TypeInv, Smooth, Able, at \notin setting.alive, setting.via # "ssh" \/ ~setting.ask,
         pc # "exit", NEW left, Turn(left), UNCHANGED <<setting, daemon, saved, replay>>
  PROVE  Smooth'
<1>1. setting.via # "status" /\ setting.alive # {} /\ setting.alive \subseteq 1..Addresses
  BY SettingFields DEF Able, Smooth, TypeInv, WorldType
<1>2. at \in 1..Addresses /\ \A a \in 1..Addresses : a < at + 1 => a \notin setting.alive
  BY DEF Smooth, TypeInv, ClientType
<1>3. InList(at + 1)
  BY <1>1, <1>2, BoundsAssumption DEF InList
<1>4. at' = at + 1 /\ pc' = "connect"
  BY <1>1, <1>3 DEF Turn, NextAddress
<1>5. Dialogue'
  BY <1>4 DEF Dialogue
<1> QED
  BY <1>1, <1>2, <1>4, <1>5 DEF Smooth

LEMMA ConnectingSmooth ==
  ASSUME TypeInv, Smooth, Able, \A kind : ~Fault(kind), Connecting
  PROVE  Smooth'
<1>1. CASE Connect
  <2>1. Slot \in Slots
    BY <1>1, SlotType DEF Connect
  <2>2. /\ sess'[Slot] = [Free EXCEPT !.srv = "queued", !.open = TRUE]
        /\ cur' = Slot /\ pc' = "crypt" /\ setting.via # "ssh"
        /\ UNCHANGED <<setting, at, saved, replay, why, daemon>>
    BY <1>1, <2>1 DEF Connect, TypeInv, NetType
  <2>3. sess'[cur'].open /\ At("queued", <<>>, <<>>)'
    BY <2>2 DEF At, Free
  <2>4. Dialogue'
    BY <2>2, <2>3 DEF Dialogue, AtCrypt
  <2> QED
    BY <2>2, <2>4 DEF Smooth
<1>2. CASE StartSsh
  <2>1. Slot \in Slots
    BY <1>2, SlotType DEF StartSsh
  <2>2. /\ sess'[Slot] = [Free EXCEPT !.srv = "start", !.open = TRUE, !.ids = "user"]
        /\ cur' = Slot /\ pc' = "port" /\ setting.via = "ssh"
        /\ UNCHANGED <<setting, at, saved, replay, why, daemon>>
    BY <1>2, <2>1 DEF StartSsh, TypeInv, NetType
  <2>3. sess'[cur'].open /\ At("start", <<>>, <<>>)'
    BY <2>2 DEF At, Free
  <2>4. Dialogue'
    BY <2>2, <2>3 DEF Dialogue, AtPort
  <2> QED
    BY <2>2, <2>4 DEF Smooth
<1>3. CASE CannotConnect
  <2>1. /\ setting.via # "ssh" /\ (at \notin setting.alive \/ daemon = "stopped")
        /\ pc = "connect" /\ Turn(sess) /\ UNCHANGED <<setting, daemon, saved, replay>>
    BY <1>3 DEF CannotConnect
  <2>2. daemon # "stopped"
    BY <2>1 DEF Smooth
  <2> QED
    BY <2>1, <2>2, AddressPassed
<1> QED
  BY <1>1, <1>2, <1>3 DEF Connecting

\* Between two messages nothing can be read or written in vain.
LEMMA NoLoss ==
  ASSUME \A kind : ~Fault(kind), sess[cur].srv # "exit"
  PROVE  ~CannotRead /\ ~CannotWrite /\ ~Eof(cur)
BY DEF CannotRead, CannotWrite, Eof

LEMMA PasswordSmooth ==
  ASSUME TypeInv, Smooth, Able, \A kind : ~Fault(kind), Password
  PROVE  Smooth'
<1>0. pc \in {"crypt", "decision", "login", "status"}
  BY DEF Password, ReadCrypt, NoCrypt, SendPlain, LoginRefused, NoLoginAnswer, LoginDone, AskStatus,
     StatusDone
<1>1. cur \in Slots /\ NetType /\ Dialogue /\ sess[cur].open
  BY <1>0, CurIs DEF Smooth, Dialogue
<1>2. /\ pc = "crypt" => AtCrypt
      /\ pc = "decision" => AtDecision
      /\ pc = "login" => AtLogin
      /\ pc = "status" => AtStatus
  BY <1>1 DEF Dialogue
<1>3. pc # "status" => sess[cur].srv # "exit"
  BY <1>0, <1>2 DEF AtCrypt, AtDecision, AtLogin, At
<1>4. pc # "status" => ~CannotRead /\ ~CannotWrite
  BY <1>3, NoLoss
<1>5. CASE ReadCrypt
  <2>1. pc = "crypt" /\ At("CONN", <<>>, <<Msg("CRYPT")>>) /\ sess[cur].down # <<>>
    BY <1>2, <1>5 DEF ReadCrypt, Answer, AtCrypt, At
  <2>2. setting.via = "password" /\ UNCHANGED <<setting, daemon>>
    BY <1>5 DEF ReadCrypt
  <2>3. \/ setting.ssl /\ Go("login") /\ sess' = Reply("LOG")
        \/ ~setting.ssl /\ Go("decision") /\ sess' = Reply("CRYPT")
    BY <1>4, <1>5, <2>1 DEF ReadCrypt
  <2>4. CASE Go("login") /\ sess' = Reply("LOG")
    <3>1. cur' = cur /\ pc' = "login"
      BY <2>4 DEF Go
    <3>2. At("CONN", <<Msg("LOG")>>, <<>>)' /\ sess'[cur].open
      BY <1>1, <1>3, <2>1, <2>4, <3>1, ReplyFields, QueueFacts DEF At
    <3>3. Dialogue'
      BY <2>2, <3>1, <3>2 DEF Dialogue, AtLogin
    <3> QED
      BY <2>2, <2>4, <3>3, GoesOn DEF States
  <2>5. CASE ~setting.ssl /\ Go("decision") /\ sess' = Reply("CRYPT")
    <3>1. cur' = cur /\ pc' = "decision"
      BY <2>5 DEF Go
    <3>2. At("CONN", <<Msg("CRYPT")>>, <<>>)' /\ sess'[cur].open
      BY <1>1, <1>3, <2>1, <2>5, <3>1, ReplyFields, QueueFacts DEF At
    <3>3. Dialogue'
      BY <2>2, <2>5, <3>1, <3>2 DEF Dialogue, AtDecision
    <3> QED
      BY <2>2, <2>5, <3>3, GoesOn DEF States
  <2> QED
    BY <2>3, <2>4, <2>5
<1>6. CASE NoCrypt
  <2>1. pc = "crypt" /\ sess[cur].down # <<>> /\ ~Answer("CRYPT")
    BY <1>4, <1>6 DEF NoCrypt
  <2>2. Head(sess[cur].down) = Msg("CRYPT")
    BY <1>2, <2>1, QueueFacts DEF AtCrypt, At
  <2> QED
    BY <2>1, <2>2 DEF Answer, Msg
<1>7. CASE SendPlain
  <2>1. pc = "decision" /\ At("CONN", <<>>, <<Msg("OK")>>) /\ sess[cur].down # <<>>
        /\ setting.via = "password"
    BY <1>2, <1>7 DEF SendPlain, Answer, AtDecision, At
  <2>2. Go("login") /\ sess' = Reply("LOG") /\ UNCHANGED <<setting, daemon>>
    BY <1>4, <1>7, <2>1 DEF SendPlain
  <2>3. cur' = cur /\ pc' = "login"
    BY <2>2 DEF Go
  <2>4. At("CONN", <<Msg("LOG")>>, <<>>)' /\ sess'[cur].open
    BY <1>1, <1>3, <2>1, <2>2, <2>3, ReplyFields, QueueFacts DEF At
  <2>5. Dialogue'
    BY <2>1, <2>2, <2>3, <2>4 DEF Dialogue, AtLogin
  <2> QED
    BY <2>2, <2>5, GoesOn DEF States
<1>8. CASE LoginRefused \/ NoLoginAnswer
  <2>1. pc \in {"decision", "login"} /\ Refusal
    BY <1>4, <1>8 DEF LoginRefused, NoLoginAnswer
  <2>2. Head(sess[cur].down) = Msg("OK")
    BY <1>2, <2>1, QueueFacts DEF AtDecision, AtLogin, At, Refusal
  <2> QED
    BY <2>1, <2>2 DEF Refusal, Msg
<1>9. CASE LoginDone
  <2>1. pc = "login" /\ At("PROTWAIT", <<>>, <<Msg("OK")>>) /\ setting.via = "password"
    BY <1>2, <1>9 DEF LoginDone, Answer, AtLogin, At
  <2>2. Go("proto") /\ sess' = Take /\ UNCHANGED <<setting, daemon>>
    BY <1>9 DEF LoginDone
  <2>3. cur' = cur /\ pc' = "proto"
    BY <2>2 DEF Go
  <2>4. At("PROTWAIT", <<>>, <<>>)' /\ sess'[cur].open
    BY <1>1, <2>1, <2>2, <2>3, TakeFields, QueueFacts DEF At
  <2>5. Dialogue'
    BY <2>1, <2>2, <2>3, <2>4 DEF Dialogue, AtProto
  <2> QED
    BY <2>2, <2>5, GoesOn DEF States
<1>10. CASE AskStatus
  <2>1. /\ pc = "crypt" /\ At("CONN", <<>>, <<Msg("CRYPT")>>) /\ sess[cur].down # <<>>
        /\ setting.via = "status"
    BY <1>2, <1>10 DEF AskStatus, Answer, AtCrypt, At
  <2>2. Go("status") /\ sess' = Reply("SERVER_STATUS") /\ UNCHANGED <<setting, daemon>>
    BY <1>4, <1>10, <2>1 DEF AskStatus
  <2>3. cur' = cur /\ pc' = "status"
    BY <2>2 DEF Go
  <2>4. At("CONN", <<Msg("SERVER_STATUS")>>, <<>>)' /\ sess'[cur].open
    BY <1>1, <1>3, <2>1, <2>2, <2>3, ReplyFields, QueueFacts DEF At
  <2>5. Dialogue'
    BY <2>1, <2>2, <2>3, <2>4 DEF Dialogue, AtStatus
  <2> QED
    BY <2>2, <2>5, GoesOn DEF States
<1>11. CASE StatusDone
  <2>1. pc = "status" /\ ~CannotRead
    BY <1>2, <1>11, QueueFacts DEF StatusDone, AtStatus, At, CannotRead, Eof
  <2>2. Exit("done") /\ UNCHANGED <<setting, daemon>>
    BY <1>11, <2>1 DEF StatusDone
  <2>3. Dialogue'
    BY <2>2 DEF Dialogue, Exit
  <2> QED
    BY <2>2, <2>3 DEF Smooth, Exit
<1> QED
  BY <1>5, <1>6, <1>7, <1>8, <1>9, <1>10, <1>11 DEF Password

LEMMA SshSmooth ==
  ASSUME TypeInv, Smooth, Able, \A kind : ~Fault(kind), Ssh
  PROVE  Smooth'
<1>0. pc \in {"port", "addrok"}
  BY DEF Ssh, NoPort, TellAddress, ConnectBack, CannotConnectBack, AddressKnown, AddressUnknown
<1>1. cur \in Slots /\ NetType /\ Dialogue /\ sess[cur].open
  BY <1>0, CurIs DEF Smooth, Dialogue
<1>2. (pc = "port" => AtPort) /\ (pc = "addrok" => AtAddrok)
  BY <1>1 DEF Dialogue
<1>3. sess[cur].srv # "exit" /\ setting.via = "ssh"
  BY <1>0, <1>2 DEF AtPort, AtAddrok, At
<1>4. ~CannotRead /\ ~CannotWrite
  BY <1>3, NoLoss
<1>5. CASE NoPort
  <2>1. pc = "port" /\ Refusal
    BY <1>4, <1>5 DEF NoPort
  <2>2. Head(sess[cur].down) \in {Msg("IPADDR"), Msg("LOGGED_STDIN")}
    BY <1>2, <2>1, QueueFacts DEF AtPort, At, Refusal
  <2> QED
    BY <2>1, <2>2 DEF Refusal, Msg
<1>6. CASE TellAddress
  <2>1. pc = "port" /\ sess[cur].down # <<>> /\ Head(sess[cur].down).code = "IPADDR"
    BY <1>6 DEF TellAddress, Answer
  <2>2. At("address", <<>>, <<Msg("IPADDR")>>)
    BY <1>2, <2>1, QueueFacts DEF AtPort, At, Msg
  <2>3. Go("proto") /\ sess' = Reply("IPADDR_OK") /\ UNCHANGED <<setting, daemon>>
    BY <1>4, <1>6 DEF TellAddress
  <2>4. cur' = cur /\ pc' = "proto"
    BY <2>3 DEF Go
  <2>5. At("address", <<Msg("IPADDR_OK")>>, <<>>)' /\ sess'[cur].open
    BY <1>1, <1>3, <2>1, <2>2, <2>3, <2>4, ReplyFields, QueueFacts DEF At
  <2>6. Dialogue'
    BY <1>3, <2>3, <2>4, <2>5 DEF Dialogue, AtProto
  <2> QED
    BY <2>3, <2>6, GoesOn DEF States
<1>7. ASSUME pc = "port", Answer("LOGGED_STDIN")
      PROVE  ~setting.ask /\ At("listen", <<>>, <<Msg("LOGGED_STDIN")>>) /\ sess[cur].tmp = "listening"
  <2>1. sess[cur].down # <<>> /\ Head(sess[cur].down).code = "LOGGED_STDIN"
    BY <1>7 DEF Answer
  <2> QED
    BY <1>2, <1>7, <2>1, QueueFacts DEF AtPort, At, Msg
<1>8. CASE ConnectBack
  <2>1. /\ At("listen", <<>>, <<Msg("LOGGED_STDIN")>>)
        /\ Go("addrok") /\ sess' = [Take EXCEPT ![cur].tmp = "asked"] /\ UNCHANGED <<setting, daemon>>
    BY <1>7, <1>8 DEF ConnectBack
  <2>2. cur' = cur /\ pc' = "addrok"
    BY <2>1 DEF Go
  <2>3. Take \in [Slots -> Session(setting)]
    BY <1>1, <2>1, TakeType, QueueFacts DEF At
  <2>4. /\ sess'[cur].tmp = "asked" /\ sess'[cur].srv = Take[cur].srv /\ sess'[cur].up = Take[cur].up
        /\ sess'[cur].down = Take[cur].down /\ sess'[cur].open = Take[cur].open
    BY <1>1, <2>1, <2>3 DEF Session
  <2>5. At("listen", <<>>, <<>>)' /\ sess'[cur].open
    BY <1>1, <2>1, <2>2, <2>4, TakeFields, QueueFacts DEF At
  <2>6. Dialogue'
    BY <1>3, <2>1, <2>2, <2>4, <2>5 DEF Dialogue, AtAddrok
  <2> QED
    BY <2>1, <2>6, GoesOn DEF States
<1>9. CASE CannotConnectBack
  <2>1. ~setting.ask /\ sess[cur].tmp = "listening" /\ pc = "port"
    BY <1>7, <1>9 DEF CannotConnectBack
  <2>2. at \notin setting.alive /\ ConnectFails /\ UNCHANGED <<setting, daemon>>
    BY <1>9, <2>1 DEF CannotConnectBack
  <2> QED
    BY <2>1, <2>2, AddressPassed DEF ConnectFails
<1>10. CASE AddressKnown
  <2>1. pc = "addrok" /\ At("PROTWAIT", <<>>, <<>>)
    BY <1>2, <1>10 DEF AddressKnown, AtAddrok
  <2>2. Go("proto") /\ UNCHANGED <<setting, daemon, sess>>
    BY <1>10 DEF AddressKnown
  <2>3. cur' = cur /\ pc' = "proto"
    BY <2>2 DEF Go
  <2>4. At("PROTWAIT", <<>>, <<>>)' /\ sess'[cur].open
    BY <1>1, <2>1, <2>2, <2>3 DEF At
  <2>5. Dialogue'
    BY <1>3, <2>2, <2>3, <2>4 DEF Dialogue, AtProto
  <2> QED
    BY <2>2, <2>5, GoesOn DEF States
<1>11. CASE AddressUnknown
  BY <1>2, <1>11 DEF AddressUnknown, AtAddrok
<1> QED
  BY <1>5, <1>6, <1>8, <1>9, <1>10, <1>11 DEF Ssh

\* The versions the two have in common are compatible.
LEMMA CommonIsCompatible ==
  ASSUME setting \in Settings, SomeVersion
  PROVE  /\ Compatible(setting.smin, setting.smax)
         /\ Best(setting.smin, setting.smax) \in {2, 3}
<1>1. /\ setting.cmin \in 2..3 /\ setting.cmax \in 2..3
      /\ setting.smin \in 1..3 /\ setting.smax \in 1..3
  BY SettingFields
<1>2. Compatible(setting.smin, setting.smax)
  BY <1>1 DEF SomeVersion, Compatible
<1>3. Best(setting.smin, setting.smax) \in 2..3
  BY <1>2, BestIsCommon
<1> QED
  BY <1>2, <1>3

LEMMA VersionSmooth ==
  ASSUME TypeInv, Smooth, Able, \A kind : ~Fault(kind), Version \/ Lose \/ Leave
  PROVE  Smooth'
<1>0. pc \in {"proto", "version", "todo", "in"}
  BY DEF Version, SendProto, NoVersions, ProtoRefused, ChooseVersion, SetUp, Lose, Leave
<1>1. cur \in Slots /\ NetType /\ Dialogue /\ sess[cur].open /\ setting.via # "status"
  BY <1>0, CurIs DEF Smooth, Dialogue
<1>2. /\ pc = "proto" => AtProto
      /\ pc = "version" => AtVersion
      /\ pc \in {"todo", "in"} => AtWork
  BY <1>1 DEF Dialogue
<1>3. sess[cur].srv # "exit"
  BY <1>0, <1>2 DEF AtProto, AtVersion, AtWork, At
<1>4. ~CannotRead /\ ~CannotWrite /\ ~Eof(cur)
  BY <1>3, NoLoss
<1>5. CASE SendProto
  <2>1. pc = "proto" /\ Go("version") /\ sess' = Send("PROT") /\ UNCHANGED <<setting, daemon>>
    BY <1>4, <1>5 DEF SendProto
  <2>2. cur' = cur /\ pc' = "version"
    BY <2>1 DEF Go
  <2>3. At("PROTWAIT", <<Msg("PROT")>>, <<>>)' \/ At("address", <<Msg("IPADDR_OK"), Msg("PROT")>>, <<>>)'
    <3>1. Append(<<Msg("IPADDR_OK")>>, Msg("PROT")) = <<Msg("IPADDR_OK"), Msg("PROT")>>
      BY PairFacts
    <3>2. /\ sess'[cur'].srv = sess[cur].srv /\ sess'[cur'].down = sess[cur].down
          /\ sess'[cur'].up = Append(sess[cur].up, Msg("PROT"))
      BY <1>1, <1>3, <2>1, <2>2, SendFields
    <3>3. CASE At("PROTWAIT", <<>>, <<>>)
      BY <3>2, <3>3, QueueFacts DEF At
    <3>4. CASE At("address", <<Msg("IPADDR_OK")>>, <<>>)
      BY <3>1, <3>2, <3>4 DEF At
    <3> QED
      BY <1>2, <2>1, <3>3, <3>4 DEF AtProto
  <2>4. sess'[cur].open
    BY <1>1, <1>3, <2>1, SendFields
  <2>5. Dialogue'
    BY <1>1, <2>1, <2>2, <2>3, <2>4 DEF Dialogue, AtVersion
  <2> QED
    BY <2>1, <2>5, GoesOn DEF States
<1>6. CASE NoVersions
  BY <1>4, <1>6 DEF NoVersions
<1>7. ASSUME pc = "version", sess[cur].down # <<>>
      PROVE  At("PROT", <<>>, <<Offer>>) /\ Head(sess[cur].down) = Offer
  BY <1>2, <1>7, QueueFacts DEF AtVersion, At
<1>8. CASE ProtoRefused
  BY <1>7, <1>8 DEF ProtoRefused, Refusal, Offer
<1>9. CASE ChooseVersion
  <2>1. pc = "version" /\ sess[cur].down # <<>> /\ UNCHANGED <<setting, daemon>>
    BY <1>9 DEF ChooseVersion, Answer
  <2>2. /\ At("PROT", <<>>, <<Offer>>) /\ Head(sess[cur].down) = Offer
        /\ Offer.low = setting.smin /\ Offer.high = setting.smax
    BY <1>7, <2>1 DEF Offer
  <2>3. Compatible(setting.smin, setting.smax) /\ Best(setting.smin, setting.smax) \in {2, 3}
    BY <1>1, CommonIsCompatible DEF TypeInv, WorldType, Able
  <2>4. PICK v \in {2, 3} : v = Best(setting.smin, setting.smax)
    BY <2>3
  <2> DEFINE choice == [code |-> "PROT_ANS", version |-> v]
  <2>5. /\ pc' = "todo" /\ sess' = [Take EXCEPT ![cur].up = Append(Take[cur].up, choice)]
        /\ UNCHANGED <<at, saved, cur, replay, why>>
    BY <1>3, <1>4, <1>9, <2>2, <2>3, <2>4 DEF ChooseVersion
  <2>6. Take \in [Slots -> Session(setting)]
    BY <1>1, <2>1, TakeType
  <2>7. /\ sess'[cur].up = Append(Take[cur].up, choice) /\ sess'[cur].srv = Take[cur].srv
        /\ sess'[cur].down = Take[cur].down /\ sess'[cur].open = Take[cur].open
    <3> HIDE DEF choice
    <3> QED
      BY <1>1, <2>5, <2>6 DEF Session
  <2>8. sess'[cur].srv = "PROT" /\ sess'[cur].up = <<choice>> /\ sess'[cur].down = <<>> /\ sess'[cur].open
    <3> HIDE DEF choice
    <3> QED
      BY <1>1, <2>2, <2>7, TakeFields, QueueFacts DEF At
  <2>9. AtWork'
    BY <2>5, <2>8 DEF AtWork, At
  <2>10. Dialogue'
    BY <1>1, <2>1, <2>5, <2>8, <2>9 DEF Dialogue
  <2> QED
    BY <2>1, <2>5, <2>10 DEF Smooth
<1>10. CASE SetUp
  <2>1. pc = "todo" /\ Go("in") /\ UNCHANGED <<sess, setting, daemon>>
    BY <1>10 DEF SetUp, Smooth
  <2>2. cur' = cur /\ pc' = "in"
    BY <2>1 DEF Go
  <2>3. AtWork' /\ sess'[cur].open
    BY <1>1, <1>2, <2>1, <2>2 DEF AtWork, At
  <2>4. Dialogue'
    BY <1>1, <2>1, <2>2, <2>3 DEF Dialogue
  <2> QED
    BY <2>1, <2>4, GoesOn DEF States
<1>11. CASE Lose
  BY <1>3, <1>11 DEF Lose
<1>12. CASE Leave
  <2>1. Exit("done") /\ UNCHANGED <<setting, daemon>>
    BY <1>12 DEF Leave
  <2>2. Dialogue'
    BY <2>1 DEF Dialogue, Exit
  <2> QED
    BY <2>1, <2>2 DEF Smooth, Exit
<1> QED
  BY <1>5, <1>6, <1>8, <1>9, <1>10, <1>11, <1>12 DEF Version

-----------------------------------------------------------------------------
(* The server in the dialogue.                                             *)

\* A step of the server leaves the client as it is.
LEMMA ServerSmooth ==
  ASSUME Smooth, UNCHANGED <<setting, clientVars>>,
         daemon' = daemon \/ daemon' \in {"starting", "serving"},
         pc \in {"connect", "exit"} \/ Dialogue'
  PROVE  Smooth'
<1>1. Dialogue'
  BY DEF Dialogue, clientVars
<1> QED
  BY <1>1 DEF Smooth, clientVars

\* So does a step on a connection that is not the client's, or of one it does not need.
LEMMA OtherSmooth ==
  ASSUME TypeInv, Smooth, UNCHANGED <<setting, clientVars>>,
         daemon' = daemon \/ daemon' \in {"starting", "serving"},
         NEW s \in Slots, NEW r, sess' = [sess EXCEPT ![s] = r],
         s # cur \/ pc \in {"connect", "exit"}
  PROVE  Smooth'
<1>1. CASE pc \in {"connect", "exit"}
  BY <1>1, ServerSmooth
<1>2. CASE pc \notin {"connect", "exit"}
  <2>1. sess'[cur] = sess[cur]
    BY <1>2, CurIs DEF NetType
  <2>2. Dialogue'
    BY <2>1 DEF Smooth, Dialogue, clientVars, AtCrypt, AtDecision, AtLogin, AtStatus, AtPort,
       AtAddrok, AtProto, AtVersion, AtWork, At, Offer
  <2> QED
    BY <2>2, ServerSmooth
<1> QED
  BY <1>1, <1>2

\* The state of its process tells where the client is.
LEMMA WhereClientIs ==
  ASSUME Smooth, pc \in States \ {"connect", "exit"}
  PROVE  LET c == sess[cur] IN
         /\ c.srv = "queued" => pc = "crypt" /\ At("queued", <<>>, <<>>)
         /\ c.srv = "new" => pc = "crypt" /\ At("new", <<>>, <<>>)
         /\ c.srv = "start" => pc = "port" /\ At("start", <<>>, <<>>)
         /\ c.srv = "CONN" => \/ c.up = <<>>
                              \/ pc = "decision" /\ At("CONN", <<Msg("CRYPT")>>, <<>>)
                              \/ pc = "login" /\ At("CONN", <<Msg("LOG")>>, <<>>)
                              \/ pc = "status" /\ At("CONN", <<Msg("SERVER_STATUS")>>, <<>>)
         /\ c.srv = "address" => \/ c.up = <<>>
                                 \/ pc = "proto" /\ At("address", <<Msg("IPADDR_OK")>>, <<>>)
                                 \/ /\ pc = "version"
                                    /\ At("address", <<Msg("IPADDR_OK"), Msg("PROT")>>, <<>>)
         /\ c.srv = "listen" => \/ pc = "port" /\ c.tmp = "listening"
                                \/ pc = "addrok" /\ At("listen", <<>>, <<>>)
         /\ c.srv = "PROTWAIT" => \/ c.up = <<>>
                                  \/ pc = "version" /\ At("PROTWAIT", <<Msg("PROT")>>, <<>>)
         /\ c.srv = "PROT" => \/ c.up = <<>>
                              \/ /\ pc \in {"todo", "in"} /\ c.down = <<>>
                                 /\ \E v \in {2, 3} : c.up = <<[code |-> "PROT_ANS", version |-> v]>>
         /\ c.srv = "LOGGED" => c.up = <<>>
         /\ c.open
<1>1. Dialogue
  BY DEF Smooth
<1>2. CASE pc = "crypt"
  BY <1>1, <1>2 DEF Dialogue, AtCrypt, At
<1>3. CASE pc = "decision"
  BY <1>1, <1>3 DEF Dialogue, AtDecision, At
<1>4. CASE pc = "login"
  BY <1>1, <1>4 DEF Dialogue, AtLogin, At
<1>5. CASE pc = "status"
  BY <1>1, <1>5 DEF Dialogue, AtStatus, At
<1>6. CASE pc = "port"
  BY <1>1, <1>6 DEF Dialogue, AtPort, At
<1>7. CASE pc = "addrok"
  BY <1>1, <1>7 DEF Dialogue, AtAddrok, At
<1>8. CASE pc = "proto"
  BY <1>1, <1>8 DEF Dialogue, AtProto, At
<1>9. CASE pc = "version"
  BY <1>1, <1>9 DEF Dialogue, AtVersion, At
<1>10. CASE pc \in {"todo", "in"}
  BY <1>1, <1>10 DEF Dialogue, AtWork, At
<1> QED
  BY <1>2, <1>3, <1>4, <1>5, <1>6, <1>7, <1>8, <1>9, <1>10 DEF States

\* What a step of a process leaves in the connection that is still open.
LEMMA SayFields ==
  ASSUME NetType, NEW s \in Slots, sess[s].open, NEW state, NEW m, Say(s, state, m)
  PROVE  /\ sess'[s].srv = state /\ sess'[s].up = sess[s].up /\ sess'[s].open
         /\ sess'[s].down = Append(sess[s].down, m) /\ sess'[s].tmp = sess[s].tmp
BY DEF Say, Told, NetType, Session
LEMMA SayAndEndFields ==
  ASSUME NetType, NEW s \in Slots, sess[s].open, NEW code, SayAndEnd(s, code)
  PROVE  /\ sess'[s].srv = "exit" /\ sess'[s].up = <<>> /\ sess'[s].open
         /\ sess'[s].down = Append(sess[s].down, Msg(code))
BY DEF SayAndEnd, Told, NetType, Session
LEMMA RestFields ==
  ASSUME NetType, NEW s \in Slots
  PROVE  /\ Rest(s)[s].srv = sess[s].srv /\ Rest(s)[s].up = Tail(sess[s].up)
         /\ Rest(s)[s].open = sess[s].open /\ Rest(s)[s].down = sess[s].down
         /\ Rest(s)[s].tmp = sess[s].tmp
         /\ Rest(s) = [sess EXCEPT ![s] = [sess[s] EXCEPT !.up = Tail(sess[s].up)]]
BY DEF Rest, NetType, Session

\* A step of the process of the client's connection goes on with the dialogue.
LEMMA ProcessGoesOn ==
  ASSUME TypeInv, Smooth, Able, \A kind : ~Fault(kind), pc \notin {"connect", "exit"}, Process(cur)
  PROVE  Dialogue'
<1>1. cur \in Slots /\ NetType /\ sess[cur] \in Session(setting) /\ pc \in States
  BY CurIs DEF TypeInv, ClientType
<1>2. UNCHANGED <<setting, clientVars>> /\ pc' = pc /\ cur' = cur /\ setting' = setting
  BY <1>1, ProcessMoves DEF clientVars
<1> DEFINE c == sess[cur]
<1>3. /\ c.srv = "new" => pc = "crypt" /\ At("new", <<>>, <<>>)
      /\ c.srv = "start" => pc = "port" /\ At("start", <<>>, <<>>)
      /\ c.srv = "CONN" => \/ c.up = <<>>
                           \/ pc = "decision" /\ At("CONN", <<Msg("CRYPT")>>, <<>>)
                           \/ pc = "login" /\ At("CONN", <<Msg("LOG")>>, <<>>)
                           \/ pc = "status" /\ At("CONN", <<Msg("SERVER_STATUS")>>, <<>>)
      /\ c.open
  BY <1>1, WhereClientIs
<1>4. /\ c.srv = "address" => \/ c.up = <<>>
                              \/ pc = "proto" /\ At("address", <<Msg("IPADDR_OK")>>, <<>>)
                              \/ /\ pc = "version"
                                 /\ At("address", <<Msg("IPADDR_OK"), Msg("PROT")>>, <<>>)
      /\ c.srv = "listen" => \/ pc = "port" /\ c.tmp = "listening"
                             \/ pc = "addrok" /\ At("listen", <<>>, <<>>)
      /\ c.srv = "PROTWAIT" => \/ c.up = <<>>
                               \/ pc = "version" /\ At("PROTWAIT", <<Msg("PROT")>>, <<>>)
      /\ c.srv = "PROT" => \/ c.up = <<>>
                           \/ /\ pc \in {"todo", "in"} /\ c.down = <<>>
                              /\ \E v \in {2, 3} : c.up = <<[code |-> "PROT_ANS", version |-> v]>>
      /\ c.srv = "LOGGED" => c.up = <<>>
  BY <1>1, WhereClientIs
<1>5. ~Silent(cur)
  BY <1>3 DEF Silent
<1>6. Dialogue
  BY DEF Smooth
<1>7. ASSUME pc \in {"proto", "version", "todo", "in"} PROVE setting.via # "status"
  BY <1>6, <1>7 DEF Dialogue
<1>8. CASE SendCrypt(cur)
  <2>1. pc = "crypt" /\ At("new", <<>>, <<>>) /\ Say(cur, "CONN", Msg("CRYPT"))
    BY <1>3, <1>8 DEF SendCrypt
  <2>2. sess'[cur].open /\ At("CONN", <<>>, <<Msg("CRYPT")>>)'
    BY <1>1, <1>2, <1>3, <2>1, SayFields, QueueFacts DEF At, Msg
  <2>3. setting.via # "ssh"
    BY <1>6, <2>1 DEF Dialogue, AtCrypt
  <2> QED
    BY <1>2, <2>1, <2>2, <2>3 DEF Dialogue, AtCrypt
<1>9. CASE GiveUpWaiting(cur) \/ NobodyCallsBack(cur)
  <2>1. NobodyCallsBack(cur) /\ c.srv = "listen" /\ FALSE
    BY <1>3, <1>5, <1>9 DEF GiveUpWaiting, NobodyCallsBack
  <2> QED
    BY <2>1
<1>10. CASE Status(cur)
  <2>1. c.srv = "CONN" /\ c.up # <<>> /\ Head(c.up).code = "SERVER_STATUS" /\ SayAndEnd(cur, "OK")
    BY <1>10 DEF Status, Has, Next1
  <2>2. pc = "status" /\ At("CONN", <<Msg("SERVER_STATUS")>>, <<>>)
    BY <1>3, <2>1, QueueFacts DEF At, Msg
  <2>3. sess'[cur].open /\ At("exit", <<>>, <<Msg("OK")>>)'
    BY <1>1, <1>2, <1>3, <2>1, <2>2, SayAndEndFields, QueueFacts DEF At, Msg
  <2>4. setting.via = "status"
    BY <1>6, <2>2 DEF Dialogue, AtStatus
  <2> QED
    BY <1>2, <2>2, <2>3, <2>4 DEF Dialogue, AtStatus
<1>11. CASE PlainAccepted(cur)
  <2>1. c.srv = "CONN" /\ c.up # <<>> /\ Head(c.up).code = "CRYPT"
    BY <1>11 DEF PlainAccepted, Has, Next1
  <2>2. pc = "decision" /\ At("CONN", <<Msg("CRYPT")>>, <<>>)
    BY <1>3, <2>1, QueueFacts DEF At, Msg
  <2>3. setting.via = "password" /\ ~setting.ssl
    BY <1>6, <2>2 DEF Dialogue, AtDecision
  <2>4. sess' = [Rest(cur) EXCEPT ![cur].down = Append(c.down, Msg("OK"))]
    BY <1>3, <1>11, <2>3 DEF PlainAccepted, Able, Acceptable, Told
  <2>5. /\ sess'[cur].srv = "CONN" /\ sess'[cur].up = Tail(c.up) /\ sess'[cur].open
        /\ sess'[cur].down = Append(c.down, Msg("OK"))
    BY <1>1, <1>3, <2>1, <2>4 DEF Rest, NetType, Session
  <2>6. At("CONN", <<>>, <<Msg("OK")>>)'
    BY <1>2, <2>2, <2>5, QueueFacts DEF At, Msg
  <2> QED
    BY <1>2, <2>2, <2>3, <2>5, <2>6 DEF Dialogue, AtDecision
<1>12. CASE Login(cur) \/ LoginFails(cur)
  <2>1. c.srv = "CONN" /\ c.up # <<>> /\ Head(c.up).code = "LOG"
    BY <1>12 DEF Login, LoginFails, Has, Next1
  <2>2. pc = "login" /\ At("CONN", <<Msg("LOG")>>, <<>>)
    BY <1>3, <2>1, QueueFacts DEF At, Msg
  <2>3. setting.via = "password"
    BY <1>6, <2>2 DEF Dialogue, AtLogin
  <2>4. sess' = [Rest(cur) EXCEPT ![cur].srv = "PROTWAIT", ![cur].ids = "user",
                                  ![cur].down = Append(c.down, Msg("OK"))]
    BY <1>3, <1>12, <2>3 DEF Login, LoginFails, Able, Acceptable, Told
  <2>5. /\ sess'[cur].srv = "PROTWAIT" /\ sess'[cur].up = Tail(c.up) /\ sess'[cur].open
        /\ sess'[cur].down = Append(c.down, Msg("OK"))
    BY <1>1, <1>3, <2>1, <2>4 DEF Rest, NetType, Session
  <2>6. At("PROTWAIT", <<>>, <<Msg("OK")>>)'
    BY <1>2, <2>2, <2>5, QueueFacts DEF At, Msg
  <2> QED
    BY <1>2, <2>2, <2>3, <2>5, <2>6 DEF Dialogue, AtLogin
<1>13. CASE AskAddress(cur)
  <2>1. /\ pc = "port" /\ At("start", <<>>, <<>>) /\ setting.ask
        /\ Say(cur, "address", Msg("IPADDR"))
    BY <1>3, <1>13 DEF AskAddress
  <2>2. sess'[cur].open /\ At("address", <<>>, <<Msg("IPADDR")>>)'
    BY <1>1, <1>2, <1>3, <2>1, SayFields, QueueFacts DEF At, Msg
  <2>3. setting.via = "ssh"
    BY <1>6, <2>1 DEF Dialogue, AtPort
  <2> QED
    BY <1>2, <2>1, <2>2, <2>3 DEF Dialogue, AtPort
<1>14. CASE GetAddress(cur)
  <2>1. /\ c.srv = "address" /\ c.up # <<>>
        /\ sess' = [Rest(cur) EXCEPT ![cur].srv = "PROTWAIT"]
    BY <1>5, <1>14 DEF GetAddress, Has
  <2>2. /\ sess'[cur].srv = "PROTWAIT" /\ sess'[cur].up = Tail(c.up) /\ sess'[cur].open
        /\ sess'[cur].down = c.down
    BY <1>1, <1>3, <2>1 DEF Rest, NetType, Session
  <2>3. CASE pc = "proto" /\ At("address", <<Msg("IPADDR_OK")>>, <<>>)
    <3>1. At("PROTWAIT", <<>>, <<>>)'
      BY <1>2, <2>2, <2>3, QueueFacts DEF At
    <3> QED
      BY <1>2, <1>7, <2>2, <2>3, <3>1 DEF Dialogue, AtProto
  <2>4. CASE pc = "version" /\ At("address", <<Msg("IPADDR_OK"), Msg("PROT")>>, <<>>)
    <3>1. Tail(<<Msg("IPADDR_OK"), Msg("PROT")>>) = <<Msg("PROT")>>
      BY PairFacts
    <3>2. At("PROTWAIT", <<Msg("PROT")>>, <<>>)'
      BY <1>2, <2>2, <2>4, <3>1 DEF At, Msg
    <3> QED
      BY <1>2, <1>7, <2>2, <2>4, <3>2 DEF Dialogue, AtVersion
  <2> QED
    BY <1>4, <2>1, <2>3, <2>4
<1>15. CASE Listen(cur)
  <2>1. pc = "port" /\ At("start", <<>>, <<>>) /\ ~setting.ask
    BY <1>3, <1>15 DEF Listen
  <2>2. sess' = [sess EXCEPT ![cur].srv = "listen", ![cur].tmp = "listening",
                             ![cur].down = Append(c.down, Msg("LOGGED_STDIN"))]
    BY <1>3, <1>15 DEF Listen, Told, Msg
  <2>3. /\ sess'[cur].srv = "listen" /\ sess'[cur].up = c.up /\ sess'[cur].open
        /\ sess'[cur].down = Append(c.down, Msg("LOGGED_STDIN")) /\ sess'[cur].tmp = "listening"
    BY <1>1, <1>3, <2>2 DEF NetType, Session
  <2>4. At("listen", <<>>, <<Msg("LOGGED_STDIN")>>)'
    BY <1>2, <2>1, <2>3, QueueFacts DEF At, Msg
  <2>5. setting.via = "ssh"
    BY <1>6, <2>1 DEF Dialogue, AtPort
  <2> QED
    BY <1>2, <2>1, <2>3, <2>4, <2>5 DEF Dialogue, AtPort
<1>16. CASE CalledBack(cur)
  <2>1. /\ c.srv = "listen" /\ c.tmp = "asked"
        /\ sess' = [sess EXCEPT ![cur].srv = "PROTWAIT", ![cur].tmp = "ok"]
    BY <1>16 DEF CalledBack
  <2>2. pc = "addrok" /\ At("listen", <<>>, <<>>)
    BY <1>4, <2>1
  <2>3. /\ sess'[cur].srv = "PROTWAIT" /\ sess'[cur].up = c.up /\ sess'[cur].open
        /\ sess'[cur].down = c.down /\ sess'[cur].tmp = "ok"
    BY <1>1, <1>3, <2>1 DEF NetType, Session
  <2>4. At("PROTWAIT", <<>>, <<>>)'
    BY <1>2, <2>2, <2>3 DEF At
  <2>5. setting.via = "ssh"
    BY <1>6, <2>2 DEF Dialogue, AtAddrok
  <2> QED
    BY <1>2, <2>2, <2>3, <2>4, <2>5 DEF Dialogue, AtAddrok
<1>17. CASE SendVersions(cur)
  <2>1. /\ c.srv = "PROTWAIT" /\ c.up # <<>>
        /\ sess' = [Rest(cur) EXCEPT ![cur].srv = "PROT", ![cur].down = Append(c.down, Offer)]
    BY <1>3, <1>17 DEF SendVersions, Has, Told, Offer
  <2>2. pc = "version" /\ At("PROTWAIT", <<Msg("PROT")>>, <<>>)
    BY <1>4, <2>1
  <2>3. /\ sess'[cur].srv = "PROT" /\ sess'[cur].up = Tail(c.up) /\ sess'[cur].open
        /\ sess'[cur].down = Append(c.down, Offer)
    <3> HIDE DEF Offer
    <3> QED
      BY <1>1, <1>3, <2>1 DEF Rest, NetType, Session
  <2>4. sess'[cur].up = <<>> /\ sess'[cur].down = <<Offer>>
    BY <2>2, <2>3, QueueFacts DEF At
  <2>5. Offer' = Offer
    BY <1>2 DEF Offer
  <2>6. At("PROT", <<>>, <<Offer>>)'
    BY <1>2, <2>3, <2>4, <2>5 DEF At
  <2> QED
    BY <1>2, <1>7, <2>2, <2>3, <2>6 DEF Dialogue, AtVersion
<1>18. CASE GetVersion(cur)
  <2>1. c.srv = "PROT" /\ c.up # <<>>
    BY <1>18 DEF GetVersion, Has
  <2>2. PICK v \in {2, 3} : c.up = <<[code |-> "PROT_ANS", version |-> v]>>
    BY <1>4, <2>1
  <2>3. pc \in {"todo", "in"} /\ c.down = <<>>
    BY <1>4, <2>1
  <2>4. Head(c.up) = [code |-> "PROT_ANS", version |-> v] /\ Tail(c.up) = <<>>
    BY <2>2, QueueFacts
  <2>5. sess' = [Rest(cur) EXCEPT ![cur].srv = "LOGGED", ![cur].version = v]
    BY <1>18, <2>4 DEF GetVersion
  <2>6. /\ sess'[cur].srv = "LOGGED" /\ sess'[cur].up = <<>> /\ sess'[cur].open
        /\ sess'[cur].down = <<>>
    BY <1>1, <1>3, <2>3, <2>4, <2>5 DEF Rest, NetType, Session
  <2>7. At("LOGGED", <<>>, <<>>)'
    BY <1>2, <2>6 DEF At
  <2> QED
    BY <1>2, <1>7, <2>3, <2>6, <2>7 DEF Dialogue, AtWork
<1>19. CASE Serve(cur)
  BY <1>3, <1>4, <1>19 DEF Serve, Has
<1> QED
  BY <1>8, <1>9, <1>10, <1>11, <1>12, <1>13, <1>14, <1>15, <1>16, <1>17, <1>18, <1>19 DEF Process

LEMMA ProcessSmooth ==
  ASSUME TypeInv, Smooth, Able, \A kind : ~Fault(kind), NEW s \in Slots, Process(s)
  PROVE  Smooth'
<1>1. UNCHANGED <<setting, clientVars>> /\ daemon' = daemon
  BY ProcessMoves
<1>2. CASE s # cur \/ pc \in {"connect", "exit"}
  <2>1. PICK r : sess' = [sess EXCEPT ![s] = r]
    BY ProcessMoves DEF Move, Becomes
  <2> QED
    BY <1>1, <1>2, <2>1, OtherSmooth
<1>3. CASE s = cur /\ pc \notin {"connect", "exit"}
  BY <1>1, <1>3, ProcessGoesOn, ServerSmooth
<1> QED
  BY <1>2, <1>3

LEMMA DaemonSmooth ==
  ASSUME TypeInv, Smooth, Able, \A kind : ~Fault(kind), Daemon
  PROVE  Smooth'
<1>1. CASE StartDaemon \/ Wake
  <2>1. UNCHANGED <<setting, clientVars, sess>> /\ daemon' = "serving"
    BY <1>1 DEF StartDaemon, Wake
  <2>2. Dialogue'
    BY <2>1 DEF Smooth, Dialogue, clientVars, AtCrypt, AtDecision, AtLogin, AtStatus, AtPort,
       AtAddrok, AtProto, AtVersion, AtWork, At, Offer
  <2> QED
    BY <2>1, <2>2, ServerSmooth
<1>2. CASE Accept
  <2>1. PICK s \in Slots : /\ Queued(s)
                           /\ sess' = [sess EXCEPT ![s].srv = "new", ![s].ids = "root"]
    BY <1>2 DEF Accept
  <2> DEFINE r == [sess[s] EXCEPT !.srv = "new", !.ids = "root"]
  <2>2. UNCHANGED <<setting, clientVars>> /\ daemon' = daemon
    BY <1>2 DEF Accept
  <2>3. CASE s # cur \/ pc \in {"connect", "exit"}
    <3>1. sess' = [sess EXCEPT ![s] = r]
      BY <2>1
    <3> QED
      BY <2>2, <2>3, <3>1, OtherSmooth
  <2>4. CASE s = cur /\ pc \notin {"connect", "exit"}
    <3>1. NetType /\ pc \in States /\ Dialogue
      BY DEF TypeInv, ClientType, Smooth
    <3>2. pc = "crypt" /\ At("queued", <<>>, <<>>) /\ sess[cur].open
      BY <2>1, <2>4, <3>1, WhereClientIs DEF Queued
    <3>3. /\ sess'[cur].srv = "new" /\ sess'[cur].up = sess[cur].up
          /\ sess'[cur].down = sess[cur].down /\ sess'[cur].open
      BY <2>1, <2>4, <3>1, <3>2 DEF NetType, Session
    <3>4. At("new", <<>>, <<>>)' /\ pc' = "crypt" /\ sess'[cur'].open
      BY <2>2, <3>2, <3>3 DEF At, clientVars
    <3>5. setting.via # "ssh"
      BY <3>1, <3>2 DEF Dialogue, AtCrypt
    <3>6. Dialogue'
      BY <2>2, <3>4, <3>5 DEF Dialogue, AtCrypt
    <3> QED
      BY <2>2, <3>6, ServerSmooth
  <2> QED
    BY <2>3, <2>4
<1>3. ~AcceptFails /\ ~ForkFails
  BY DEF AcceptFails, ForkFails
<1> QED
  BY <1>1, <1>2, <1>3 DEF Daemon

-----------------------------------------------------------------------------

LEMMA StraightInit == Init => Straight
<1> SUFFICES ASSUME Init, Able PROVE Smooth
  BY DEF Straight
<1>1. pc = "connect" /\ at = 1 /\ saved = 1 /\ replay = "nothing"
  BY DEF Init
<1>2. daemon \in {"starting", "serving"} \/ setting.via = "ssh"
  BY DEF Init
<1>3. \A a \in 1..Addresses : a < at => a \notin setting.alive
  BY <1>1
<1>4. Dialogue
  BY <1>1 DEF Dialogue
<1> QED
  BY <1>1, <1>2, <1>3, <1>4 DEF Smooth

\* Every step happens with a fault or without one, and the settings stay.
LEMMA StepFaults ==
  ASSUME TypeInv, Next
  PROVE  /\ setting' = setting
         /\ faults' = faults \/ faults' = faults + 1
<1>1. CASE Connecting \/ Daemon
  BY <1>1 DEF Connecting, Connect, CannotConnect, StartSsh, Daemon, StartDaemon, Accept, AcceptFails,
              ForkFails, Wake, NoFault, Fault
<1>2. CASE Password
  BY <1>2 DEF Password, ReadCrypt, NoCrypt, SendPlain, LoginRefused, NoLoginAnswer, LoginDone,
              AskStatus, StatusDone, CannotRead, CannotWrite, Go, NoFault, Fault
<1>3. CASE Ssh
  BY <1>3 DEF Ssh, NoPort, TellAddress, ConnectBack, CannotConnectBack, AddressKnown, AddressUnknown,
              CannotRead, CannotWrite, Go, NoFault, Fault
<1>4. CASE Version \/ Lose \/ Leave
  BY <1>4 DEF Version, SendProto, NoVersions, ProtoRefused, ChooseVersion, SetUp, Lose, Leave,
              CannotWrite, Go, NoFault, Fault
<1>5. CASE \E s \in Slots : Process(s)
  BY <1>5, ProcessMoves DEF NoFault, Fault
<1>6. CASE Over
  BY <1>6 DEF Over, vars
<1> QED
  BY <1>1, <1>2, <1>3, <1>4, <1>5, <1>6 DEF Next, Client

LEMMA StraightNext == TypeInv /\ Straight /\ [Next]_vars => Straight'
<1> SUFFICES ASSUME TypeInv, Straight, [Next]_vars, faults' = 0, Able' PROVE Smooth'
  BY DEF Straight
<1>1. CASE UNCHANGED vars
  <2>1. Able /\ faults = 0
    BY <1>1 DEF vars, Able, Acceptable, SomeVersion
  <2>2. Smooth
    BY <2>1 DEF Straight
  <2> QED
    BY <1>1, <2>2 DEF vars, clientVars, serverVars, Smooth, Dialogue, AtCrypt, AtDecision, AtLogin,
       AtStatus, AtPort, AtAddrok, AtProto, AtVersion, AtWork, At, Offer
<1>2. CASE Next
  <2>1. setting' = setting /\ faults = 0
    BY <1>2, StepFaults DEF TypeInv, WorldType
  <2>2. Able /\ Smooth /\ \A kind : ~Fault(kind)
    <3>1. Able
      BY <2>1 DEF Able, Acceptable, SomeVersion
    <3> QED
      BY <2>1, <3>1, FaultCounts DEF Straight
  <2>3. CASE Over
    BY <1>1, <2>3 DEF Over
  <2> QED
    BY <1>2, <2>2, <2>3, ConnectingSmooth, PasswordSmooth, SshSmooth, VersionSmooth, DaemonSmooth,
       ProcessSmooth DEF Next, Client
<1> QED
  BY <1>1, <1>2

LEMMA StraightImplied == TypeInv /\ Straight => ExitHasReason
<1> SUFFICES ASSUME TypeInv, Straight, pc = "exit", why # "done", faults = 0,
                    Reachable, Acceptable, setting.via = "status" \/ SomeVersion
             PROVE  FALSE
  BY DEF ExitHasReason
<1>1. Able
  BY DEF Able, Reachable
<1> QED
  BY <1>1 DEF Straight, Smooth

\* When nothing has gone wrong the client gets in, unless no address of the host answers,
\* the login is not acceptable or the two programs have no version in common
\* (reconnecttoserver with both ways to connect, the login dialogue of bbftpd and
\* sendproto): addresses that do not answer, other sessions and the order in which the
\* daemon, the processes and the client take their steps are no reason to fail.
THEOREM ExitHasReasonHolds == Spec => []ExitHasReason
<1>1. Spec => []Straight
  BY TypeAlways, StraightInit, StraightNext, PTL DEF Spec
<1> QED
  BY <1>1, TypeAlways, StraightImplied, PTL
=============================================================================
