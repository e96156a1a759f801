------------------------------- MODULE Login -------------------------------
(***************************************************************************)
(* How a session starts: reconnecttoserver on the client's side, with its  *)
(* two ways to connect (a password for a daemon, or ssh), the choice of    *)
(* the protocol version and the set-up of the new connection; on the       *)
(* server's side the daemon that forks a process for every connection, the *)
(* login dialogue, the version dialogue and the time limits.  bbftpstatus, *)
(* which only asks a daemon for its status, is a third kind of client.     *)
(*                                                                         *)
(* A connection has a slot of the table sess, which can be used again once *)
(* the server's process has ended and the client has turned to another.    *)
(* "LOGGED" is all of what a session does afterwards (module Commands).    *)
(* The daemon is started before the client.                                *)
(***************************************************************************)
EXTENDS Integers, Sequences, FiniteSets

CONSTANTS
  Addresses,   \* number of addresses of the host name
  MaxTries,    \* BBftp_Globaltrymax
  MaxSessions, \* bound: slots for connections
  Settings,    \* the settings of both programs: a set of records, see SettingsAssumption
  Faults,      \* what may go wrong: a subset of AllFaults
  MaxFaults    \* bound: faults of a behaviour

AllFaults ==
  {"resource", "write", "read", "late", "nomem",             \* at the client
   "listen", "accept", "fork", "keygen", "ids", "hangup",    \* at the server
   "setup", "lost"}                                          \* of the set-up, and in use

ASSUME BoundsAssumption == /\ Addresses \in Nat \ {0} /\ MaxTries \in Nat \ {0}
                           /\ MaxSessions \in Nat \ {0} /\ MaxFaults \in Nat
ASSUME FaultsAssumption == Faults \subseteq AllFaults

\* via: how the client connects.  ssl: whether it can encrypt.  cmin, cmax, smin, smax:
\* the protocol versions of the two.  force: the server wants encryption.  cred: what
\* the user gives.  pam: what checks it.  alive: the addresses that answer.  ask: bbftpd asks
\* for the client's address.  gone: the remote directory to return to does not exist
\* any more.
ASSUME SettingsAssumption ==
  Settings \subseteq
    [via : {"password", "ssh", "status"}, ssl : BOOLEAN, force : BOOLEAN, pam : BOOLEAN,
     cred : {"good", "wrong", "unknown"}, ask : BOOLEAN, gone : BOOLEAN,
     cmin : 2..3, cmax : 2..3, smin : 1..3, smax : 1..3,
     alive : SUBSET (1..Addresses)]
\* The lowest version of a program is not above its highest (protocolmin, protocolmax).
ASSUME VersionsAssumption == \A x \in Settings : x.cmin <= x.cmax /\ x.smin <= x.smax

Slots == 1..MaxSessions

VARIABLES
  setting,     \* one of Settings
  faults,      \* number of faults so far
  pc,          \* where the client is
  try,         \* nbtrycon
  at,          \* h_addr_list: the first address still in the list
  saved,       \* sav_h_addr_list
  attempts,    \* since reconnecttoserver was called: how often each address was tried
  protocol,    \* BBftp_Protocol
  cur,         \* the slot of the client's connection
  replay,      \* what todoafterconnection will meet: "nothing" to do, "works", "fails"
  told,        \* the client has taken a refusal that is for good
  why          \* why the client has ended

VARIABLES
  daemon,      \* "starting", "serving", "asleep", "stopped"
  sess         \* the connections

\* srv: the server's process.  up, down: the messages on their way to it and back.
\* open: the client still holds its end.  held: the daemon still holds the socket of its
\* child.  ids: the user the process runs as.  version: the protocol it uses.
\* tmp: the second connection of ssh.
Free == [srv |-> "free", up |-> <<>>, down |-> <<>>, open |-> FALSE, held |-> FALSE,
         ids |-> "none", version |-> 0, tmp |-> "none"]

clientVars == <<pc, try, at, saved, attempts, protocol, cur, replay, told, why>>
serverVars == <<daemon, sess>>
vars == <<setting, faults, clientVars, serverVars>>

Init ==
  /\ setting \in Settings /\ faults = 0
  /\ pc = "connect" /\ try = 1 /\ at = 1 /\ saved = 1
  /\ attempts = [a \in 1..Addresses |-> 0]
  /\ protocol = 0 /\ cur = 0 /\ replay = "nothing" /\ told = FALSE /\ why = "none"
  /\ daemon = IF setting.via = "ssh" THEN "stopped" ELSE "starting"
  /\ sess = [s \in Slots |-> Free]

Fault(kind) == kind \in Faults /\ faults < MaxFaults /\ faults' = faults + 1
NoFault == UNCHANGED faults

Msg(code) == [code |-> code]

-----------------------------------------------------------------------------
(* The client: the rounds over the addresses of the host.                  *)

InList(a) == a <= Addresses

\* do_connect has failed: the next address of the list, or after the last one another
\* round.  bbftpstatus tries once.
NextAddress ==
  IF setting.via = "status" THEN pc' = "exit" /\ why' = "tries" /\ UNCHANGED <<at, try>>
  ELSE IF InList(at + 1) THEN /\ at' = at + 1 /\ pc' = "connect" /\ UNCHANGED <<try, why>>
  ELSE /\ at' = saved
       /\ IF try < MaxTries THEN try' = try + 1 /\ pc' = "connect" /\ UNCHANGED why
          ELSE pc' = "exit" /\ why' = "tries" /\ UNCHANGED try

\* The client closes its end; exit closes every end of the program.
Shut(s) == [sess EXCEPT ![s].open = FALSE, ![s].down = <<>>]
AllShut == [s \in Slots |-> [sess[s] EXCEPT !.open = FALSE, !.down = <<>>]]

Turn(left) == NextAddress /\ sess' = IF pc' = "exit" THEN AllShut ELSE left

ConnectFails == Turn(Shut(cur)) /\ UNCHANGED <<saved, attempts, protocol, cur, replay, told>>

\* do_connect fails and does not close its socket.
ConnectLeaks == Turn(sess) /\ UNCHANGED <<saved, attempts, protocol, cur, replay, told>>

\* The set-up fails after do_connect: reconnecttoserver starts again with the same
\* address, at once and as often as it takes.
SetupFails == pc' = "connect" /\ sess' = Shut(cur)
              /\ UNCHANGED <<try, at, saved, attempts, protocol, cur, replay, told, why>>

Exit(reason) == /\ pc' = "exit" /\ why' = reason
                /\ UNCHANGED <<try, at, saved, attempts, protocol, cur, replay>>

Usable(s) == s # cur /\ sess[s].srv \in {"free", "exit"} /\ ~sess[s].held
Slot == CHOOSE s \in Slots : Usable(s)

Count == attempts' = [attempts EXCEPT ![at] = IF @ < MaxTries THEN @ + 1 ELSE @]

\* connectviapassword: the kernel of the server completes the connection, the daemon
\* has still to accept it.
Connect ==
  /\ pc = "connect" /\ setting.via # "ssh"
  /\ at \in setting.alive /\ daemon \in {"serving", "asleep"}
  /\ \E s \in Slots : Usable(s)
  /\ sess' = [sess EXCEPT ![Slot] = [Free EXCEPT !.srv = "queued", !.open = TRUE]]
  /\ cur' = Slot /\ pc' = "crypt" /\ Count
  /\ NoFault /\ UNCHANGED <<setting, try, at, saved, protocol, replay, told, why, daemon>>

\* No socket, no connection, or no name for it.
CannotConnect ==
  /\ pc = "connect"
  /\ \/ setting.via # "ssh" /\ (at \notin setting.alive \/ daemon = "stopped") /\ NoFault
     \/ Fault("resource")
  /\ Count /\ Turn(sess)
  /\ UNCHANGED <<setting, saved, protocol, cur, replay, told, daemon>>

\* connectviassh: ssh is started with two pipes and starts bbftpd on the other side.
StartSsh ==
  /\ pc = "connect" /\ setting.via = "ssh"
  /\ \E s \in Slots : Usable(s)
  /\ sess' = [sess EXCEPT ![Slot] = [Free EXCEPT !.srv = "start", !.open = TRUE, !.ids = "user"]]
  /\ cur' = Slot /\ pc' = "port" /\ Count
  /\ NoFault /\ UNCHANGED <<setting, try, at, saved, protocol, replay, told, why, daemon>>

Send(code) == IF sess[cur].srv = "exit" THEN sess
              ELSE [sess EXCEPT ![cur].up = Append(@, Msg(code))]
CannotWrite == Fault("write") \/ (sess[cur].srv = "exit" /\ NoFault)

\* Nothing to read any more: the process has ended, and nobody else holds the socket.
Eof(s) == sess[s].down = <<>> /\ sess[s].srv = "exit" /\ ~sess[s].held

\* A read of the client fails.  It has a time limit, which is reached for certain when
\* nobody is left to answer.
CannotRead ==
  \/ Eof(cur) /\ NoFault
  \/ Fault("read")
  \/ sess[cur].down = <<>> /\ (Fault("late") \/ (sess[cur].srv = "exit" /\ NoFault))

Answer(code) == sess[cur].down # <<>> /\ Head(sess[cur].down).code = code
Refusal == sess[cur].down # <<>> /\ Head(sess[cur].down).code \in {"BAD", "BAD_NO_RETRY"}
Take == [sess EXCEPT ![cur].down = Tail(@)]

\* The answer to the message that was just read.
Reply(code) == IF sess[cur].srv = "exit" THEN Take
               ELSE [Take EXCEPT ![cur].up = Append(@, Msg(code))]
Go(state) == NoFault /\ pc' = state
             /\ UNCHANGED <<try, at, saved, attempts, protocol, cur, replay, told, why>>

\* MSG_CRYPT has come: the login, or the question whether it may be sent as it is.
ReadCrypt ==
  /\ pc = "crypt" /\ setting.via = "password" /\ Answer("CRYPT")
  /\ \/ setting.ssl /\ Go("login") /\ sess' = Reply("LOG")
     \/ ~setting.ssl /\ Go("decision") /\ sess' = Reply("CRYPT")
     \/ (Fault("nomem") \/ CannotWrite) /\ ConnectFails
  /\ UNCHANGED <<setting, daemon>>

NoCrypt ==
  /\ pc = "crypt"
  /\ CannotRead \/ (sess[cur].down # <<>> /\ ~Answer("CRYPT") /\ NoFault)
  /\ ConnectFails /\ UNCHANGED <<setting, daemon>>

\* The server takes a login that is not encrypted.
SendPlain ==
  /\ pc = "decision" /\ Answer("OK")
  /\ \/ Go("login") /\ sess' = Reply("LOG")
     \/ CannotWrite /\ ConnectFails
  /\ UNCHANGED <<setting, daemon>>

\* Mutant: every refusal is taken for one that may be tried again.
LoginRefusedRetries ==
  /\ pc \in {"decision", "login"} /\ Refusal /\ NoFault
  /\ told' = (told \/ Head(sess[cur].down).code = "BAD_NO_RETRY")
  /\ Turn(Shut(cur))
  /\ UNCHANGED <<setting, saved, attempts, protocol, cur, replay, daemon>>

\* A refusal: the next address, or the end of the program if it is for good, even
\* if its text cannot be read.  Without memory for the text the code is forgotten and
\* the socket stays open.
LoginRefused ==
  /\ pc \in {"decision", "login"} /\ Refusal
  /\ \/ /\ Head(sess[cur].down).code = "BAD" /\ (NoFault \/ Fault("read"))
        /\ ConnectFails
     \/ /\ Head(sess[cur].down).code = "BAD_NO_RETRY" /\ (NoFault \/ Fault("read"))
        /\ told' = TRUE /\ Exit("refused") /\ sess' = AllShut
     \/ Fault("nomem") /\ ConnectLeaks
  /\ UNCHANGED <<setting, daemon>>

\* No answer, or the text of an OK that cannot be read, or not be stored: then the
\* socket stays open.
NoLoginAnswer ==
  /\ pc \in {"decision", "login"}
  /\ \/ CannotRead /\ ConnectFails
     \/ Answer("OK") /\ Fault("nomem") /\ ConnectLeaks
  /\ UNCHANGED <<setting, daemon>>

\* The login is done, sendproto comes next.
LoginDone ==
  /\ pc = "login" /\ Answer("OK")
  /\ Go("proto") /\ sess' = Take /\ UNCHANGED <<setting, daemon>>

\* bbftpstatus asks its question instead, and prints the answer.
AskStatus ==
  /\ pc = "crypt" /\ setting.via = "status" /\ Answer("CRYPT")
  /\ \/ Go("status") /\ sess' = Reply("SERVER_STATUS")
     \/ (Fault("nomem") \/ CannotWrite) /\ ConnectFails
  /\ UNCHANGED <<setting, daemon>>

StatusDone ==
  /\ pc = "status"
  /\ \/ Answer("OK") /\ NoFault /\ Exit("done") /\ sess' = AllShut /\ UNCHANGED told
     \/ (CannotRead \/ (Answer("OK") /\ Fault("nomem"))) /\ ConnectFails
  /\ UNCHANGED <<setting, daemon>>

-----------------------------------------------------------------------------
(* The client: ssh.  The server says at which port it waits for a second   *)
(* connection, over which it learns the address of the client.             *)

\* An answer that is neither MSG_LOGGED_STDIN nor MSG_IPADDR, or none.
NoPort ==
  /\ pc = "port"
  /\ CannotRead \/ (Refusal /\ NoFault)
  /\ ConnectFails /\ UNCHANGED <<setting, daemon>>

\* exchange_addessses_with_server.
TellAddress ==
  /\ pc = "port" /\ Answer("IPADDR")
  /\ \/ Go("proto") /\ sess' = Reply("IPADDR_OK")
     \/ (Fault("resource") \/ CannotWrite) /\ ConnectFails
  /\ UNCHANGED <<setting, daemon>>

\* The second connection, and MSG_IPADDR on it.
ConnectBack ==
  /\ pc = "port" /\ Answer("LOGGED_STDIN")
  /\ at \in setting.alive /\ sess[cur].tmp = "listening"
  /\ Go("addrok") /\ sess' = [Take EXCEPT ![cur].tmp = "asked"]
  /\ UNCHANGED <<setting, daemon>>

\* It cannot be made.  If the list has another address the loop goes on with a socket
\* that is closed already, fails with every address that is left and restores the list:
\* all that counts is that the connection fails.
CannotConnectBack ==
  /\ pc = "port" /\ Answer("LOGGED_STDIN")
  /\ \/ (at \notin setting.alive \/ sess[cur].tmp # "listening") /\ NoFault
     \/ Fault("resource") \/ Fault("write")
  /\ ConnectFails /\ UNCHANGED <<setting, daemon>>

AddressKnown ==
  /\ pc = "addrok" /\ sess[cur].tmp = "ok"
  /\ Go("proto") /\ UNCHANGED <<setting, sess, daemon>>

AddressUnknown ==
  /\ pc = "addrok"
  /\ \/ sess[cur].tmp = "gone" /\ NoFault
     \/ Fault("read") \/ Fault("late")
  /\ ConnectFails /\ UNCHANGED <<setting, daemon>>

-----------------------------------------------------------------------------
(* The client: the version, and what has to be done on a new connection.   *)

SendProto ==
  /\ pc = "proto"
  /\ \/ Go("version") /\ sess' = Send("PROT")
     \/ CannotWrite /\ SetupFails
  /\ UNCHANGED <<setting, daemon>>

\* The wait has no time limit, only the read that follows it.
NoVersions ==
  /\ pc = "version"
  /\ (Eof(cur) /\ NoFault) \/ Fault("read")
  /\ SetupFails /\ UNCHANGED <<setting, daemon>>

\* Mutant: the highest version of the server is taken.
BestOfServer(low, high) == high

\* The highest version both have.
Best(low, high) == IF high <= setting.cmax THEN high ELSE setting.cmax

\* Mutant: the only version both have is refused.
CompatibleStrict(low, high) == high > setting.cmin /\ low <= setting.cmax

Compatible(low, high) == high >= setting.cmin /\ low <= setting.cmax

\* A refusal is taken for a server of the first version: the program ends, although it
\* may be the last word of a bbftpd that could not read the client's address.
ProtoRefused ==
  /\ pc = "version" /\ Refusal /\ NoFault
  /\ Exit("versions") /\ sess' = AllShut
  /\ UNCHANGED <<setting, told, daemon>>

ChooseVersion ==
  /\ pc = "version" /\ Answer("PROT_ANS")
  /\ LET low == Head(sess[cur].down).low
         high == Head(sess[cur].down).high
         version == Best(low, high)
     IN \/ /\ ~Compatible(low, high) /\ NoFault
           /\ Exit("versions") /\ UNCHANGED told
           /\ sess' = [AllShut EXCEPT ![cur].up = IF sess[cur].srv = "exit" THEN @
                                                  ELSE Append(@, Msg("BAD_NO_RETRY"))]
        \/ /\ Compatible(low, high)
           /\ \/ /\ NoFault /\ protocol' = version /\ pc' = "todo"
                 /\ sess' = IF sess[cur].srv = "exit" THEN Take
                            ELSE [Take EXCEPT ![cur].up =
                                    Append(@, [code |-> "PROT_ANS", version |-> version])]
                 /\ UNCHANGED <<try, at, saved, attempts, cur, replay, told, why>>
              \/ CannotWrite /\ SetupFails
  /\ UNCHANGED <<setting, daemon>>

\* todoafterconnection: a session that has ended is noticed here or by the first
\* command.  When the directory is gone it fails every time.
SetUp ==
  /\ pc = "todo"
  /\ \/ replay # "fails" /\ Go("in") /\ UNCHANGED sess
     \/ /\ replay # "nothing" /\ SetupFails
        /\ \/ (replay = "fails" \/ sess[cur].srv = "exit") /\ NoFault
           \/ Fault("setup")
  /\ UNCHANGED <<setting, daemon>>

\* The connection breaks in use: reconnecttoserver is called again, and saves the list
\* as it is now.
Lose ==
  /\ pc = "in" /\ (Fault("lost") \/ (sess[cur].srv = "exit" /\ NoFault))
  /\ pc' = "connect" /\ try' = 1 /\ saved' = at
  /\ replay' = IF setting.gone THEN "fails" ELSE "works"
  /\ attempts' = [a \in 1..Addresses |-> 0]
  /\ sess' = Shut(cur)
  /\ UNCHANGED <<setting, at, protocol, cur, told, why, daemon>>

\* The end of the program: MSG_CLOSE_CONN, which may find the session ended.
Leave ==
  /\ pc = "in" /\ NoFault
  /\ Exit("done")
  /\ sess' = [AllShut EXCEPT ![cur].up = IF sess[cur].srv = "exit" THEN @
                                         ELSE Append(@, Msg("CLOSE_CONN"))]
  /\ UNCHANGED <<setting, told, daemon>>

-----------------------------------------------------------------------------
(* The daemon.                                                             *)

StartDaemon ==
  /\ daemon = "starting"
  /\ \/ NoFault /\ daemon' = "serving"
     \/ Fault("listen") /\ daemon' = "stopped"
  /\ UNCHANGED <<setting, clientVars, sess>>

Queued(s) == sess[s].srv = "queued"

\* Mutant: the daemon keeps the socket of its child.
AcceptKeepsSocket ==
  /\ daemon = "serving" /\ NoFault
  /\ \E s \in Slots : /\ Queued(s)
                      /\ sess' = [sess EXCEPT ![s].srv = "new", ![s].ids = "root",
                                              ![s].held = TRUE]
  /\ UNCHANGED <<setting, clientVars, daemon>>

\* A process for the connection; the daemon closes its own copy of the socket.
Accept ==
  /\ daemon = "serving" /\ NoFault
  /\ \E s \in Slots : /\ Queued(s)
                      /\ sess' = [sess EXCEPT ![s].srv = "new", ![s].ids = "root"]
  /\ UNCHANGED <<setting, clientVars, daemon>>

AcceptFails ==
  /\ daemon = "serving" /\ (\E s \in Slots : Queued(s)) /\ Fault("accept")
  /\ daemon' = "asleep" /\ UNCHANGED <<setting, clientVars, sess>>

ForkFails ==
  /\ daemon = "serving" /\ Fault("fork") /\ daemon' = "asleep"
  /\ \E s \in Slots : Queued(s) /\ sess' = [sess EXCEPT ![s].srv = "exit"]
  /\ UNCHANGED <<setting, clientVars>>

\* sleep(1) is over.
Wake == daemon = "asleep" /\ NoFault /\ daemon' = "serving" /\ UNCHANGED <<setting, clientVars, sess>>

-----------------------------------------------------------------------------
(* The process of a session, up to S_LOGGED.                               *)

ServerFrame == UNCHANGED <<setting, clientVars, daemon>>

\* What the process writes; nobody may be there to read it.
Told(s, m) == IF sess[s].open THEN Append(sess[s].down, m) ELSE sess[s].down
Step(s, state) == sess' = [sess EXCEPT ![s].srv = state]
Say(s, state, m) == sess' = [sess EXCEPT ![s].srv = state, ![s].down = Told(s, m)]
Ends(s) == sess' = [sess EXCEPT ![s].srv = "exit", ![s].up = <<>>,
                                ![s].tmp = IF @ = "none" THEN @ ELSE "gone"]
SayAndEnd(s, code) ==
  sess' = [sess EXCEPT ![s].srv = "exit", ![s].up = <<>>, ![s].down = Told(s, Msg(code)),
                       ![s].tmp = IF @ = "none" THEN @ ELSE "gone"]

Next1(s) == Head(sess[s].up).code
Has(s) == sess[s].up # <<>>
Rest(s) == [sess EXCEPT ![s].up = Tail(@)]

\* sendcrypt: a key for this session, and its public part for the client.
SendCrypt(s) ==
  /\ sess[s].srv = "new"
  /\ \/ NoFault /\ Say(s, "CONN", Msg("CRYPT"))
     \/ Fault("keygen") /\ Ends(s)
  /\ ServerFrame

\* A read fails: the client's end is closed, or the time limit is reached, which is
\* certain for a client that has turned to another connection.
Silent(s) == \/ sess[s].up = <<>> /\ (~sess[s].open \/ s # cur) /\ NoFault
             \/ Fault("hangup")

\* Mutant: S_PROTWAIT has no time limit of its own.
GiveUpAtEof(s) ==
  /\ sess[s].srv \in {"CONN", "PROTWAIT", "PROT"}
  /\ sess[s].up = <<>> /\ ~sess[s].open /\ NoFault
  /\ Ends(s) /\ ServerFrame

\* S_CONN without a message, S_PROTWAIT without one for ten seconds, checkprotocol
\* without an answer: the process ends and says nothing.
GiveUpWaiting(s) ==
  /\ sess[s].srv \in {"CONN", "PROTWAIT", "PROT"} /\ Silent(s)
  /\ Ends(s) /\ ServerFrame

Status(s) ==
  /\ sess[s].srv = "CONN" /\ Has(s) /\ Next1(s) = "SERVER_STATUS" /\ NoFault
  /\ SayAndEnd(s, "OK") /\ ServerFrame

\* The client cannot encrypt: it may send its login as it is, unless force_encoding.
PlainAccepted(s) ==
  /\ sess[s].srv = "CONN" /\ Has(s) /\ Next1(s) = "CRYPT" /\ NoFault
  /\ IF setting.force THEN SayAndEnd(s, "BAD_NO_RETRY")
     ELSE sess' = [Rest(s) EXCEPT ![s].down = Told(s, Msg("OK"))]
  /\ ServerFrame

\* bbftpd_loginsequence: the name, the password and the ids of the process.  A name that
\* is not known, and an id that cannot be taken, may be tried again, and so may a wrong
\* password if it is PAM that checks it.
Login(s) ==
  /\ sess[s].srv = "CONN" /\ Has(s) /\ Next1(s) = "LOG" /\ setting.cred = "good"
  /\ \/ /\ NoFault
        /\ sess' = [Rest(s) EXCEPT ![s].srv = "PROTWAIT", ![s].ids = "user",
                                   ![s].down = Told(s, Msg("OK"))]
     \/ Fault("ids") /\ (SayAndEnd(s, "BAD") \/ Ends(s))
  /\ ServerFrame

LoginFails(s) ==
  /\ sess[s].srv = "CONN" /\ Has(s) /\ Next1(s) = "LOG" /\ setting.cred # "good" /\ NoFault
  /\ SayAndEnd(s, IF setting.cred = "unknown" \/ setting.pam THEN "BAD" ELSE "BAD_NO_RETRY")
  /\ ServerFrame

\* checkfromwhere, with the address asked for on the control connection.
AskAddress(s) ==
  /\ sess[s].srv = "start" /\ setting.ask
  /\ \/ NoFault /\ Say(s, "address", Msg("IPADDR"))
     \/ Fault("resource") /\ SayAndEnd(s, "BAD")
  /\ ServerFrame

GetAddress(s) ==
  /\ sess[s].srv = "address"
  /\ \/ Has(s) /\ Next1(s) = "IPADDR_OK" /\ NoFault /\ sess' = [Rest(s) EXCEPT ![s].srv = "PROTWAIT"]
     \/ Silent(s) /\ SayAndEnd(s, "BAD")
  /\ ServerFrame

\* checkfromwhere, with a socket of its own.
Listen(s) ==
  /\ sess[s].srv = "start" /\ ~setting.ask
  /\ \/ /\ NoFault
        /\ sess' = [sess EXCEPT ![s].srv = "listen", ![s].tmp = "listening",
                                ![s].down = Told(s, [code |-> "LOGGED_STDIN"])]
     \/ Fault("listen") /\ SayAndEnd(s, "BAD")
  /\ ServerFrame

\* Nobody connects within checkstdinto seconds: the process does not look at its stdin
\* while it waits.
NobodyCallsBack(s) ==
  /\ sess[s].srv = "listen"
  /\ \/ sess[s].tmp = "listening" /\ (~sess[s].open \/ s # cur) /\ NoFault
     \/ Fault("hangup")
  /\ SayAndEnd(s, "BAD") /\ ServerFrame

\* The second connection, MSG_IPADDR on it, and the answer.
CalledBack(s) ==
  /\ sess[s].srv = "listen" /\ sess[s].tmp = "asked" /\ NoFault
  /\ sess' = [sess EXCEPT ![s].srv = "PROTWAIT", ![s].tmp = "ok"]
  /\ ServerFrame

\* S_PROTWAIT: the versions of the server.
SendVersions(s) ==
  /\ sess[s].srv = "PROTWAIT" /\ Has(s) /\ Next1(s) = "PROT" /\ NoFault
  /\ sess' = [Rest(s) EXCEPT ![s].srv = "PROT",
                             ![s].down = Told(s, [code |-> "PROT_ANS", low |-> setting.smin,
                                                  high |-> setting.smax])]
  /\ ServerFrame

\* The version the client has chosen is taken as it comes; the server has 2 and 3.
GetVersion(s) ==
  /\ sess[s].srv = "PROT" /\ Has(s) /\ NoFault
  /\ LET m == Head(sess[s].up)
     IN IF m.code = "PROT_ANS" /\ m.version \in {2, 3}
        THEN sess' = [Rest(s) EXCEPT ![s].srv = "LOGGED", ![s].version = m.version]
        ELSE Ends(s)
  /\ ServerFrame

\* The session: until MSG_CLOSE_CONN, or the end of the connection.
Serve(s) ==
  /\ sess[s].srv = "LOGGED"
  /\ \/ Has(s) /\ NoFault
     \/ ~Has(s) /\ ~sess[s].open /\ NoFault
     \/ Fault("hangup")
  /\ Ends(s) /\ ServerFrame

-----------------------------------------------------------------------------

Connecting == Connect \/ CannotConnect \/ StartSsh
Password == ReadCrypt \/ NoCrypt \/ SendPlain \/ LoginRefused \/ NoLoginAnswer \/ LoginDone
            \/ AskStatus \/ StatusDone
Ssh == NoPort \/ TellAddress \/ ConnectBack \/ CannotConnectBack \/ AddressKnown \/ AddressUnknown
Version == SendProto \/ NoVersions \/ ProtoRefused \/ ChooseVersion \/ SetUp
Client == Connecting \/ Password \/ Ssh \/ Version
Daemon == StartDaemon \/ Accept \/ AcceptFails \/ ForkFails \/ Wake
Process(s) == SendCrypt(s) \/ GiveUpWaiting(s) \/ Status(s) \/ PlainAccepted(s) \/ Login(s)
              \/ LoginFails(s) \/ AskAddress(s) \/ GetAddress(s) \/ Listen(s)
              \/ NobodyCallsBack(s) \/ CalledBack(s) \/ SendVersions(s) \/ GetVersion(s)
              \/ Serve(s)

\* The client has ended, or the daemon waits for others.
Over == (pc = "exit" \/ daemon # "stopped") /\ UNCHANGED vars

Next == Client \/ Lose \/ Leave \/ Daemon \/ (\E s \in Slots : Process(s)) \/ Over

Fairness == /\ WF_vars(Client) /\ WF_vars(Daemon)
            /\ \A s \in Slots : WF_vars(Process(s))

Spec == Init /\ [][Next]_vars /\ Fairness

-----------------------------------------------------------------------------
(* Properties.                                                             *)

Code == {"CRYPT", "OK", "BAD", "BAD_NO_RETRY", "LOGGED_STDIN", "IPADDR", "IPADDR_OK", "LOG",
         "SERVER_STATUS", "PROT", "PROT_ANS", "CLOSE_CONN"}

\* The variables have their types.
TypeOK ==
  /\ setting \in Settings /\ faults \in 0..MaxFaults
  /\ pc \in {"connect", "crypt", "decision", "login", "status", "port", "addrok", "proto", "version",
             "todo", "in", "exit"}
  /\ try \in 1..MaxTries /\ at \in 1..Addresses /\ saved \in 1..Addresses
  /\ attempts \in [1..Addresses -> 0..MaxTries]
  /\ protocol \in 0..3 /\ cur \in 0..MaxSessions
  /\ replay \in {"nothing", "works", "fails"} /\ told \in BOOLEAN
  /\ why \in {"none", "tries", "refused", "versions", "done"}
  /\ daemon \in {"starting", "serving", "asleep", "stopped"}
  /\ \A s \in Slots :
       /\ DOMAIN sess[s] = DOMAIN Free
       /\ sess[s].srv \in {"free", "queued", "new", "CONN", "start", "address", "listen",
                           "PROTWAIT", "PROT", "LOGGED", "exit"}
       /\ \A i \in DOMAIN sess[s].up : sess[s].up[i].code \in Code
       /\ \A i \in DOMAIN sess[s].down : sess[s].down[i].code \in Code
       /\ sess[s].open \in BOOLEAN /\ sess[s].held \in BOOLEAN
       /\ sess[s].ids \in {"none", "root", "user"} /\ sess[s].version \in {0, 2, 3}
       /\ sess[s].tmp \in {"none", "listening", "asked", "ok", "gone"}

\* A session serves commands in a version that both programs have, and in the version the
\* client uses when it is the client's session (sendproto, checkprotocol: the server
\* takes the client's choice as it comes).
AgreedVersion ==
  \A s \in Slots : sess[s].srv = "LOGGED" =>
    /\ sess[s].version \in (setting.smin..setting.smax) \cap (setting.cmin..setting.cmax)
    /\ s = cur /\ pc \in {"todo", "in"} => sess[s].version = protocol

Reachable == IF setting.via = "status" THEN 1 \in setting.alive
             ELSE setting.alive \cap (saved..Addresses) # {} \/ (setting.via = "ssh" /\ setting.ask)
Acceptable == \/ setting.via # "password"
              \/ setting.cred = "good" /\ (setting.ssl \/ ~setting.force)
SomeVersion == (setting.smin..setting.smax) \cap (setting.cmin..setting.cmax) # {}

\* When nothing has gone wrong the client gets in, unless no address answers, the login
\* is not acceptable or the two have no version in common (reconnecttoserver).
ExitHasReason ==
  pc = "exit" /\ why # "done" /\ faults = 0 =>
    ~Reachable \/ ~Acceptable \/ (setting.via # "status" /\ ~SomeVersion)

\* A client that has taken MSG_BAD_NO_RETRY for its login tries no other connection: a
\* wrong password is not presented again (connectviapassword).
RefusedForGood == [][told => UNCHANGED attempts]_vars

\* A client that connects gets in or ends, although sendproto waits without a time limit
\* (every session that ends is seen to end).
ClientDecides == pc = "connect" ~> pc \in {"in", "exit"}

Abandoned(s) == sess[s].srv \notin {"free", "exit"} /\ (s # cur \/ ~sess[s].open)

\* A session the client has turned away from ends, even when the client has forgotten to
\* close its socket (the time limits of the server, and the ten seconds of S_PROTWAIT).
SessionsEnd == \A s \in Slots : Abandoned(s) ~> ~Abandoned(s)

\* "Maximum try on connection reached": what connecttoserver.c:1253 says of the loop of
\* reconnecttoserver, for a client whose set-up fails every time.
TriesEnd == pc = "connect" ~> pc \in {"in", "exit"}
=============================================================================
