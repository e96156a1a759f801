------------------------------- MODULE Client -------------------------------
(***************************************************************************)
(* The bbftp client: the loop that takes a control command, tries it up to *)
(* BBftp_Globaltrymax times and connects again when the connection broke,  *)
(* with the put and get transfers, any command with one question and one   *)
(* answer (cd, mkdir, rm, stat, df...), the children of a transfer, and    *)
(* the sessions of the server it leaves behind.                            *)
(*                                                                         *)
(* The control connections are pairs of FIFO channels.  A message carries  *)
(* the try it belongs to, <<command, tries left>>, which the program does  *)
(* not send: it lets the properties say which answer is for which try.     *)
(*                                                                         *)
(* A session of the server is the one of module Transfer seen from the     *)
(* network, its children taken together.  Every command has a destination  *)
(* file of its own, written under a temporary name (TROPT_TMP).            *)
(***************************************************************************)
EXTENDS Naturals, Sequences

CONSTANTS
  MaxTries,    \* BBftp_Globaltrymax, option -r
  MaxCommands, \* bound: commands of the control file
  MaxSessions, \* bound: connections the server accepts
  Kinds,       \* the commands used: a subset of {"put", "get", "other"}
  Faults       \* what may go wrong: a subset of AllFaults

AllFaults ==
  { "check", "write", "read", "nomem", "create", "fork", "options", "data",
    "refuse", "start", "info", "idle", "setup", "signal", "names" }

ASSUME BoundsAssumption == /\ MaxTries \in Nat \ {0}
                           /\ MaxCommands \in Nat /\ MaxSessions \in Nat \ {0}
ASSUME ChoicesAssumption == Kinds \subseteq {"put", "get", "other"} /\ Faults \subseteq AllFaults

VARIABLES
  pc,        \* where the client is
  cmd,       \* number of the current command
  kindOf,    \* what every command asks
  emptyOf,   \* whether the file it transfers is empty (BBftp_Filesize = 0)
  tries,     \* num_tries
  retcode,   \* BB_RET_*: what the last try returned
  broken,    \* BBftp_Connectionisbroken
  conn,      \* number of the current connection
  kids,      \* the children of the current try
  k,         \* no child was left at the last check
  local,     \* the temporary file of a get
  dest,      \* the destination file of every command
  reported   \* the keyword in the result file, for every command ("unset" is the
             \* OK of one whose last try returned nothing: see NoNames)

VARIABLES
  open,      \* whether the client still holds its end of a connection
  toServer, toClient,
  srv,       \* the protocol state of every session
  job,       \* the try a session works for
  skids,     \* its children
  remote     \* the temporary file of a store

clientVars == <<pc, cmd, kindOf, emptyOf, tries, retcode, broken, conn, kids, k, local, reported>>
netVars == <<open, toServer, toClient>>
serverVars == <<srv, job, skids, remote>>
vars == <<clientVars, dest, netVars, serverVars>>

Commands == 1..MaxCommands
Sessions == 1..MaxSessions
Tags == (0..MaxCommands) \X (0..MaxTries)

Requests == {"STORE", "RETR", "CMD"}
Final == {"OK", "BAD", "NORETRY"}
\* "EMPTY" is MSG_TRANS_OK_V3 for a file of size 0; "payload" the unread text of
\* an MSG_OK.
Codes == Requests \cup Final
           \cup {"ACCEPT", "EMPTY", "START", "ABORT", "ZERO", "INFO", "payload"}
Messages == [code : Codes, tag : Tags]

Try == <<cmd, tries>>
Msg(code) == [code |-> code, tag |-> Try]
Kind == kindOf[cmd]
Empty == emptyOf[cmd]

-----------------------------------------------------------------------------
Init ==
  /\ pc = "idle" /\ cmd = 0 /\ tries = 0 /\ retcode = "OK" /\ broken = FALSE
  /\ kindOf = [c \in Commands |-> "other"] /\ emptyOf = [c \in Commands |-> FALSE]
  /\ conn = 1 /\ kids = "none" /\ k = FALSE /\ local = "absent"
  /\ dest = [c \in Commands |-> "old"]
  /\ reported = [c \in Commands |-> "none"]
  /\ open = [s \in Sessions |-> s = 1]
  /\ toServer = [s \in Sessions |-> <<>>] /\ toClient = [s \in Sessions |-> <<>>]
  /\ srv = [s \in Sessions |-> IF s = 1 THEN "LOGGED" ELSE "none"]
  /\ job = [s \in Sessions |-> <<0, 0>>]
  /\ skids = [s \in Sessions |-> "none"]
  /\ remote = [s \in Sessions |-> "absent"]

-----------------------------------------------------------------------------
(* treatcommand: one command, its tries, and its report.                   *)

\* The next line of the control file.  A file of size 0 has no data.
NextCommand ==
  /\ pc = "idle" /\ cmd < MaxCommands
  /\ \E kind \in Kinds, empty \in BOOLEAN :
       /\ kind = "other" => ~empty
       /\ kindOf' = [kindOf EXCEPT ![cmd + 1] = kind]
       /\ emptyOf' = [emptyOf EXCEPT ![cmd + 1] = empty]
  /\ cmd' = cmd + 1 /\ tries' = MaxTries /\ retcode' = "OK" /\ pc' = "loop"
  /\ UNCHANGED <<broken, conn, kids, k, local, reported, dest, netVars, serverVars>>

\* Mutant: tries that are not counted.
StartTryUncounted ==
  /\ pc = "loop" /\ tries > 0
  /\ pc' = IF broken THEN "connect" ELSE "try"
  /\ UNCHANGED <<cmd, kindOf, emptyOf, tries, retcode, broken, conn, kids, k, local,
                 reported, dest, netVars, serverVars>>

\* The top of the loop: one try less, on a connection that works.
StartTry ==
  /\ pc = "loop" /\ tries > 0
  /\ tries' = tries - 1
  /\ pc' = IF broken THEN "connect" ELSE "try"
  /\ UNCHANGED <<cmd, kindOf, emptyOf, retcode, broken, conn, kids, k, local, reported,
                 dest, netVars, serverVars>>

\* do_put or do_get cannot allocate the names of its files and returns -1, which breaks the
\* loop off: retcode is what the last try has left there, and 0 if there was none.
NoNames ==
  /\ pc = "try" /\ Kind # "other" /\ "names" \in Faults
  /\ retcode' = IF retcode = "OK" THEN "unset" ELSE retcode
  /\ tries' = 0 /\ pc' = "loop"
  /\ UNCHANGED <<cmd, kindOf, emptyOf, broken, conn, kids, k, local, reported,
                 dest, netVars, serverVars>>

\* The end of the loop: OK if the last retcode is 0, by a try or because none set it.
Report ==
  /\ pc = "loop" /\ tries = 0
  /\ reported' = [reported EXCEPT ![cmd] = IF retcode \in {"OK", "unset"} THEN retcode ELSE "FAILED"]
  /\ pc' = "idle"
  /\ UNCHANGED <<cmd, kindOf, emptyOf, tries, retcode, broken, conn, kids, k, local,
                 dest, netVars, serverVars>>

NoRetryCodes == {"OK", "FT_NR", "FT_NR_CONN_BROKEN"}
BrokenCodes == {"CONN_BROKEN", "FT_NR_CONN_BROKEN"}

\* A try returns: the switch on retcode.  The pause of WAITRETRYTIME is not seen.
Return(rc) ==
  /\ retcode' = rc
  /\ broken' = (broken \/ rc \in BrokenCodes)
  /\ tries' = IF rc \in NoRetryCodes THEN 0 ELSE tries
  /\ pc' = "loop"

-----------------------------------------------------------------------------
(* reconnecttoserver.                                                      *)

Connected(ok) ==
  /\ pc = "connect" /\ conn < MaxSessions
  /\ conn' = conn + 1
  /\ srv' = [srv EXCEPT ![conn + 1] = "LOGGED"]
  /\ open' = [open EXCEPT ![conn + 1] = ok]
  /\ UNCHANGED <<cmd, kindOf, emptyOf, tries, retcode, kids, k, local, reported,
                 dest, toServer, toClient, job, skids, remote>>

Reconnect == Connected(TRUE) /\ broken' = FALSE /\ pc' = "try"

\* sendproto or todoafterconnection fails: closed, and again at once.
SetupFails == "setup" \in Faults /\ Connected(FALSE) /\ UNCHANGED <<broken, pc>>

\* Every address was tried BBftp_Globaltrymax times: the program exits.
GiveUp ==
  /\ pc = "connect" /\ "setup" \in Faults
  /\ pc' = "exit"
  /\ UNCHANGED <<cmd, kindOf, emptyOf, tries, retcode, broken, conn, kids, k, local,
                 reported, dest, netVars, serverVars>>

\* The last command was treated: MSG_CLOSE_CONN, then the socket is closed.
Quit ==
  /\ pc = "idle" /\ cmd = MaxCommands
  /\ pc' = "exit" /\ open' = [open EXCEPT ![conn] = FALSE]
  /\ toClient' = [toClient EXCEPT ![conn] = <<>>]
  /\ UNCHANGED <<cmd, kindOf, emptyOf, tries, retcode, broken, conn, kids, k, local,
                 reported, dest, toServer, serverVars>>

-----------------------------------------------------------------------------
(* What the paths through put and get are made of.                         *)

frame == <<cmd, kindOf, emptyOf, conn, reported, serverVars>>
tryVars == <<tries, broken, retcode>>

\* bbftp_close_control: what was not read yet is lost.
CloseControl ==
  /\ open' = [open EXCEPT ![conn] = FALSE]
  /\ toClient' = [toClient EXCEPT ![conn] = <<>>]

\* bbftp_clean_child.
CleanChild == kids' = "none"

\* What is sent to a session that has ended is lost.
Send(code) ==
  toServer' = IF srv[conn] = "exit" THEN toServer
              ELSE [toServer EXCEPT ![conn] = Append(@, Msg(code))]

\* writemessage fails for a fault or because the server has closed, and may
\* still succeed then.
MayNotWrite == "write" \in Faults \/ srv[conn] = "exit"

Arrived == toClient[conn] # <<>>
Got == Head(toClient[conn])
Receive == toClient' = [toClient EXCEPT ![conn] = Tail(@)]

\* select or readmessage fails: for a fault, or at the end of the connection,
\* which may also take what was sent before it; or what is left of an unread
\* message takes the place of the next one.
MayNotRead == \/ "read" \in Faults \/ srv[conn] = "exit"
              \/ Arrived /\ Got.code = "payload"

\* What every broken try comes to: no child, no file, no connection.
Broken(rc) ==
  /\ CleanChild /\ local' = "absent" /\ CloseControl /\ Return(rc)
  /\ UNCHANGED <<frame, k, dest, toServer>>

-----------------------------------------------------------------------------
(* The request.                                                            *)

\* bbftp_retrcheckfile or bbftp_storecheckfile refuses the local file.
CheckFails ==
  /\ pc = "try" /\ "check" \in Faults /\ Kind # "other"
  /\ \E rc \in {"FT_NR", "ERROR"} : Return(rc)
  /\ UNCHANGED <<frame, kids, k, local, dest, netVars>>

Ask(kind, code) ==
  /\ pc = "try" /\ Kind = kind
  /\ Send(code) /\ pc' = "answer"
  /\ UNCHANGED <<frame, tryVars, kids, k, local, dest, open, toClient>>

PutAsk == Ask("put", "STORE")
GetAsk == Ask("get", "RETR")
CommandAsk == Ask("other", "CMD")

AskFails == pc = "try" /\ MayNotWrite /\ Broken("CONN_BROKEN")

Expected ==
  CASE Kind = "put" -> Final \cup {"ACCEPT"}
    [] Kind = "get" -> {"BAD", "NORETRY", "ACCEPT", "EMPTY"}
    [] OTHER        -> Final

\* waitcontrol1: there is no limit to the time this takes.
AnswerBroken ==
  /\ pc = "answer"
  /\ MayNotRead \/ (Arrived /\ Got.code \notin Expected)
  /\ \/ Broken("CONN_BROKEN")
     \/ Arrived /\ Got.code = "NORETRY" /\ Broken("FT_NR_CONN_BROKEN")

Answered(code) == pc = "answer" /\ Arrived /\ Got.code = code /\ code \in Expected /\ Receive

\* MSG_BAD and MSG_BAD_NO_RETRY.
Refused ==
  /\ \/ Answered("BAD") /\ Return("ERROR")
     \/ Answered("NORETRY") /\ Return("FT_NR")
  /\ UNCHANGED <<frame, kids, k, local, dest, open, toServer>>

\* The answer to a command, and to the put of an empty file.
AnsweredOk ==
  /\ Answered("OK") /\ Return("OK")
  /\ UNCHANGED <<frame, kids, k, local, dest, open, toServer>>

Accepted ==
  /\ \/ Answered("ACCEPT") /\ pc' = "prepare"
     \/ Answered("EMPTY") /\ pc' = "zero"
  /\ UNCHANGED <<frame, tryVars, kids, k, local, dest, open, toServer>>

-----------------------------------------------------------------------------
(* Between the acceptance and the start.                                   *)

\* MSG_ABORT, and the try has failed; the abort may not go out.
Abort(rc, brokenRc) ==
  \/ /\ Send("ABORT") /\ Return(rc)
     /\ UNCHANGED <<frame, kids, k, local, dest, open, toClient>>
  \/ MayNotWrite /\ Broken(brokenRc)

\* A buffer cannot be allocated or (protocol 2) a port cannot be opened.
PutGivesUp == pc = "prepare" /\ Kind = "put" /\ "nomem" \in Faults /\ Abort("ERROR", "CONN_BROKEN")
GetGivesUp == pc = "prepare" /\ Kind = "get" /\ "nomem" \in Faults /\ Abort("ERROR", "CONN_BROKEN")

\* bbftp_storecreatefile fails, for good or not.
CreateFails ==
  /\ pc \in {"prepare", "zero"} /\ Kind = "get" /\ "create" \in Faults
  /\ Abort("FT_NR", "FT_NR_CONN_BROKEN") \/ Abort("ERROR", "CONN_BROKEN")

\* A fork fails: the children are killed and the file of a get removed, but the
\* server is not told.
StartFails(kind) ==
  /\ pc = "prepare" /\ Kind = kind /\ "fork" \in Faults
  /\ Return("ERROR")
  /\ UNCHANGED <<frame, kids, k, local, dest, netVars>>

PutStartFails == StartFails("put")
GetStartFails == StartFails("get")

\* The children are started, then the server is told.
Start(kind, file) ==
  /\ pc = "prepare" /\ Kind = kind
  /\ \/ /\ kids' = "running" /\ k' = FALSE /\ local' = file
        /\ Send("START") /\ pc' = "wait"
        /\ UNCHANGED <<frame, tryVars, dest, open, toClient>>
     \/ MayNotWrite /\ Broken("CONN_BROKEN")

PutStart == Start("put", "absent")
GetStart == Start("get", "partial")

\* The get of an empty file: created and renamed, then the server is told.
GetEmpty ==
  /\ pc = "zero"
  /\ dest' = [dest EXCEPT ![cmd] = "new"]
  /\ UNCHANGED <<frame, kids, k, local>>
  /\ \/ Send("ZERO") /\ Return("OK") /\ UNCHANGED <<open, toClient>>
     \/ MayNotWrite /\ CloseControl /\ Return("CONN_BROKEN") /\ UNCHANGED toServer

\* It cannot be renamed: MSG_ABORT ...
GetEmptyNotRenamed == pc = "zero" /\ "options" \in Faults /\ Abort("ERROR", "CONN_BROKEN")

\* ... or its mode cannot be set: the server is not told.
GetEmptyModeFails ==
  /\ pc = "zero" /\ "options" \in Faults
  /\ Return("ERROR")
  /\ UNCHANGED <<frame, kids, k, local, dest, netVars>>

-----------------------------------------------------------------------------
(* waitcontrol: the end of a transfer.                                     *)

\* After CHECKCHILDTIME without an answer: a first waitpid collects the children
\* that have ended, a second one finds them gone.
CheckChildren ==
  /\ pc = "wait" /\ ~Arrived /\ kids = "ended"
  /\ kids' = "collected"
  /\ UNCHANGED <<frame, pc, tryVars, k, local, dest, netVars>>

\* "First time we get here let a chance to get an answer on control socket".
FirstTimeNoChild ==
  /\ pc = "wait" /\ ~Arrived /\ kids = "collected" /\ ~k
  /\ k' = TRUE
  /\ UNCHANGED <<frame, pc, tryVars, kids, local, dest, netVars>>

\* Mutant: without children the try is over, but the connection is kept.
NoMoreChildKeeps ==
  /\ pc = "wait" /\ ~Arrived /\ kids = "collected" /\ k
  /\ CleanChild /\ local' = "absent" /\ Return("ERROR")
  /\ UNCHANGED <<frame, k, dest, netVars>>

NoMoreChild ==
  /\ pc = "wait" /\ ~Arrived /\ kids = "collected" /\ k
  /\ Broken("CONN_BROKEN")

\* The connection fails or brings something else.
WaitBroken ==
  /\ pc = "wait"
  /\ MayNotRead \/ (Arrived /\ Got.code \notin Final \cup {"INFO"})
  /\ Broken("CONN_BROKEN")

Ended(code) == pc = "wait" /\ Arrived /\ Got.code = code

Informed ==
  /\ Ended("INFO") /\ Receive
  /\ UNCHANGED <<frame, pc, tryVars, kids, k, local, dest, open, toServer>>

\* Mutant: the temporary file stays.
TransferFailedKeepsFile ==
  /\ \/ Ended("BAD") /\ Return("ERROR")
     \/ Ended("NORETRY") /\ Return("FT_NR")
  /\ Receive /\ CleanChild
  /\ UNCHANGED <<frame, k, local, dest, open, toServer>>

\* MSG_BAD and MSG_BAD_NO_RETRY.
TransferFailed ==
  /\ \/ Ended("BAD") /\ Return("ERROR")
     \/ Ended("NORETRY") /\ Return("FT_NR")
  /\ Receive /\ CleanChild /\ local' = "absent"
  /\ UNCHANGED <<frame, k, dest, open, toServer>>

PutDone ==
  /\ Ended("OK") /\ Kind = "put"
  /\ Receive /\ CleanChild /\ Return("OK")
  /\ UNCHANGED <<frame, k, local, dest, open, toServer>>

\* The options are applied, the file renamed, the text of the message read.
GetDone ==
  /\ Ended("OK") /\ Kind = "get"
  /\ dest' = [dest EXCEPT ![cmd] = IF local = "full" THEN "new" ELSE "part"]
  /\ local' = "absent" /\ CleanChild /\ Receive /\ Return("OK")
  /\ UNCHANGED <<frame, k, open, toServer>>

\* Mutant: the failure is forgotten.
GetDoneAnyway ==
  /\ Ended("OK") /\ Kind = "get" /\ "options" \in Faults
  /\ local' = "absent" /\ CleanChild /\ Receive /\ Return("OK")
  /\ UNCHANGED <<frame, k, dest, open, toServer>>

\* The options cannot be applied: the text of the message is not read.
GetDoneFails ==
  /\ Ended("OK") /\ Kind = "get" /\ "options" \in Faults
  /\ local' = "absent" /\ CleanChild /\ Return("ERROR")
  /\ toClient' = [toClient EXCEPT ![conn] = <<Msg("payload")>> \o Tail(@)]
  /\ UNCHANGED <<frame, k, dest, open, toServer>>

\* bbftp_sigint and bbftp_sigterm: the file of a get is removed (BBftp_State = 1),
\* the children are killed, the program exits.
Signalled ==
  /\ pc # "exit" /\ "signal" \in Faults
  /\ pc' = "exit" /\ local' = "absent" /\ CleanChild
  /\ CloseControl
  /\ UNCHANGED <<frame, tryVars, k, dest, toServer>>

-----------------------------------------------------------------------------
(* The children of both sides.                                             *)

childFrame == <<pc, cmd, kindOf, emptyOf, tries, retcode, broken, conn, k, reported, netVars, srv, job>>

\* The children of the client and those of session s are connected.
Joined(s) == s = conn /\ kids = "running" /\ skids[s] = "running" /\ job[s] = Try

\* All the data was received, written and acknowledged; the acknowledgements are
\* on their way.
PutData(s) ==
  /\ Joined(s) /\ Kind = "put"
  /\ remote' = [remote EXCEPT ![s] = "full"]
  /\ skids' = [skids EXCEPT ![s] = "done"] /\ kids' = "acked"
  /\ UNCHANGED <<childFrame, local, dest>>

GetData(s) ==
  /\ Joined(s) /\ Kind = "get"
  /\ local' = "full"
  /\ kids' = "ended" /\ skids' = [skids EXCEPT ![s] = "acked"]
  /\ UNCHANGED <<childFrame, dest, remote>>

\* The sender gets its acknowledgements and ends.
PutAcked ==
  /\ kids = "acked" /\ kids' = "ended"
  /\ UNCHANGED <<childFrame, local, dest, skids, remote>>

GetAcked(s) ==
  /\ skids[s] = "acked" /\ skids' = [skids EXCEPT ![s] = "done"]
  /\ UNCHANGED <<childFrame, kids, local, dest, remote>>

\* A child of the client fails, or waits in vain for the server's.
NotServed ==
  \/ "data" \in Faults \/ skids[conn] = "bad" \/ srv[conn] = "exit"
  \/ srv[conn] \in {"LOGGED", "CLEAN"} /\ toServer[conn] = <<>>
KidsFail ==
  /\ kids = "running" /\ NotServed
  /\ kids' = "ended" /\ local' = IF Kind = "get" THEN "absent" ELSE local
  /\ UNCHANGED <<childFrame, dest, skids, remote>>

\* Mutant: it exits with status 0.
SkidsFailQuietly(s) ==
  /\ skids[s] \in {"running", "acked"}
  /\ "data" \in Faults \/ (skids[s] = "running" /\ ~Joined(s))
  /\ skids' = [skids EXCEPT ![s] = "done"]
  /\ UNCHANGED <<childFrame, kids, local, dest, remote>>

\* A child of the server fails: of its own, or because the client's are gone.  A
\* receiving one removes the file.
SkidsFail(s) ==
  /\ skids[s] \in {"running", "acked"}
  /\ "data" \in Faults \/ (skids[s] = "running" /\ ~Joined(s))
  /\ skids' = [skids EXCEPT ![s] = "bad"] /\ remote' = [remote EXCEPT ![s] = "absent"]
  /\ UNCHANGED <<childFrame, kids, local, dest>>

-----------------------------------------------------------------------------
(* A session of the server (module Transfer shows its inside).             *)

serverFrame == <<clientVars, open>>

Pending(s, code) == toServer[s] # <<>> /\ Head(toServer[s]).code = code
Take(s) == toServer' = [toServer EXCEPT ![s] = Tail(@)]
\* Nobody reads what is sent to a client that has left.
Reply(s, code, tag) ==
  toClient' = IF open[s] THEN [toClient EXCEPT ![s] = Append(@, [code |-> code, tag |-> tag])]
                         ELSE toClient
Asked(s) == Head(toServer[s]).tag
EmptyFor(tag) == emptyOf[tag[1]]

Refusals == {"BAD", "NORETRY"}

\* MSG_STORE_V2 and its MSG_FILENAME.
ServeStore(s) ==
  /\ srv[s] = "LOGGED" /\ Pending(s, "STORE") /\ Take(s)
  /\ job' = [job EXCEPT ![s] = Asked(s)]
  /\ UNCHANGED <<serverFrame, skids>>
  /\ \/ /\ ~EmptyFor(Asked(s)) /\ Reply(s, "ACCEPT", Asked(s))
        /\ srv' = [srv EXCEPT ![s] = "START"]
        /\ remote' = [remote EXCEPT ![s] = "partial"] /\ UNCHANGED dest
     \/ /\ EmptyFor(Asked(s)) /\ Reply(s, "OK", Asked(s))
        /\ dest' = [dest EXCEPT ![Asked(s)[1]] = "new"] /\ UNCHANGED <<srv, remote>>
     \/ /\ "refuse" \in Faults /\ \E code \in Refusals : Reply(s, code, Asked(s))
        /\ UNCHANGED <<srv, remote, dest>>

\* MSG_RETR_V2 and its MSG_FILENAME.
ServeRetr(s) ==
  /\ srv[s] = "LOGGED" /\ Pending(s, "RETR") /\ Take(s)
  /\ job' = [job EXCEPT ![s] = Asked(s)]
  /\ UNCHANGED <<serverFrame, skids, remote, dest>>
  /\ \/ ~EmptyFor(Asked(s)) /\ Reply(s, "ACCEPT", Asked(s)) /\ srv' = [srv EXCEPT ![s] = "START"]
     \/ EmptyFor(Asked(s)) /\ Reply(s, "EMPTY", Asked(s)) /\ srv' = [srv EXCEPT ![s] = "ZERO"]
     \/ "refuse" \in Faults /\ (\E code \in Refusals : Reply(s, code, Asked(s))) /\ UNCHANGED srv

\* Any command answered at once.
ServeCommand(s) ==
  /\ srv[s] = "LOGGED" /\ Pending(s, "CMD") /\ Take(s)
  /\ \E code \in {"OK"} \cup (IF "refuse" \in Faults THEN Refusals ELSE {}) :
       Reply(s, code, Asked(s))
  /\ UNCHANGED <<serverFrame, dest, serverVars>>

\* The children are forked, perhaps after a word about the size of the socket
\* buffers; a failed start is answered MSG_BAD.
ServeStart(s) ==
  /\ srv[s] = "START" /\ Pending(s, "START") /\ Take(s)
  /\ UNCHANGED <<serverFrame, dest, job>>
  /\ \/ /\ srv' = [srv EXCEPT ![s] = "BUSY"] /\ skids' = [skids EXCEPT ![s] = "running"]
        /\ UNCHANGED remote
        /\ \/ UNCHANGED toClient
           \/ "info" \in Faults /\ Reply(s, "INFO", job[s])
     \/ /\ "start" \in Faults /\ Reply(s, "BAD", job[s])
        /\ srv' = [srv EXCEPT ![s] = "LOGGED"] /\ remote' = [remote EXCEPT ![s] = "absent"]
        /\ UNCHANGED skids

\* MSG_ABORT before the start, MSG_CREATE_ZERO: the request is closed.
ServeClosed(s) ==
  /\ \/ srv[s] = "START" /\ Pending(s, "ABORT")
     \/ srv[s] = "ZERO" /\ (Pending(s, "ZERO") \/ Pending(s, "ABORT"))
  /\ Take(s)
  /\ srv' = [srv EXCEPT ![s] = "LOGGED"] /\ remote' = [remote EXCEPT ![s] = "absent"]
  /\ UNCHANGED <<serverFrame, dest, toClient, job, skids>>

\* Mutant: the file of a store stays.
EndSessionKeepsFile(s) ==
  /\ srv' = [srv EXCEPT ![s] = "exit"] /\ skids' = [skids EXCEPT ![s] = "none"]
  /\ job' = [job EXCEPT ![s] = <<0, 0>>] /\ toServer' = [toServer EXCEPT ![s] = <<>>]
  /\ UNCHANGED <<serverFrame, dest, remote>>

\* The session ends: its children are killed, the file of a store is removed, and
\* what it has not read is lost.
EndSession(s) ==
  /\ srv' = [srv EXCEPT ![s] = "exit"] /\ skids' = [skids EXCEPT ![s] = "none"]
  /\ remote' = [remote EXCEPT ![s] = "absent"]
  /\ job' = [job EXCEPT ![s] = <<0, 0>>] /\ toServer' = [toServer EXCEPT ![s] = <<>>]
  /\ UNCHANGED <<serverFrame, dest>>

\* do_invalid_msg_for_state.
ServeInvalid(s) ==
  /\ toServer[s] # <<>>
  /\ \/ srv[s] = "LOGGED" /\ Head(toServer[s]).code \notin Requests
     \/ srv[s] = "START" /\ Head(toServer[s]).code \notin {"START", "ABORT"}
     \/ srv[s] = "ZERO" /\ Head(toServer[s]).code \notin {"ZERO", "ABORT"}
  /\ Reply(s, "NORETRY", Asked(s)) /\ EndSession(s)

\* handle_receiving and handle_sending: no message is welcome.
ServeInterrupted(s) ==
  /\ srv[s] \in {"BUSY", "CLEAN"} /\ toServer[s] # <<>>
  /\ EndSession(s) /\ UNCHANGED toClient

\* bbftpd_msgread_msg fails at the end of the connection, which may take the last
\* messages with it.
ServeEof(s) ==
  /\ srv[s] \notin {"none", "exit"} /\ ~open[s]
  /\ EndSession(s) /\ UNCHANGED toClient

\* The timer of select: 10 s in a store that was accepted, 900 s otherwise.
ServeTimeout(s) ==
  /\ srv[s] \in {"LOGGED", "START", "ZERO"} /\ toServer[s] = <<>> /\ "idle" \in Faults
  /\ EndSession(s) /\ UNCHANGED toClient

\* The last child of a successful transfer was collected.
ServeFinish(s) ==
  /\ srv[s] = "BUSY" /\ skids[s] = "done"
  /\ skids' = [skids EXCEPT ![s] = "none"] /\ srv' = [srv EXCEPT ![s] = "LOGGED"]
  /\ remote' = [remote EXCEPT ![s] = "absent"]
  /\ UNCHANGED <<serverFrame, toServer, job>>
  /\ \/ /\ Reply(s, "OK", job[s])
        /\ dest' = IF remote[s] = "absent" THEN dest
                   ELSE [dest EXCEPT ![job[s][1]] = IF remote[s] = "full" THEN "new" ELSE "part"]
     \/ /\ "options" \in Faults /\ remote[s] # "absent"
        /\ Reply(s, "BAD", job[s]) /\ UNCHANGED dest

\* The first child that failed was collected, the others are killed ...
ServeFailed(s) ==
  /\ srv[s] = "BUSY" /\ skids[s] = "bad"
  /\ srv' = [srv EXCEPT ![s] = "CLEAN"] /\ remote' = [remote EXCEPT ![s] = "absent"]
  /\ \E code \in Refusals : Reply(s, code, job[s])
  /\ UNCHANGED <<serverFrame, dest, toServer, job, skids>>

\* ... and collected in their turn.
ServeCleaned(s) ==
  /\ srv[s] = "CLEAN"
  /\ srv' = [srv EXCEPT ![s] = "LOGGED"] /\ skids' = [skids EXCEPT ![s] = "none"]
  /\ UNCHANGED <<serverFrame, dest, toServer, toClient, job, remote>>

-----------------------------------------------------------------------------
Loop == NextCommand \/ StartTry \/ Report \/ Reconnect \/ Quit

Transfer == \/ PutAsk \/ GetAsk \/ CommandAsk \/ AnswerBroken \/ Refused \/ AnsweredOk \/ Accepted
            \/ PutGivesUp \/ GetGivesUp \/ CreateFails
            \/ PutStart \/ GetStart \/ GetEmpty \/ GetEmptyNotRenamed
            \/ CheckChildren \/ FirstTimeNoChild \/ NoMoreChild \/ WaitBroken \/ Informed
            \/ TransferFailed \/ PutDone \/ GetDone \/ GetDoneFails

Mishap == \/ NoNames \/ CheckFails \/ AskFails \/ SetupFails \/ GiveUp
          \/ PutStartFails \/ GetStartFails \/ GetEmptyModeFails \/ Signalled

Children(s) == PutData(s) \/ GetData(s) \/ GetAcked(s) \/ SkidsFail(s)

Serve(s) == \/ ServeStore(s) \/ ServeRetr(s) \/ ServeCommand(s) \/ ServeStart(s)
            \/ ServeClosed(s) \/ ServeInvalid(s) \/ ServeInterrupted(s) \/ ServeEof(s)
            \/ ServeFinish(s) \/ ServeFailed(s) \/ ServeCleaned(s)

\* The bound MaxSessions: the program would try for ever to connect.
OutOfSessions == pc = "connect" /\ conn = MaxSessions

\* The program has exited, or may not connect any more.
Over == (pc = "exit" \/ OutOfSessions) /\ UNCHANGED vars

Next == \/ Loop \/ Transfer \/ Mishap \/ PutAcked \/ KidsFail
        \/ \E s \in Sessions : Children(s) \/ Serve(s) \/ ServeTimeout(s)
        \/ Over

\* The client and the server run, and the children serve each other or time out;
\* nothing is assumed of what may go wrong.
Fairness == /\ WF_vars(Loop) /\ WF_vars(Transfer) /\ WF_vars(PutAcked) /\ WF_vars(KidsFail)
            /\ \A s \in Sessions : WF_vars(Children(s)) /\ WF_vars(Serve(s))

Spec == Init /\ [][Next]_vars /\ Fairness

-----------------------------------------------------------------------------
(* Properties.                                                             *)

TypeOK ==
  /\ pc \in {"idle", "loop", "connect", "try", "answer", "prepare", "zero", "wait", "exit"}
  /\ cmd \in 0..MaxCommands /\ tries \in 0..MaxTries /\ conn \in Sessions
  /\ kindOf \in [Commands -> {"put", "get", "other"}] /\ emptyOf \in [Commands -> BOOLEAN]
  /\ retcode \in {"OK", "ERROR", "unset"} \cup NoRetryCodes \cup BrokenCodes
  /\ broken \in BOOLEAN /\ k \in BOOLEAN
  /\ kids \in {"none", "running", "acked", "ended", "collected"}
  /\ local \in {"absent", "partial", "full"}
  /\ dest \in [Commands -> {"old", "new", "part"}]
  /\ reported \in [Commands -> {"none", "OK", "unset", "FAILED"}]
  /\ open \in [Sessions -> BOOLEAN]
  /\ toServer \in [Sessions -> Seq(Messages)] /\ toClient \in [Sessions -> Seq(Messages)]
  /\ srv \in [Sessions -> {"none", "LOGGED", "START", "ZERO", "BUSY", "CLEAN", "exit"}]
  /\ job \in [Sessions -> Tags]
  /\ skids \in [Sessions -> {"none", "running", "acked", "done", "bad"}]
  /\ remote \in [Sessions -> {"absent", "partial", "full"}]

\* The keyword OK of the result file is true: the destination of a transfer that
\* was reported OK holds the new file, whatever sessions of earlier tries do.  Excepted
\* is the OK of a transfer that could not even begin (NoNames), which is false.
OkMeansTransferred ==
  \A c \in Commands : reported[c] = "OK" /\ kindOf[c] # "other" => dest[c] = "new"

\* A destination is replaced only by a complete file (TROPT_TMP).
NeverPartial == \A c \in Commands : dest[c] # "part"

\* Between two tries, and when the program exits, nothing of a try is left: no
\* child runs and no temporary file stays on the client's side.
TriesAreClean ==
  pc \in {"idle", "loop", "connect", "try", "exit"} => kids = "none" /\ local = "absent"

\* A retry is not answered with what the server said of an earlier try: what the
\* client may read, but for the rest of a message, is about this try.
AnswersAreCurrent ==
  pc \in {"answer", "prepare", "zero", "wait"} =>
    \A n \in 1..Len(toClient[conn]) :
      toClient[conn][n].code = "payload" \/ toClient[conn][n].tag = Try

\* Every command ends and is reported, or the program exits, as long as it can
\* connect again: reconnecttoserver tries for ever when the set-up of a connection
\* fails, here until MaxSessions is reached.
CommandsEnd == pc = "loop" ~> pc \in {"idle", "exit"} \/ OutOfSessions

\* A session the client has left ends and leaves no temporary file.
LeftSessionsEnd ==
  \A s \in Sessions : srv[s] # "none" /\ ~open[s] ~> srv[s] = "exit" /\ remote[s] = "absent"

=============================================================================
