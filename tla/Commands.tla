------------------------------ MODULE Commands ------------------------------
(***************************************************************************)
(* The commands of the control connection that move no file by themselves, *)
(* on both sides: cd, mkdir, rm, stat, df, dir, setremoteumask and         *)
(* setremotecos, the commands that change the client only, and mget and    *)
(* mput, which run many transfers in one command.                          *)
(*                                                                         *)
(* What the user has asked for is kept in three places that must agree:  *)
(* what its user believes, the globals the client replays on a new         *)
(* connection (todoafterconnection), and the settings of the server's      *)
(* process, which are lost with it.  The server's directories are a tree   *)
(* of paths below the directory it logs in to.                             *)
(*                                                                         *)
(* Connecting and logging in is one step here (module Login), and so is a  *)
(* transfer of mget and mput (modules Client and Transfer).                *)
(***************************************************************************)
EXTENDS Integers, Sequences, SequencesExt

CONSTANTS
  MaxTries,     \* BBftp_Globaltrymax
  MaxCommands,  \* bound: commands of the control file
  MaxSessions,  \* bound: connections the server accepts
  Operations,   \* the commands the control file may hold: [kind, arg, val]
  Dirs, Files,  \* the directories and the files of the server at the start
  LocalFiles,   \* what mput finds in the client's directory
  DefaultUmask, \* BBFTPD_DEFAULT_UMASK
  Faults        \* what may go wrong: a subset of AllFaults

AllFaults == {"write", "read", "nomem", "refuse", "getcwd", "servermem", "unread", "reply",
              "idle", "setup", "transfer"}

Simple == {"cd", "mkdir", "rm", "stat", "df", "dir", "umask", "cos"}
Many == {"mget", "mput"}
Local == {"lcd", "set", "rfio", "createdir", "badoption", "unknown"}
Kinds == Simple \cup Many \cup Local

ASSUME BoundsAssumption == /\ MaxTries \in Nat \ {0}
                           /\ MaxCommands \in Nat /\ MaxSessions \in Nat \ {0}
ASSUME FilesAssumption == <<>> \in Dirs /\ Dirs \cap Files = {}
ASSUME FaultsAssumption == Faults \subseteq AllFaults
ASSUME OperationsAssumption ==
  \A o \in Operations : o.kind \in Kinds /\ o.arg \in Seq(STRING) /\ o.val \in Nat

VARIABLES
  pc,          \* where the client is
  cmd,         \* number of the current command
  op,          \* the command
  tries,       \* num_tries
  retcode,     \* what the last try returned
  errcode,     \* errcode: whether a function of this command has set it
  broken,      \* BBftp_Connectionisbroken
  todo,        \* todoafterconnection: the settings still to be replayed
  conn,        \* number of the current connection
  remotedir,   \* BBftp_Remotedir: <<the directory>>, NoDir before the first cd
  remoteumask, \* BBftp_remoteumask, 0 before it is set
  remotecos,   \* BBftp_Remotecos, -1 before it is set
  options,     \* BBftp_Transferoption
  exitcode,    \* whether BBftp_Myexitcode is not 0
  reported     \* the keyword in the result file, for every command

VARIABLES      \* mget and mput
  left,        \* filelist: the files still to be transferred
  file,        \* the one at work
  ftries,      \* how often it may be tried still
  back,        \* where reconnecttoserver returns to
  lines,       \* the result lines of this command: <<file, whether it says OK>>
  cut,         \* bbftp_retrlistdir has cut the pattern of mput
  fetched      \* the paths of the server this command has really read or written

VARIABLES      \* what the user believes, and the last answer that was taken
  believed,    \* the directory his cds have led to
  mask,        \* the umask he has set
  got          \* the answer that said that his command was done; awaited: it was this try's

VARIABLES
  open,        \* whether the client still holds its end of a connection
  toServer, toClient,
  srv,         \* the session: "none", "LOGGED", "exit"
  cwd, umask,  \* of its process
  topt,        \* transferoption: what the last message that sets it has left
  confused,    \* the session has answered a request twice, or lost its place
  dirs, files  \* of the server

workVars == <<cmd, op, tries, errcode, reported, back>>
settingVars == <<remotedir, remoteumask, remotecos, options>>
manyVars == <<left, file, ftries, lines, cut, fetched>>
userVars == <<believed, mask, got>>
serverVars == <<srv, cwd, umask, topt, confused, dirs, files>>
vars == <<pc, workVars, retcode, broken, todo, conn, settingVars, exitcode, manyVars, userVars,
          open, toServer, toClient, serverVars>>

Commands == 1..MaxCommands
Sessions == 1..MaxSessions
NoDir == <<>>
Unknown == <<"text">>  \* a text that is not a directory, taken for one

\* The setting todoafterconnection replays next.
First == IF "umask" \in todo THEN "umask" ELSE IF "cos" \in todo THEN "cos" ELSE "cd"
Tag == <<cmd, tries, IF todo = {} THEN "user" ELSE First>>

\* The path a name leads to from a directory.
Enter(dir, name) == IF name = ".." THEN (IF dir = <<>> THEN dir ELSE Front(dir))
                    ELSE Append(dir, name)
Resolve(dir, arg) == FoldLeft(Enter, dir, arg)
Refusals == {"BAD", "NORETRY"}

-----------------------------------------------------------------------------
(* The client: treatcommand and process_command_list.                      *)

Init ==
  /\ pc = "idle" /\ cmd = 0 /\ op = [kind |-> "set", arg |-> <<>>, val |-> 0]
  /\ tries = 0 /\ retcode = "OK" /\ errcode = FALSE /\ broken = FALSE /\ todo = {} /\ conn = 1
  /\ remotedir = NoDir /\ remoteumask = 0 /\ remotecos = -1 /\ options = {}
  /\ exitcode = FALSE /\ reported = [c \in Commands |-> "none"]
  /\ left = {} /\ file = <<>> /\ ftries = 0 /\ back = "try" /\ cut = FALSE
  /\ lines = {} /\ fetched = {}
  /\ believed = <<>> /\ mask = DefaultUmask
  /\ got = [tag |-> <<0, 0, "user">>, awaited |-> FALSE, at |-> <<>>, done |-> FALSE, sure |-> TRUE]
  /\ open = [s \in Sessions |-> s = 1]
  /\ toServer = [s \in Sessions |-> <<>>] /\ toClient = [s \in Sessions |-> <<>>]
  /\ srv = [s \in Sessions |-> IF s = 1 THEN "LOGGED" ELSE "none"]
  /\ cwd = [s \in Sessions |-> <<>>] /\ umask = [s \in Sessions |-> DefaultUmask]
  /\ topt = [s \in Sessions |-> {}] /\ confused = [s \in Sessions |-> FALSE]
  /\ dirs = Dirs /\ files = Files

NextCommand ==
  /\ pc = "idle" /\ cmd < MaxCommands
  /\ \E o \in Operations : op' = o
  /\ cmd' = cmd + 1 /\ tries' = MaxTries /\ retcode' = "OK" /\ errcode' = FALSE /\ cut' = FALSE
  /\ lines' = {} /\ fetched' = {} /\ pc' = "loop"
  /\ UNCHANGED <<broken, todo, conn, settingVars, exitcode, reported, back, left, file, ftries,
                 userVars, open, toServer, toClient, serverVars>>

\* find_cmd, and the number of arguments: no try is made of such a command.
RefuseCommand ==
  /\ pc = "loop" /\ op.kind = "unknown"
  /\ reported' = [reported EXCEPT ![cmd] = "FAILED"] /\ pc' = "idle"
  /\ UNCHANGED <<cmd, op, tries, errcode, back, retcode, broken, todo, conn, settingVars,
                 exitcode, manyVars, userVars, open, toServer, toClient, serverVars>>

\* The top of the loop, reconnecting if the last try or command has left a broken
\* connection.
StartTry ==
  /\ pc = "loop" /\ op.kind # "unknown" /\ tries > 0
  /\ tries' = tries - 1 /\ back' = "try"
  /\ pc' = IF broken THEN "connect" ELSE "try"
  /\ UNCHANGED <<cmd, op, errcode, reported, retcode, broken, todo, conn, settingVars, exitcode,
                 manyVars, userVars, open, toServer, toClient, serverVars>>

\* The end of the loop: the exit code of the program becomes errcode, which an
\* option without a name does not set.
Report ==
  /\ pc = "loop" /\ op.kind # "unknown" /\ tries = 0
  /\ reported' = [reported EXCEPT ![cmd] = IF retcode = "OK" THEN "OK" ELSE "FAILED"]
  /\ exitcode' = IF retcode = "OK" THEN exitcode ELSE errcode
  /\ pc' = "idle"
  /\ UNCHANGED <<cmd, op, tries, errcode, back, retcode, broken, todo, conn, settingVars,
                 manyVars, userVars, open, toServer, toClient, serverVars>>

NoRetryCodes == {"OK", "FT_NR", "FT_NR_CONN_BROKEN"}
BrokenCodes == {"CONN_BROKEN", "FT_NR_CONN_BROKEN"}

\* A try returns to treatcommand.
Return(rc) ==
  /\ retcode' = rc /\ errcode' = (errcode \/ rc # "OK")
  /\ broken' = (broken \/ rc \in BrokenCodes)
  /\ tries' = IF rc \in NoRetryCodes THEN 0 ELSE tries
  /\ pc' = "loop"

-----------------------------------------------------------------------------
(* Commands without a message.                                             *)

localFrame == <<cmd, op, reported, back, todo, conn, remotedir, remoteumask, remotecos, manyVars,
                userVars, open, toServer, toClient, serverVars>>

\* chdir at the client: refused for good, or with another error.
Lcd ==
  /\ pc = "try" /\ op.kind = "lcd"
  /\ \/ Return("OK")
     \/ "refuse" \in Faults /\ Return("FT_NR")
     \/ "refuse" \in Faults /\ Return("ERROR")
  /\ UNCHANGED <<localFrame, options, exitcode>>

\* setnbstream and the like, with a number (the test that it be positive is made on
\* the result of sscanf).  do_set_xxx returns -1 for anything else: no more tries.
SetValue ==
  /\ pc = "try" /\ op.kind = "set"
  /\ \/ Return("OK") /\ UNCHANGED exitcode
     \/ /\ op.val = 0 /\ tries' = 0 /\ retcode' = "CONN_BROKEN" /\ errcode' = TRUE
        /\ exitcode' = TRUE /\ pc' = "loop" /\ UNCHANGED broken
  /\ UNCHANGED <<localFrame, options>>

\* setoption: an option is set (val > 0) or cleared ("no" before its name).
SetOption ==
  /\ pc = "try" /\ op.kind \in {"rfio", "createdir"}
  /\ options' = IF op.val > 0 THEN options \cup {op.kind} ELSE options \ {op.kind}
  /\ Return("OK")
  /\ UNCHANGED <<localFrame, exitcode>>

\* setoption with an unknown name: do_setoption sets the exit code, and leaves the
\* errcode that treatcommand overwrites it with.
BadOption ==
  /\ pc = "try" /\ op.kind = "badoption"
  /\ tries' = 0 /\ retcode' = "CONN_BROKEN" /\ exitcode' = TRUE /\ pc' = "loop"
  /\ UNCHANGED <<localFrame, options, errcode, broken>>

-----------------------------------------------------------------------------
(* reconnecttoserver and todoafterconnection.                              *)

connectFrame == <<workVars, retcode, settingVars, exitcode, manyVars, userVars,
                  toServer, toClient>>

\* Mutant: the directory is not replayed.
ReplayUmaskAndCos == {w \in {"umask", "cos"} : IF w = "umask" THEN remoteumask # 0 ELSE remotecos # -1}

\* What is replayed: the settings that differ from the initial values of the globals.
Replay == {w \in {"umask", "cos", "cd"} : CASE w = "umask" -> remoteumask # 0
                                             [] w = "cos" -> remotecos # -1
                                             [] w = "cd" -> remotedir # NoDir}

\* do_connect and sendproto: a new session, in the state of a login.
Connect ==
  /\ pc = "connect" /\ conn < MaxSessions
  /\ conn' = conn + 1
  /\ srv' = [srv EXCEPT ![conn + 1] = "LOGGED"]
  /\ open' = [open EXCEPT ![conn + 1] = TRUE]
  /\ todo' = Replay /\ pc' = "setup"
  /\ UNCHANGED <<connectFrame, broken, cwd, umask, topt, confused, dirs, files>>

\* Every address was tried BBftp_Globaltrymax times: the program exits.
GiveUp ==
  /\ pc = "connect" /\ "setup" \in Faults
  /\ pc' = "exit" /\ exitcode' = TRUE
  /\ UNCHANGED <<workVars, retcode, settingVars, manyVars, userVars, toServer, toClient, broken,
                 todo, conn, open, serverVars>>

\* Everything was replayed: back to the command, on a connection that works.
SetupDone ==
  /\ pc = "setup" /\ todo = {}
  /\ broken' = FALSE /\ pc' = back
  /\ UNCHANGED <<connectFrame, todo, conn, open, serverVars>>

-----------------------------------------------------------------------------
(* The request of a command, and its answer.  The functions of the eight   *)
(* commands send a message and wait for the answer in the same way.        *)

\* What the client is waiting for: "list" for the three commands that list.
Awaited == IF todo # {} THEN First
           ELSE IF op.kind \in {"dir", "mget"} THEN "list" ELSE op.kind

\* The function awaited returns: to treatcommand, or to todoafterconnection, where
\* every result but OK makes reconnecttoserver close the connection and start again.
Outcome(rc) ==
  IF todo = {} THEN Return(rc) /\ UNCHANGED todo
  ELSE /\ todo' = IF rc = "OK" THEN todo \ {First} ELSE {}
       /\ pc' = IF rc = "OK" THEN "setup" ELSE "connect"
       /\ UNCHANGED <<tries, retcode, errcode, broken>>

\* bbftp_close_control.
Shut == /\ open' = [open EXCEPT ![conn] = FALSE]
        /\ toClient' = [toClient EXCEPT ![conn] = <<>>]

\* The parts of the message are written one after the other: a failure may leave the
\* server with a part of it.  A session that has ended may take the message all the same.
Send(verb, arg, absolute, val, opts) ==
  /\ pc = IF todo = {} THEN "try" ELSE "setup"
  /\ Awaited = verb
  /\ \/ /\ toServer' = IF srv[conn] = "exit" THEN toServer
                        ELSE [toServer EXCEPT ![conn] =
                                Append(@, [op |-> verb, arg |-> arg, absolute |-> absolute,
                                           val |-> val, opts |-> opts, tag |-> Tag])]
        /\ pc' = "wait" /\ UNCHANGED <<tries, retcode, errcode, broken, todo, open, toClient>>
     \/ /\ "write" \in Faults \/ srv[conn] = "exit"
        /\ \/ UNCHANGED toServer
           \/ srv[conn] # "exit" /\ toServer' = [toServer EXCEPT ![conn] = Append(@, [op |-> "cut", of |-> verb])]
        /\ Shut /\ Outcome("CONN_BROKEN")
  /\ UNCHANGED <<cmd, op, reported, back, conn, settingVars, exitcode, manyVars, userVars, serverVars>>

SendCd == \/ todo = {} /\ Send("cd", op.arg, FALSE, 0, options)
          \/ todo # {} /\ Send("cd", Head(remotedir), TRUE, 0, options \ {"rfio"})
SendMkdir == Send("mkdir", op.arg, FALSE, 0, options)
SendRm == Send("rm", op.arg, FALSE, 0, options)
SendStat == Send("stat", op.arg, FALSE, 0, options)
SendDf == Send("df", op.arg, FALSE, 0, options)
SendUmask == Send("umask", <<>>, FALSE, IF todo = {} THEN op.val ELSE remoteumask, {})
SendCos == Send("cos", <<>>, FALSE, IF todo = {} THEN op.val ELSE remotecos, {})

\* The pattern of mget, or the directory of dir with "/*" behind it.
SendList == Send("list", op.arg, FALSE, 0, options)

\* bbftp_dir cannot allocate the pattern: -1, which is CONN_BROKEN, with nothing closed
\* and no error code.
DirNoMemory ==
  /\ pc = "try" /\ op.kind = "dir" /\ "nomem" \in Faults
  /\ retcode' = "CONN_BROKEN" /\ broken' = TRUE /\ pc' = "loop"
  /\ UNCHANGED <<localFrame, options, exitcode, tries, errcode>>

\* select has no timer: the client waits until there is an answer or the session ends.
NoAnswer ==
  /\ (toClient[conn] = <<>> /\ srv[conn] = "exit") \/ "read" \in Faults
  /\ Shut /\ Outcome("CONN_BROKEN")

\* A refusal, whose text is read before it counts.
Refused ==
  /\ toClient[conn] # <<>> /\ Head(toClient[conn]).code \in Refusals
  /\ LET retry == Head(toClient[conn]).code = "BAD"
     IN \/ /\ Outcome(IF retry THEN "ERROR" ELSE "FT_NR")
           /\ IF todo = {} THEN UNCHANGED open /\ toClient' = [toClient EXCEPT ![conn] = Tail(@)]
              ELSE Shut
        \/ "nomem" \in Faults /\ Shut /\ Outcome("CONN_BROKEN")
        \/ /\ "read" \in Faults /\ Shut
           /\ Outcome(IF retry THEN "CONN_BROKEN" ELSE "FT_NR_CONN_BROKEN")

\* A message that is no answer to the request, or an answer whose text is lost.
Unusable(code) ==
  /\ toClient[conn] # <<>>
  /\ LET m == Head(toClient[conn])
     IN \/ m.code \notin Refusals \cup {code}
        \/ /\ m.code = code /\ {"nomem", "read"} \cap Faults # {}
           /\ code = "LIST" => m.list # {}
  /\ Shut /\ Outcome("CONN_BROKEN")

answerFrame == <<cmd, op, reported, back, conn, exitcode, toServer, serverVars>>

Failed(kind, code) ==
  /\ pc = "wait" /\ Awaited = kind
  /\ NoAnswer \/ Refused \/ Unusable(code)
  /\ UNCHANGED <<answerFrame, settingVars, manyVars, userVars>>

CdFails == Failed("cd", "OK")
MkdirFails == Failed("mkdir", "OK")
RmFails == Failed("rm", "OK")
StatFails == Failed("stat", "OK")
DfFails == Failed("df", "OK")
UmaskFails == Failed("umask", "OK")
CosFails == Failed("cos", "OK")
ListFails == Failed("list", "LIST")

Taken(kind, code) ==
  /\ pc = "wait" /\ Awaited = kind
  /\ toClient[conn] # <<>> /\ Head(toClient[conn]).code = code
  /\ LET m == Head(toClient[conn])
     IN got' = IF todo = {} THEN [tag |-> m.tag, awaited |-> m.tag = Tag, at |-> m.at,
                                    done |-> m.done, sure |-> m.sure]
               ELSE got
  /\ toClient' = [toClient EXCEPT ![conn] = Tail(@)]
  /\ UNCHANGED <<answerFrame, open>>

\* BBftp_Remotedir becomes the text of the answer, whatever the answer is.
CdDone ==
  /\ Taken("cd", "OK") /\ Outcome("OK")
  /\ LET m == Head(toClient[conn])
     IN remotedir' = <<IF m.op = "cd" THEN m.at ELSE Unknown>>
  /\ believed' = IF todo = {} THEN Resolve(believed, op.arg) ELSE believed
  /\ UNCHANGED <<remoteumask, remotecos, options, manyVars, mask>>

MkdirDone == Taken("mkdir", "OK") /\ Outcome("OK") /\ UNCHANGED <<settingVars, manyVars, believed, mask>>
RmDone == Taken("rm", "OK") /\ Outcome("OK") /\ UNCHANGED <<settingVars, manyVars, believed, mask>>
StatDone == Taken("stat", "OK") /\ Outcome("OK") /\ UNCHANGED <<settingVars, manyVars, believed, mask>>
DfDone == Taken("df", "OK") /\ Outcome("OK") /\ UNCHANGED <<settingVars, manyVars, believed, mask>>

\* do_setremoteumask and do_setremotecos keep the value for the next connection.
UmaskDone ==
  /\ Taken("umask", "OK") /\ Outcome("OK")
  /\ remoteumask' = IF todo = {} THEN op.val ELSE remoteumask
  /\ mask' = IF todo = {} THEN op.val ELSE mask
  /\ UNCHANGED <<remotedir, remotecos, options, manyVars, believed>>

CosDone ==
  /\ Taken("cos", "OK") /\ Outcome("OK")
  /\ remotecos' = IF todo = {} THEN op.val ELSE remotecos
  /\ UNCHANGED <<remotedir, remoteumask, options, manyVars, believed, mask>>

\* dir prints the list; mget has work to do unless it is empty.
ListDone ==
  /\ Taken("list", "LIST")
  /\ LET list == Head(toClient[conn]).list
     IN IF op.kind = "dir" \/ list = {} THEN Outcome("OK") /\ UNCHANGED left
        ELSE /\ left' = list /\ pc' = "files"
             /\ UNCHANGED <<tries, retcode, errcode, broken, todo>>
  /\ UNCHANGED <<settingVars, file, ftries, lines, cut, fetched, believed, mask>>

-----------------------------------------------------------------------------
(* mget and mput: a transfer for every file of the list, with its own loop *)
(* of tries.                                                               *)

\* Before the list is asked for, mget looks at the local directory.
CheckDir ==
  /\ pc = "try" /\ op.kind = "mget" /\ "refuse" \in Faults
  /\ \E rc \in {"FT_NR", "ERROR"} : Return(rc)
  /\ UNCHANGED <<localFrame, options, exitcode>>

\* bbftp_retrlistdir cuts a pattern that has a slash (val > 0) at the last one, in
\* place: a second try lists the directory itself, which is passed over.
LocalList ==
  /\ pc = "try" /\ op.kind = "mput"
  /\ \/ /\ "refuse" \in Faults /\ Return("FT_NR") /\ UNCHANGED <<left, cut>>
     \/ LET list == IF cut THEN {} ELSE {Append(op.arg, f) : f \in LocalFiles}
        IN /\ cut' = (cut \/ op.val > 0) /\ left' = list
           /\ IF list = {} THEN Return("OK")
              ELSE pc' = "files" /\ UNCHANGED <<tries, retcode, errcode, broken>>
  /\ UNCHANGED <<cmd, op, reported, back, todo, conn, settingVars, exitcode, file, ftries, lines,
                 fetched, userVars, open, toServer, toClient, serverVars>>

NextFile ==
  /\ pc = "files" /\ left # {}
  /\ \E f \in left : file' = f /\ left' = left \ {f}
  /\ ftries' = MaxTries /\ back' = "file" /\ pc' = "file"
  /\ UNCHANGED <<cmd, op, tries, errcode, reported, retcode, broken, todo, conn, settingVars,
                 exitcode, lines, cut, fetched, userVars, open, toServer, toClient, serverVars>>

\* A failed file fails neither the command nor the files after it.
NoFileLeft ==
  /\ pc = "files" /\ left = {} /\ Return("OK")
  /\ UNCHANGED <<cmd, op, reported, back, todo, conn, settingVars, exitcode, manyVars, userVars,
                 open, toServer, toClient, serverVars>>

fileFrame == <<cmd, op, tries, reported, back, retcode, todo, conn, settingVars, left, file, cut,
               userVars, toServer>>

\* The names cannot be allocated: the whole command is tried again, after the files
\* it has already transferred.
FileNoMemory ==
  /\ pc = "file" /\ "nomem" \in Faults
  /\ Return("ERROR")
  /\ UNCHANGED <<cmd, op, reported, back, todo, conn, settingVars, exitcode, manyVars, userVars,
                 open, toServer, toClient, serverVars>>

FileReconnect ==
  /\ pc = "file" /\ broken
  /\ pc' = "connect"
  /\ UNCHANGED <<fileFrame, errcode, broken, exitcode, ftries, lines, fetched, open, toClient, serverVars>>

\* Mutant: a failed file is only reported.
LineOnly(ok) == /\ lines' = lines \cup {<<file, ok>>}
                /\ pc' = "files" /\ UNCHANGED <<ftries, exitcode, errcode>>

\* bbftp_res_printf, and BBftp_Myexitcode when the file has failed.
Line(ok) == /\ lines' = lines \cup {<<file, ok>>}
            /\ exitcode' = (exitcode \/ ~ok) /\ errcode' = (errcode \/ ~ok)
            /\ pc' = "files" /\ UNCHANGED ftries

\* bbftp_get or bbftp_put succeeds, on a session that is in step with the client.
FileDone ==
  LET path == Resolve(cwd[conn], file)
  IN /\ pc = "file" /\ ~broken
     /\ srv[conn] = "LOGGED" /\ toServer[conn] = <<>> /\ toClient[conn] = <<>>
     /\ \/ op.kind = "mget" /\ path \in files /\ UNCHANGED files
        \/ op.kind = "mput" /\ Front(path) \in dirs /\ path \notin dirs /\ files' = files \cup {path}
     /\ fetched' = fetched \cup {path} /\ Line(TRUE)
     /\ topt' = [topt EXCEPT ![conn] = options]
     /\ UNCHANGED <<fileFrame, broken, open, toClient, srv, cwd, umask, confused, dirs>>

\* It fails for good; the connection may be lost too.
FileFails ==
  /\ pc = "file" /\ ~broken
  /\ \/ UNCHANGED <<broken, open, toClient>>
     \/ "transfer" \in Faults /\ broken' = TRUE /\ Shut
  /\ Line(FALSE)
  /\ UNCHANGED <<fileFrame, fetched, serverVars>>

\* It fails with an error that is tried again, unless this was the last time.
FileRetry ==
  /\ pc = "file" /\ ~broken /\ "transfer" \in Faults
  /\ IF ftries = 1 THEN Line(FALSE)
     ELSE /\ ftries' = ftries - 1 /\ UNCHANGED <<pc, lines, exitcode, errcode>>
  /\ UNCHANGED <<fileFrame, broken, open, toClient, fetched, serverVars>>

\* The connection is lost: a new one for the next try, or later for the next file.
FileLost ==
  /\ pc = "file" /\ ~broken
  /\ "transfer" \in Faults \/ srv[conn] = "exit"
  /\ Shut
  /\ IF ftries = 1 THEN broken' = TRUE /\ Line(FALSE)
     ELSE /\ ftries' = ftries - 1 /\ pc' = "connect"
          /\ UNCHANGED <<broken, lines, exitcode, errcode>>
  /\ UNCHANGED <<fileFrame, fetched, serverVars>>

-----------------------------------------------------------------------------
(* The server: handle_logged, a message at a time.                         *)

\* What a session does with the message m: the replies it writes, whether it goes on,
\* and whether the client may now take an answer for one it is not.  A reply that
\* cannot be written is lost, and the session ends at the next read.
Say(s, m, codes, done, list, goesOn, strays) ==
  LET at(c) == IF m.op = "cd" /\ c = "OK" THEN cwd'[s] ELSE Resolve(cwd[s], m.arg)
      answer(c) == [code |-> c, op |-> m.op, tag |-> m.tag, at |-> at(c), list |-> list,
                    done |-> done,
                    sure |-> ~(m.op = "rm" /\ "rfio" \in topt[s])]
      sent == [i \in DOMAIN codes |-> answer(codes[i])]
  IN /\ confused' = [confused EXCEPT ![s] = @ \/ strays]
     /\ \/ /\ toClient' = IF open[s] THEN [toClient EXCEPT ![s] = @ \o sent] ELSE toClient
           /\ srv' = IF goesOn THEN srv ELSE [srv EXCEPT ![s] = "exit"]
        \/ "reply" \in Faults /\ UNCHANGED toClient /\ srv' = [srv EXCEPT ![s] = "exit"]

Reply(s, m, code, done) == Say(s, m, <<code>>, done, {}, TRUE, FALSE)
ReplyAndEnd(s, m, code) == Say(s, m, <<code>>, FALSE, {}, FALSE, FALSE)
Options(s, m) == topt' = [topt EXCEPT ![s] = m.opts]
Target(s, m) == IF m.absolute THEN m.arg ELSE Resolve(cwd[s], m.arg)

\* do_msg_cd: everything that fails ends the session.
DoCd(s, m) ==
  LET dir == Target(s, m)
      enter == cwd' = [cwd EXCEPT ![s] = dir]
  IN /\ Options(s, m) /\ UNCHANGED <<umask, dirs, files>>
     /\ \/ /\ "rfio" \in m.opts \/ dir \notin dirs
           /\ UNCHANGED cwd /\ ReplyAndEnd(s, m, "NORETRY")
        \/ /\ "refuse" \in Faults /\ UNCHANGED cwd
           /\ \E code \in Refusals : ReplyAndEnd(s, m, code)
        \/ "getcwd" \in Faults /\ dir \in dirs /\ enter /\ ReplyAndEnd(s, m, "BAD")
        \/ dir \in dirs /\ "rfio" \notin m.opts /\ enter /\ Reply(s, m, "OK", TRUE)

\* Mutant: what exists under the name is not looked at.
CanMakeOverFile(d, present) == d \in present \/ Front(d) \in present

\* do_mkdir and bbftpd_storemkdir: a directory that exists is as good as a new one.
CanMake(d, present) == d \notin files /\ (d \in present \/ Front(d) \in present)
Above(d) == {SubSeq(d, 1, n) : n \in 1..Len(d)}
Made(d, opts) ==
  IF "createdir" \in opts
  THEN IF Above(d) \cap files = {} THEN dirs \cup Above(d) ELSE dirs
  ELSE IF d = <<>> \/ CanMake(d, dirs) THEN dirs \cup {d} ELSE dirs

\* do_msg_mkdir: a failure is answered twice, and the message is freed twice, which
\* the C library may stop.
DoMkdir(s, m) ==
  LET dir == Target(s, m)
      made == IF "rfio" \in m.opts THEN dirs ELSE Made(dir, m.opts)
  IN /\ Options(s, m) /\ UNCHANGED <<cwd, umask, files>>
     /\ \/ dir \in made /\ "rfio" \notin m.opts /\ dirs' = made /\ Reply(s, m, "OK", TRUE)
        \/ /\ dir \notin made \/ "rfio" \in m.opts
           /\ UNCHANGED dirs
           /\ \E survives \in BOOLEAN : Say(s, m, <<"NORETRY", "OK">>, FALSE, {}, survives, TRUE)
        \/ /\ "refuse" \in Faults /\ UNCHANGED dirs
           /\ \E code \in Refusals, survives \in BOOLEAN :
                Say(s, m, <<code, "OK">>, FALSE, {}, survives, TRUE)

\* Mutant: the result of unlink is dropped.
DoRmUnchecked(s, m) ==
  LET path == Target(s, m)
  IN /\ UNCHANGED <<cwd, umask, topt, dirs>> /\ files' = files \ {path}
     /\ Reply(s, m, "OK", path \in files)

\* do_msg_rm: the options of the message are not looked at, those of an earlier one
\* are.  Under RFIO, which the server does not have, nothing is deleted.
DoRm(s, m) ==
  LET path == Target(s, m)
  IN /\ UNCHANGED <<cwd, umask, topt, dirs>>
     /\ \/ "rfio" \in topt[s] /\ UNCHANGED files /\ Reply(s, m, "OK", path \notin files)
        \/ /\ "rfio" \notin topt[s] /\ path \in files
           /\ files' = files \ {path} /\ Reply(s, m, "OK", TRUE)
        \/ /\ "rfio" \notin topt[s]
           /\ path \notin files \/ "refuse" \in Faults
           /\ UNCHANGED files /\ ReplyAndEnd(s, m, "NORETRY")

DoStat(s, m) ==
  LET path == Target(s, m)
  IN /\ Options(s, m) /\ UNCHANGED <<cwd, umask, dirs, files>>
     /\ \/ "rfio" \in m.opts /\ ReplyAndEnd(s, m, "NORETRY")
        \/ /\ "rfio" \notin m.opts
           /\ path \notin dirs \cup files \/ "refuse" \in Faults
           /\ Reply(s, m, "NORETRY", FALSE)
        \/ "rfio" \notin m.opts /\ path \in dirs \cup files /\ Reply(s, m, "OK", TRUE)

DoStatfs(s, m) ==
  LET path == Target(s, m)
  IN /\ Options(s, m) /\ UNCHANGED <<cwd, umask, dirs, files>>
     /\ \/ /\ "rfio" \in m.opts \/ path \notin dirs \cup files \/ "refuse" \in Faults
           /\ Reply(s, m, "NORETRY", FALSE)
        \/ "rfio" \notin m.opts /\ path \in dirs \cup files /\ Reply(s, m, "OK", TRUE)

\* Mutant: a directory that cannot be opened is not answered.
DoListSilent(s, m) ==
  /\ Options(s, m) /\ UNCHANGED <<cwd, umask, dirs, files>>
  /\ \E codes \in {<<"LIST">>, <<>>} : Say(s, m, codes, TRUE, {}, TRUE, FALSE)

\* bbftpd_retrlistdir: the files of a directory, under the name that was asked for.
Found(dir, arg) == {Append(arg, Last(f)) : f \in {g \in files : g # <<>> /\ Front(g) = dir}}

\* bbftpd_list: for an empty list a pointer nobody has set is freed.
DoList(s, m) ==
  LET dir == Target(s, m)
      names == Found(dir, m.arg)
  IN /\ Options(s, m) /\ UNCHANGED <<cwd, umask, dirs, files>>
     /\ \/ "rfio" \in m.opts /\ ReplyAndEnd(s, m, "NORETRY")
        \/ /\ "rfio" \notin m.opts
           /\ dir \notin dirs \/ "refuse" \in Faults
           /\ \E code \in Refusals : Reply(s, m, code, FALSE)
        \/ /\ "rfio" \notin m.opts /\ dir \in dirs
           /\ \E survives \in BOOLEAN :
                /\ names # {} => survives
                /\ Say(s, m, <<"LIST">>, TRUE, names, survives, FALSE)

DoChumask(s, m) ==
  /\ umask' = [umask EXCEPT ![s] = m.val] /\ UNCHANGED <<cwd, topt, dirs, files>>
  /\ Reply(s, m, "OK", TRUE)

DoChcos(s, m) ==
  UNCHANGED <<cwd, umask, topt, dirs, files>> /\ Reply(s, m, "OK", TRUE)

Texts == {"cd", "mkdir", "list", "rm", "stat", "df"}

\* read_string cannot allocate the text.  Three handlers go on without reading it: the
\* text is the next message to them, which no state knows.
NoMemory(s, m) ==
  /\ "servermem" \in Faults /\ m.op \in Texts
  /\ UNCHANGED <<cwd, umask, topt, dirs, files>>
  /\ IF m.op \in {"cd", "mkdir", "list"} THEN ReplyAndEnd(s, m, "BAD")
     ELSE Say(s, m, <<"BAD", "NORETRY">>, FALSE, {}, FALSE, TRUE)

\* read_string cannot read the text: it answers, frees the text and returns 0 all the same.
\* The request goes on with freed memory, and may find there the name of any directory or
\* file, or of none; the end of the handler frees it again.
UnreadText(s, m) ==
  /\ "unread" \in Faults /\ m.op \in Texts
  /\ UNCHANGED <<umask, dirs>>
  /\ IF m.op = "rm" THEN UNCHANGED topt
     ELSE \E o \in SUBSET {"rfio", "createdir"} : topt' = [topt EXCEPT ![s] = o]
  /\ \/ UNCHANGED <<cwd, files>>
     \/ m.op = "cd" /\ (\E d \in dirs : cwd' = [cwd EXCEPT ![s] = d]) /\ UNCHANGED files
     \/ m.op = "rm" /\ (\E f \in files : files' = files \ {f}) /\ UNCHANGED cwd
  /\ \E c \in Refusals \cup {IF m.op = "list" THEN "LIST" ELSE "OK"}, survives \in BOOLEAN :
       Say(s, m, <<"BAD", c>>, FALSE, {}, survives, TRUE)

\* read_int, which returns what it should.
UnreadValue(s, m) ==
  /\ "unread" \in Faults /\ m.op \in {"umask", "cos"}
  /\ UNCHANGED <<cwd, umask, topt, dirs, files>> /\ ReplyAndEnd(s, m, "BAD")

Handlers(s, m) ==
  \/ m.op = "cd" /\ DoCd(s, m)
  \/ m.op = "mkdir" /\ DoMkdir(s, m)
  \/ m.op = "rm" /\ DoRm(s, m)
  \/ m.op = "stat" /\ DoStat(s, m)
  \/ m.op = "df" /\ DoStatfs(s, m)
  \/ m.op = "list" /\ DoList(s, m)
  \/ m.op = "umask" /\ DoChumask(s, m)
  \/ m.op = "cos" /\ DoChcos(s, m)
  \/ NoMemory(s, m) \/ UnreadText(s, m) \/ UnreadValue(s, m)

clientVars == <<pc, workVars, retcode, broken, todo, conn, settingVars, exitcode, manyVars,
                userVars, open>>

HandleLogged(s) ==
  /\ srv[s] = "LOGGED" /\ toServer[s] # <<>> /\ Head(toServer[s]).op # "cut"
  /\ Handlers(s, Head(toServer[s]))
  /\ toServer' = [toServer EXCEPT ![s] = Tail(@)]
  /\ UNCHANGED clientVars

\* The client has closed the connection, in the middle of a message or between two;
\* or nothing has come for fifteen minutes.  The text of a message that was cut is read
\* as in UnreadText, with nobody to answer: an rm may delete a file of any name first.
EndSession(s) ==
  /\ srv[s] = "LOGGED"
  /\ \/ toServer[s] # <<>> /\ Head(toServer[s]).op = "cut"
     \/ toServer[s] = <<>> /\ ~open[s]
     \/ toServer[s] = <<>> /\ "idle" \in Faults
  /\ srv' = [srv EXCEPT ![s] = "exit"]
  /\ toServer' = [toServer EXCEPT ![s] = <<>>]
  /\ \/ UNCHANGED files
     \/ /\ toServer[s] # <<>> /\ Head(toServer[s]).op = "cut" /\ Head(toServer[s]).of = "rm"
        /\ \E f \in files : files' = files \ {f}
  /\ UNCHANGED <<clientVars, toClient, cwd, umask, topt, confused, dirs>>

-----------------------------------------------------------------------------
(* The specification.                                                      *)

LocalCommand == RefuseCommand \/ Lcd \/ SetValue \/ SetOption \/ BadOption
Loop == NextCommand \/ StartTry \/ Report
Reconnect == Connect \/ GiveUp \/ SetupDone
Request == SendCd \/ SendMkdir \/ SendRm \/ SendStat \/ SendDf \/ SendList \/ SendUmask \/ SendCos
Failure == CdFails \/ MkdirFails \/ RmFails \/ StatFails \/ DfFails \/ UmaskFails \/ CosFails \/ ListFails
Success == CdDone \/ MkdirDone \/ RmDone \/ StatDone \/ DfDone \/ ListDone \/ UmaskDone \/ CosDone
ManyFiles == \/ CheckDir \/ LocalList \/ NextFile \/ NoFileLeft
             \/ FileNoMemory \/ FileReconnect \/ FileDone \/ FileFails \/ FileRetry \/ FileLost

ClientStep == \/ LocalCommand \/ Loop \/ Reconnect \/ Request \/ DirNoMemory \/ Failure
              \/ Success \/ ManyFiles
ServerStep == \E s \in Sessions : HandleLogged(s) \/ EndSession(s)

\* The control file is at its end, the program has given up, or the bound is reached.
Over == /\ \/ pc = "idle" /\ cmd = MaxCommands
           \/ pc = "exit"
           \/ pc = "connect" /\ conn = MaxSessions
        /\ UNCHANGED vars

Next == ClientStep \/ ServerStep \/ Over

\* Both programs run on.  A client that waits is only sure to go on when there is
\* something to read: that a read fails is possible, not promised.
Due == pc = "wait" => toClient[conn] # <<>> \/ srv[conn] = "exit"
Fairness == /\ WF_vars(Due /\ ClientStep)
            /\ \A s \in Sessions : WF_vars(HandleLogged(s)) /\ WF_vars(EndSession(s))
Spec == Init /\ [][Next]_vars /\ Fairness

-----------------------------------------------------------------------------
(* The properties.                                                         *)

TypeOK ==
  /\ pc \in {"idle", "loop", "try", "connect", "setup", "wait", "files", "file", "exit"}
  /\ cmd \in 0..MaxCommands /\ tries \in 0..MaxTries /\ ftries \in 0..MaxTries
  /\ op.kind \in Kinds /\ conn \in Sessions
  /\ retcode \in NoRetryCodes \cup BrokenCodes \cup {"ERROR"}
  /\ {errcode, broken, exitcode, cut} \subseteq BOOLEAN
  /\ todo \subseteq {"umask", "cos", "cd"} /\ back \in {"try", "file"}
  /\ options \subseteq {"rfio", "createdir"}
  /\ \A c \in Commands : reported[c] \in {"none", "OK", "FAILED"}
  /\ \A s \in Sessions : /\ srv[s] \in {"none", "LOGGED", "exit"} /\ open[s] \in BOOLEAN
                         /\ confused[s] \in BOOLEAN /\ topt[s] \subseteq {"rfio", "createdir"}
                         /\ Len(toServer[s]) > 1 => confused[s]
  /\ dirs \cap files = {}

\* No session has got out of step with its client so far.
InStep == \A s \in Sessions : ~confused[s]

\* Over every loss of the connection, the session that serves the user is in the
\* directory his cds have led to and has the umask he has set, once its settings have
\* been replayed.  A umask of 0 is not replayed, and after a session that has answered a
\* message twice, or skipped a request, nothing is sure, not even on the next connection:
\* a directory that was taken from the wrong answer is replayed there.
SettingsKept ==
  (/\ pc \in {"idle", "loop", "try", "files", "file"} /\ ~broken
   /\ srv[conn] = "LOGGED" /\ InStep)
  => /\ cwd[conn] = believed
     /\ mask # 0 => umask[conn] = mask

\* A command that is reported OK was done, by its last try and in the directory the user
\* means: not on the word of an answer to an earlier try, to a replayed setting or to
\* another command, except after a session that answers twice.
OkMeansDone ==
  (pc = "loop" /\ tries = 0 /\ retcode = "OK" /\ op.kind \in Simple /\ got.sure /\ InStep)
  => /\ got.awaited /\ got.tag[1] = cmd /\ got.done
     /\ op.kind = "cd" => got.at = believed
     /\ op.kind \in Simple \ {"cd", "umask", "cos"} => got.at = Resolve(believed, op.arg)

\* A file that mget or mput reports as transferred is one of the directory the user
\* means, however many connections the command has needed (unless a session has got out
\* of step).
FilesReported == InStep => \A l \in lines : l[2] => Resolve(believed, l[1]) \in fetched

\* Once a command or a file has failed the program's exit code says so to its end, as
\* long as no option has a wrong name and dir has had memory.
ExitCodeTells ==
  [][op.kind \notin {"badoption", "unknown", "dir"}
     => /\ exitcode => exitcode'
        /\ (\E l \in lines' : ~l[2]) => exitcode'
        /\ (reported' # reported /\ reported'[cmd] = "FAILED") => exitcode']_vars

\* Every command comes to its end or to the end of the connections: no answer is waited
\* for in vain though the wait has no timer.
CommandsEnd == pc = "loop" ~> (pc \in {"idle", "exit"} \/ (pc = "connect" /\ conn = MaxSessions))

\* PROTO_V3: the answer to MSG_MKDIR_V2 is one of MSG_BAD, MSG_BAD_NO_RETRY and MSG_OK.
\* So a mkdir that is reported OK has made its directory.
MkdirOkMeansMade ==
  (pc = "loop" /\ tries = 0 /\ retcode = "OK" /\ op.kind = "mkdir") => got.done
=============================================================================
