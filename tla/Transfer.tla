------------------------------ MODULE Transfer ------------------------------
(***************************************************************************)
(* The transfer engine of the bbftpd server: one session process (the      *)
(* "father") that serves one client over the control connection, the       *)
(* children it forks (one per parallel stream of a file), and the SIGCHLD  *)
(* handler that collects them.  The father and its handler share the       *)
(* globals declared in bbftpd.c; the handler may run between any two steps *)
(* of the father, so the routines that run while children live (the fork   *)
(* loop, the release, the clean-up after a failed start) are split into    *)
(* the steps the handler can tell apart.  The handling of one message with *)
(* no child of the current transfer is one step.                           *)
(*                                                                         *)
(* Children share nothing with the father but the file system and their    *)
(* exit status.  A child is named <<t, i>>: stream i of the t-th transfer  *)
(* of the session; <<0, 0>> is the pid 0 of an empty slot.                 *)
(*                                                                         *)
(* The data is abstracted to which streams reached their destination       *)
(* (recvd), file names to the two paths of one destination file (fs), and  *)
(* MSG_BAD and MSG_BAD_NO_RETRY to one answer "BAD".                       *)
(***************************************************************************)
EXTENDS Naturals, Sequences, FiniteSets

CONSTANTS
  N,            \* requestedstreamnumber: children of one transfer
  MaxTransfers, \* bound: transfers the client asks for in one session
  Passive,      \* TRUE: protocol 3, the client connects; FALSE: protocol 2
  Options,      \* transferoption: a subset of {"tmp", "acc"}
  Kinds,        \* the requests the client makes: a subset of {"store", "retr"}
  Simulations,  \* a subset of BOOLEAN: MSG_TRANS_START and/or MSG_TRANS_SIMUL
  Faults,       \* what may go wrong, a subset of AllFaults
  RetryWaits    \* TRUE: the client asks for the next transfer only after the
                \* children killed on the previous one are gone (WAITRETRYTIME)

AllFaults ==
  { "connect", "fork", "create", "listen", "malloc", "options", "data",
    "kill", "earlykill", "slow", "reply", "abort", "invalid", "unread",
    "disconnect", "idle", "term" }

ASSUME NAssumption == N \in Nat \ {0}
ASSUME MaxTransfersAssumption == MaxTransfers \in Nat
ASSUME PassiveAssumption == Passive \in BOOLEAN /\ RetryWaits \in BOOLEAN
ASSUME ChoicesAssumption == /\ Options \subseteq {"tmp", "acc"}
                            /\ Kinds \subseteq {"store", "retr"}
                            /\ Simulations \subseteq BOOLEAN
                            /\ Faults \subseteq AllFaults

VARIABLES
  pc,              \* where the father is
  state,           \* the protocol state of the session (status.h)
  timeout,         \* the timer bbftp_run_protocol_2 gave to select
  i,               \* the index of the loop the father is in
  allocated,       \* curfilename, realfilename, myports, mychildren... # NULL
  mychildren,      \* the slots that hold the children's pids
  nbpidchild,      \* number of slots in use
  unlinkfile,      \* 1 store, 3 retrieve, 4 simulated store, 0 none
  childendinerror, \* an error was already reported to the client
  killdone,        \* clean_child has run
  sigchld          \* a SIGCHLD is pending

VARIABLES
  child,           \* the life of every child process
  fs,              \* what the temporary and the final path hold
  cur,             \* number of the current (last requested) transfer
  kindOf, simOf,   \* kind of every transfer, and whether it is simulated
  sent,            \* final answers sent to the client for the current transfer
  recvd            \* streams of the current transfer received to their end

ctlVars == <<state, timeout>>
memVars == <<allocated, mychildren, nbpidchild>>
flagVars == <<unlinkfile, childendinerror, killdone>>
askVars == <<cur, kindOf, simOf>>
vars == <<pc, state, timeout, i, allocated, mychildren, nbpidchild, unlinkfile,
          childendinerror, killdone, sigchld, child, fs, cur, kindOf, simOf,
          sent, recvd>>

Streams == 1..N
Transfers == 1..MaxTransfers
Pids == Transfers \X Streams
NoPid == <<0, 0>>
Junk == <<0, 1>>     \* what malloc left in a slot that was not written yet

\* "new" is the file the current transfer created, "old" any earlier one.
Paths == {"tmp", "cur"}
DirectReal == "cur"
Real == IF "tmp" \in Options THEN "tmp" ELSE "cur"

Live == {"waiting", "ready", "open", "done", "failing"}
Zombie == {"ok", "bad"}
Running == pc \notin {"exit", "ub"}

ChildType == [Pids -> Live \cup Zombie \cup {"none", "reaped"}]
SlotType == [Streams -> Pids \cup {NoPid, Junk}]
FsType == [Paths -> {"absent", "old", "new"}]

-----------------------------------------------------------------------------
(* The timer of the main loop: 10 s inside a request, none during a        *)
(* transfer, 900 s otherwise.                                              *)
Timer(s) ==
  CASE s \in {"WAITING_STORE_START", "WAITING_FILENAME_STORE",
              "WAITING_FILENAME_RETR"} -> 10
    [] s \in {"SENDING", "RECEIVING"}  -> 0     \* -1 in the code: no timer
    [] OTHER                           -> 900

Unlink(path) == [fs EXCEPT ![path] = "absent"]

\* bbftpd_storeunlink(realfilename): unlink(NULL) fails once it is freed.
UnlinkForgotten == fs
UnlinkReal == IF allocated THEN Unlink(Real) ELSE fs

FreeAllVarCounted == allocated' = FALSE /\ UNCHANGED <<nbpidchild, mychildren>>
FreeAllVar == allocated' = FALSE /\ nbpidchild' = 0 /\ UNCHANGED mychildren

\* reply(): the answer goes out, or the write fails and the process exits.
ReplyThen(code, next) ==
  \/ sent' = Append(sent, code) /\ pc' = next
  \/ "reply" \in Faults /\ pc' = "exit" /\ UNCHANGED sent

Slots == 1..nbpidchild
Recorded == {mychildren[s] : s \in Slots}

\* The children clean_child sends SIGKILL to.
NoVictims == {}
Victims == IF killdone = 0 THEN {p \in Recorded : p \in Pids /\ child[p] \in Live}
                           ELSE {}

KilledBy(victims, c) == [p \in Pids |-> IF p \in victims THEN "bad" ELSE c[p]]

\* Walking the slots through a NULL mychildren, or killing what an unwritten
\* slot holds, is undefined.
CleanChildUndefined ==
  killdone = 0 /\ nbpidchild > 0 /\ (~allocated \/ Junk \in Recorded)

CleanChild ==
  /\ child' = KilledBy(Victims, child)
  /\ killdone' = 1
  /\ sigchld' = (sigchld \/ Victims # {})

CleanChildThen(next) ==
  IF CleanChildUndefined
  THEN pc' = "ub" /\ UNCHANGED <<child, killdone, sigchld>>
  ELSE pc' = next /\ CleanChild

\* bbftp_store_process_transfer: utime, chmod and rename on the real file, so
\* it fails on a missing file as soon as one of them is asked for.
ProcessOutcomes ==
  IF Options = {} THEN {TRUE}
  ELSE IF fs[Real] = "absent" THEN {FALSE}
  ELSE IF "options" \in Faults THEN BOOLEAN ELSE {TRUE}

Processed(files, ok) ==
  IF ~ok THEN [files EXCEPT ![Real] = "absent"]
  ELSE IF Real = "tmp" THEN [files EXCEPT !["cur"] = files["tmp"], !["tmp"] = "absent"]
  ELSE files

Answer(ok) == IF ok THEN "OK" ELSE "BAD"

-----------------------------------------------------------------------------
Init ==
  /\ pc = "top" /\ state = "LOGGED" /\ timeout = 900 /\ i = 1
  /\ allocated = FALSE /\ nbpidchild = 0
  /\ mychildren = [s \in Streams |-> NoPid]
  /\ unlinkfile = 0 /\ childendinerror = 0 /\ killdone = 0 /\ sigchld = FALSE
  /\ child = [p \in Pids |-> "none"]
  /\ fs \in {[x \in Paths |-> IF x = "tmp" THEN "absent" ELSE before] :
               before \in {"absent", "old"}}
  /\ cur = 0
  /\ kindOf = [t \in Transfers |-> "none"]
  /\ simOf = [t \in Transfers |-> FALSE]
  /\ sent = <<>> /\ recvd = {}

-----------------------------------------------------------------------------
(* The main loop of the session, bbftp_run_protocol_2.                     *)

Select ==
  /\ pc = "top"
  /\ pc' = "loop" /\ timeout' = Timer(state)
  /\ UNCHANGED <<state, i, memVars, flagVars, sigchld, child, fs, askVars, sent, recvd>>

InState(s) == pc = "loop" /\ state = s

Settled == ~sigchld /\ \A p \in Pids : child[p] \notin Live

\* do_msg_store_v2 and do_msg_retr_v2: only the parameters are stored.
Request(kind) ==
  /\ InState("LOGGED") /\ cur < MaxTransfers /\ kind \in Kinds
  /\ RetryWaits => Settled
  /\ cur' = cur + 1
  /\ kindOf' = [kindOf EXCEPT ![cur + 1] = kind]
  /\ sent' = <<>> /\ recvd' = {}
  /\ fs' = [x \in Paths |-> IF fs[x] = "new" THEN "old" ELSE fs[x]]
  /\ pc' = "top"
  /\ state' = IF kind = "store" THEN "WAITING_FILENAME_STORE" ELSE "WAITING_FILENAME_RETR"
  /\ UNCHANGED <<timeout, i, memVars, flagVars, sigchld, child, simOf>>

\* allocate_memory_for_transfer: malloc does not clear the slots.
Allocate ==
  /\ allocated' = TRUE
  /\ \E g \in {NoPid, Junk} : mychildren' = [s \in Streams |-> g]
  /\ UNCHANGED nbpidchild

\* do_msg_filename_store, refused: the target cannot be created.  The old file
\* is removed before the new one is opened, so it may be lost.
StoreRefused ==
  /\ InState("WAITING_FILENAME_STORE") /\ "create" \in Faults
  /\ fs' \in {fs, Unlink(Real)}
  /\ FreeAllVar /\ ReplyThen("BAD", "top") /\ state' = "LOGGED"
  /\ UNCHANGED <<timeout, i, flagVars, sigchld, child, askVars, recvd>>

\* do_msg_filename_store of an empty file: created and answered at once.
StoreEmpty ==
  /\ InState("WAITING_FILENAME_STORE")
  /\ \E ok \in IF "options" \in Faults /\ Options # {} THEN BOOLEAN ELSE {TRUE} :
       /\ fs' = Processed([fs EXCEPT ![Real] = "new"], ok)
       /\ ReplyThen(Answer(ok), "top")
  /\ recvd' = Streams
  /\ FreeAllVar /\ state' = "LOGGED"
  /\ UNCHANGED <<timeout, i, flagVars, sigchld, child, askVars>>

\* do_msg_filename_store: the file is created and the parameters confirmed.
StoreAccepted ==
  /\ InState("WAITING_FILENAME_STORE")
  /\ fs' = [fs EXCEPT ![Real] = "new"]
  /\ Allocate
  /\ pc' = "top" /\ state' = "WAITING_STORE_START"
  /\ UNCHANGED <<timeout, i, flagVars, sigchld, child, askVars, sent, recvd>>

\* do_msg_filename_store when the buffers cannot be allocated: realfilename is
\* freed before it is unlinked, so the new file stays.
StoreNoMemory ==
  /\ InState("WAITING_FILENAME_STORE") /\ "malloc" \in Faults
  /\ fs' = [fs EXCEPT ![Real] = "new"]
  /\ FreeAllVar /\ ReplyThen("BAD", "top") /\ state' = "LOGGED"
  /\ UNCHANGED <<timeout, i, flagVars, sigchld, child, askVars, recvd>>

\* do_msg_filename_store when the data sockets cannot be opened (protocol 3):
\* the header is already sent, the connection is closed.
StoreNoSocket ==
  /\ InState("WAITING_FILENAME_STORE") /\ Passive /\ "listen" \in Faults
  /\ fs' = Unlink(Real)
  /\ FreeAllVar /\ pc' = "quit"
  /\ UNCHANGED <<ctlVars, i, flagVars, sigchld, child, askVars, sent, recvd>>

\* do_msg_filename_retr, refused by retrcheckfile or for want of memory.
RetrRefused ==
  /\ InState("WAITING_FILENAME_RETR") /\ {"create", "malloc"} \cap Faults # {}
  /\ FreeAllVar /\ ReplyThen("BAD", "top") /\ state' = "LOGGED"
  /\ UNCHANGED <<timeout, i, flagVars, sigchld, child, fs, askVars, recvd>>

\* do_msg_filename_retr of an empty file: nothing to send, and nothing to answer.
RetrEmpty ==
  /\ InState("WAITING_FILENAME_RETR")
  /\ FreeAllVar /\ pc' = "top" /\ state' = "WAITING_CREATE_ZERO"
  /\ UNCHANGED <<timeout, i, flagVars, sigchld, child, fs, askVars, sent, recvd>>

RetrAccepted ==
  /\ InState("WAITING_FILENAME_RETR")
  /\ Allocate
  /\ pc' = "top" /\ state' = "WAITING_RETR_START"
  /\ UNCHANGED <<timeout, i, flagVars, sigchld, child, fs, askVars, sent, recvd>>

RetrNoSocket ==
  /\ InState("WAITING_FILENAME_RETR") /\ Passive /\ "listen" \in Faults
  /\ FreeAllVar /\ pc' = "quit"
  /\ UNCHANGED <<ctlVars, i, flagVars, sigchld, child, fs, askVars, sent, recvd>>

\* handle_create_zero: MSG_CREATE_ZERO and MSG_ABORT both end the request.
CreateZero ==
  /\ InState("WAITING_CREATE_ZERO")
  /\ pc' = "top" /\ state' = "LOGGED"
  /\ UNCHANGED <<timeout, i, memVars, flagVars, sigchld, child, fs, askVars, sent, recvd>>

WaitingStart == InState("WAITING_STORE_START") \/ InState("WAITING_RETR_START")

\* do_msg_trans_start up to the fork loop of bbftpd_store/retrtransferfile.
TransStart(sim) ==
  /\ WaitingStart /\ sim \in Simulations
  /\ allocated
  /\ simOf' = [simOf EXCEPT ![cur] = sim]
  /\ nbpidchild' = 0 /\ childendinerror' = 0
  /\ unlinkfile' = IF state = "WAITING_STORE_START" THEN 1 ELSE 3
  /\ pc' = "spawn" /\ i' = 1
  /\ UNCHANGED <<ctlVars, allocated, mychildren, killdone, sigchld, child, fs,
                 cur, kindOf, sent, recvd>>

\* do_msg_trans_start after a late SIGCHLD freed the globals: in protocol 2
\* the ports cannot be read into NULL and the session ends, in protocol 3 the
\* sockets are read through NULL.
TransStartFreed ==
  /\ WaitingStart /\ ~allocated
  /\ pc' = IF Passive THEN "ub" ELSE "quit"
  /\ UNCHANGED <<ctlVars, i, memVars, flagVars, sigchld, child, fs, askVars, sent, recvd>>

\* handle_waiting_*_start on MSG_ABORT.
AbortStart ==
  /\ WaitingStart /\ "abort" \in Faults
  /\ fs' = IF state = "WAITING_STORE_START" THEN UnlinkReal ELSE fs
  /\ FreeAllVar /\ pc' = "top" /\ state' = "LOGGED"
  /\ UNCHANGED <<timeout, i, flagVars, sigchld, child, askVars, sent, recvd>>

\* An unexpected message, a start message of the wrong length, ports that cannot
\* be read, or a file name without length or memory for it: the request is
\* dropped, answered "BAD" or not at all, and the connection closed.  With no
\* request open the answer concerns the message alone, not the transfer before it.
InvalidMessage ==
  /\ pc = "loop" /\ state \notin {"RECEIVING", "SENDING"} /\ "invalid" \in Faults
  /\ fs' = IF state = "WAITING_STORE_START" THEN UnlinkReal ELSE fs
  /\ \/ WaitingStart /\ FreeAllVar
     \/ state # "WAITING_STORE_START" /\ UNCHANGED memVars
  /\ \/ state # "LOGGED" /\ ReplyThen("BAD", "quit")
     \/ state # "WAITING_CREATE_ZERO" /\ pc' = "quit" /\ UNCHANGED sent
  /\ UNCHANGED <<ctlVars, i, flagVars, sigchld, child, askVars, recvd>>

\* read_string, when the bytes of the file name do not come (in time): it answers
\* "BAD" and frees its buffer, but returns as if all were well, ...
NameUnread ==
  /\ InState("WAITING_FILENAME_STORE") \/ InState("WAITING_FILENAME_RETR")
  /\ "unread" \in Faults
  /\ ReplyThen("BAD", "unread")
  /\ UNCHANGED <<ctlVars, i, memVars, flagVars, sigchld, child, fs, askVars, recvd>>

\* ... and the request goes on with the freed buffer as its file name.
FreedName ==
  /\ pc = "unread" /\ pc' = "ub"
  /\ UNCHANGED <<ctlVars, i, memVars, flagVars, sigchld, child, fs, askVars, sent, recvd>>

\* handle_receiving and handle_sending: whatever comes ends the session.
InterruptTransfer ==
  /\ pc = "loop" /\ state \in {"RECEIVING", "SENDING"}
  /\ {"abort", "invalid"} \cap Faults # {}
  /\ fs' = IF state = "RECEIVING" THEN UnlinkReal ELSE fs
  /\ pc' = "quit"
  /\ UNCHANGED <<ctlVars, i, memVars, flagVars, sigchld, child, askVars, sent, recvd>>

\* The control connection breaks: bbftpd_msgread_msg fails.
Disconnect ==
  /\ pc = "loop" /\ "disconnect" \in Faults
  /\ fs' = IF state \in {"WAITING_STORE_START", "RECEIVING"} THEN UnlinkReal ELSE fs
  /\ pc' = "quit"
  /\ UNCHANGED <<ctlVars, i, memVars, flagVars, sigchld, child, askVars, sent, recvd>>

\* The timer given to select expires.
IdleTimeout ==
  /\ pc = "loop" /\ timeout # 0 /\ "idle" \in Faults
  /\ fs' = IF state = "WAITING_STORE_START" THEN UnlinkReal ELSE fs
  /\ pc' = "quit"
  /\ UNCHANGED <<ctlVars, i, memVars, flagVars, sigchld, child, askVars, sent, recvd>>

\* MSG_CLOSE_CONN.
CloseConn ==
  /\ InState("LOGGED")
  /\ pc' = "quit"
  /\ UNCHANGED <<ctlVars, i, memVars, flagVars, sigchld, child, fs, askVars, sent, recvd>>

\* The end of main: clean_child, exit_clean, exit.
Exit ==
  /\ pc = "quit"
  /\ CleanChildThen("exit")
  /\ UNCHANGED <<ctlVars, i, memVars, unlinkfile, childendinerror, fs, askVars, sent, recvd>>

-----------------------------------------------------------------------------
(* The fork loop of bbftpd_storetransferfile and bbftpd_retrtransferfile.  *)
(* Its local pointers into myports, mysockets and mychildren dangle once   *)
(* the handler has freed them: using one is undefined.                     *)

Spawn ==
  /\ pc = "spawn" /\ i <= N
  /\ IF allocated
     THEN pc' = "forked" /\ child' = [child EXCEPT ![<<cur, i>>] = "waiting"]
     ELSE pc' = "ub" /\ UNCHANGED child
  /\ UNCHANGED <<ctlVars, i, memVars, flagVars, sigchld, fs, askVars, sent, recvd>>

\* The data connection (protocol 2) or fork fails.  Only a failed fork of a
\* store removes the file here.
SpawnFails ==
  /\ pc = "spawn" /\ i <= N /\ allocated
  /\ \/ "connect" \in Faults /\ ~Passive /\ UNCHANGED fs
     \/ "fork" \in Faults /\ fs' = IF unlinkfile = 1 THEN UnlinkReal ELSE fs
  /\ pc' = IF childendinerror = 0 THEN "report" ELSE "failed"
  /\ UNCHANGED <<ctlVars, i, memVars, flagVars, sigchld, child, askVars, sent, recvd>>

\* childendinerror = 1, then reply(MSG_BAD); a failed reply ends in clean_child.
Report ==
  /\ pc = "report"
  /\ childendinerror' = 1
  /\ \/ /\ sent' = Append(sent, "BAD") /\ pc' = "failed"
        /\ UNCHANGED <<child, killdone, sigchld>>
     \/ "reply" \in Faults /\ CleanChildThen("exit") /\ UNCHANGED sent
  /\ UNCHANGED <<ctlVars, i, memVars, unlinkfile, fs, askVars, recvd>>

KillStarted ==
  /\ pc = "failed"
  /\ CleanChildThen("killed")
  /\ UNCHANGED <<ctlVars, i, memVars, unlinkfile, childendinerror, fs, askVars, sent, recvd>>

\* do_msg_trans_start on a positive return code: unlink, free, S_LOGGED.
GiveUp ==
  /\ pc = "killed"
  /\ fs' = IF kindOf[cur] = "store" THEN UnlinkReal ELSE fs
  /\ FreeAllVar /\ pc' = "top" /\ state' = "LOGGED"
  /\ UNCHANGED <<timeout, i, flagVars, sigchld, child, askVars, sent, recvd>>

\* nbpidchild++ ...
Count ==
  /\ pc = "forked"
  /\ nbpidchild' = nbpidchild + 1 /\ pc' = "counted"
  /\ UNCHANGED <<ctlVars, i, allocated, mychildren, flagVars, sigchld, child, fs,
                 askVars, sent, recvd>>

\* ... and only then *pidfree++ = retcode.
Record ==
  /\ pc = "counted"
  /\ IF allocated
     THEN /\ mychildren' = [mychildren EXCEPT ![i] = <<cur, i>>]
          /\ i' = i + 1 /\ pc' = "spawn"
     ELSE pc' = "ub" /\ UNCHANGED <<mychildren, i>>
  /\ UNCHANGED <<ctlVars, allocated, nbpidchild, flagVars, sigchld, child, fs,
                 askVars, sent, recvd>>

\* All children are forked: the state is set before they are released.
AllForked ==
  /\ pc = "spawn" /\ i > N
  /\ state' = IF kindOf[cur] = "store" THEN "RECEIVING" ELSE "SENDING"
  /\ pc' = "hup" /\ i' = 1
  /\ UNCHANGED <<timeout, memVars, flagVars, sigchld, child, fs, askVars, sent, recvd>>

\* kill(*pidfree, SIGHUP) on the next slot.
Release ==
  /\ pc = "hup" /\ i <= nbpidchild
  /\ IF allocated
     THEN /\ child' = [p \in Pids |-> IF p = mychildren[i] /\ child[p] = "waiting"
                                      THEN "ready" ELSE child[p]]
          /\ i' = i + 1 /\ UNCHANGED pc
     ELSE pc' = "ub" /\ UNCHANGED <<child, i>>
  /\ UNCHANGED <<ctlVars, memVars, flagVars, sigchld, fs, askVars, sent, recvd>>

\* Back to the main loop; unlinkfile = 4 is set only now for a simulated store.
Released ==
  /\ pc = "hup" /\ i > nbpidchild
  /\ unlinkfile' = IF kindOf[cur] = "store" /\ simOf[cur] THEN 4 ELSE unlinkfile
  /\ pc' = "top"
  /\ UNCHANGED <<ctlVars, i, memVars, childendinerror, killdone, sigchld, child, fs,
                 askVars, sent, recvd>>

-----------------------------------------------------------------------------
(* bbftpd_sigchld.  It runs to completion in the father, whatever the      *)
(* father was doing.                                                       *)

SigchldRaised == Running /\ sigchld
Collected == {s \in Slots : mychildren[s] \in Pids /\ child[mychildren[s]] \in Zombie}
CollectedBad == {s \in Collected : child[mychildren[s]] = "bad"}
LeftIgnored == {}
Left == {s \in Slots : s \notin Collected /\ mychildren[s] # NoPid}
Reaped == [p \in Pids |-> IF \E s \in Collected : mychildren[s] = p THEN "reaped" ELSE child[p]]
SlotsKept == mychildren
SlotsLeft == [s \in Streams |-> IF s \in Collected THEN NoPid ELSE mychildren[s]]
AllEnded == nbpidchild > 0 => allocated /\ \A s \in Slots : mychildren[s] = NoPid
InError == childendinerror = 1 \/ CollectedBad # {}

\* Only the first error is reported to the client.
AlwaysFirstError == TRUE
FirstError == childendinerror = 0

\* A client that broke or aborted the session reads no more answers.
Told(code) == IF pc = "quit" THEN sent ELSE Append(sent, code)

\* No child was left to wait for: everything is freed, whatever the father does.
SigchldNone ==
  /\ SigchldRaised /\ AllEnded
  /\ sigchld' = FALSE /\ FreeAllVar
  /\ UNCHANGED <<pc, ctlVars, i, flagVars, child, fs, askVars, sent, recvd>>

\* The slots were freed but nbpidchild counts again: NULL is dereferenced.
SigchldFreed ==
  /\ SigchldRaised /\ nbpidchild > 0 /\ ~allocated
  /\ pc' = "ub"
  /\ UNCHANGED <<ctlVars, i, memVars, flagVars, sigchld, child, fs, askVars, sent, recvd>>

SigchldCollects == SigchldRaised /\ ~AllEnded /\ allocated

\* Some children are still running and none has failed.
SigchldPart ==
  /\ SigchldCollects /\ ~InError /\ Left # {}
  /\ sigchld' = FALSE /\ child' = Reaped /\ mychildren' = SlotsLeft
  /\ UNCHANGED <<pc, ctlVars, i, allocated, nbpidchild, flagVars, fs, askVars, sent, recvd>>

\* The last child ended and none failed: options are applied, OK is answered.
SigchldSuccess ==
  /\ SigchldCollects /\ ~InError /\ Left = {}
  /\ \E ok \in IF unlinkfile \in {1, 4} THEN ProcessOutcomes ELSE {TRUE} :
       LET files == IF unlinkfile \in {1, 4} THEN Processed(fs, ok) ELSE fs IN
       \/ /\ sent' = Told(Answer(ok)) /\ UNCHANGED pc
          /\ fs' = IF unlinkfile = 4 THEN [files EXCEPT !["cur"] = "absent"] ELSE files
       \/ "reply" \in Faults /\ pc' = "exit" /\ UNCHANGED sent /\ fs' = files
  /\ child' = Reaped /\ sigchld' = FALSE
  /\ state' = "LOGGED" /\ unlinkfile' = 0 /\ killdone' = 0 /\ childendinerror' = 0
  /\ FreeAllVar
  /\ UNCHANGED <<timeout, i, askVars, recvd>>

\* A child failed, now or before: the first failure removes the file and is
\* answered, the others are killed; everything is reset after the last one.
SigchldFailure ==
  /\ SigchldCollects /\ InError
  /\ fs' = IF FirstError /\ unlinkfile = 1 THEN Unlink(Real) ELSE fs
  /\ IF Junk \in {mychildren[s] : s \in Left} /\ killdone = 0
     THEN pc' = "ub" /\ UNCHANGED sent
     ELSE IF ~FirstError THEN UNCHANGED <<pc, sent>>
     ELSE \/ sent' = Told("BAD") /\ UNCHANGED pc
          \/ "reply" \in Faults /\ pc' = "exit" /\ UNCHANGED sent
  /\ child' = KilledBy(Victims, Reaped) /\ sigchld' = (Victims # {})
  /\ IF Left = {}
     THEN /\ state' = "LOGGED" /\ unlinkfile' = 0 /\ killdone' = 0 /\ childendinerror' = 0
          /\ FreeAllVar
     ELSE /\ childendinerror' = 1 /\ killdone' = 1 /\ mychildren' = SlotsLeft
          /\ UNCHANGED <<state, unlinkfile, allocated, nbpidchild>>
  /\ UNCHANGED <<timeout, i, askVars, recvd>>

\* bbftpd_sigterm in the father, at any moment: also when a child is counted and its
\* slot not yet written, and clean_child kills what malloc left there.
Sigterm ==
  /\ Running /\ "term" \in Faults
  /\ fs' = IF unlinkfile = 1 THEN UnlinkReal ELSE fs
  /\ CleanChildThen("exit")
  /\ UNCHANGED <<ctlVars, i, memVars, unlinkfile, childendinerror, askVars, sent, recvd>>

-----------------------------------------------------------------------------
(* The children.                                                           *)

fatherVars == <<pc, ctlVars, i, memVars, flagVars, askVars, sent>>

\* wait_for_parent returns: released, or STARTCHILDTO (20 s) has elapsed.  A
\* child the father gave up waits its time out; one whose father is still
\* starting the others does so only if that takes as long ("slow").
Starting == pc \in {"spawn", "report", "failed", "killed", "forked", "counted", "hup"}

StartsAtOnce(p) == child[p] \in {"ready", "waiting"}
MayStart(p) ==
  \/ child[p] = "ready"
  \/ child[p] = "waiting" /\ ("slow" \in Faults \/ p[1] # cur \/ ~Starting)

\* A store child that fails removes the file.
ChildUnlink(p) == IF kindOf[p[1]] = "store" THEN Unlink(Real) ELSE fs

\* The child finds the file and opens its fragment of it.
OpenFragment(p) ==
  /\ MayStart(p)
  /\ kindOf[p[1]] = "store" => fs[Real] # "absent"
  /\ child' = [child EXCEPT ![p] = "open"]
  /\ UNCHANGED <<fatherVars, sigchld, fs, recvd>>

\* Another child has destroyed the file, or it cannot be opened.
OpenFails(p) ==
  /\ MayStart(p)
  /\ \/ kindOf[p[1]] = "store" /\ fs[Real] = "absent"
     \/ "data" \in Faults
  /\ fs' = ChildUnlink(p)
  /\ child' = [child EXCEPT ![p] = "failing"]
  /\ UNCHANGED <<fatherVars, sigchld, recvd>>

\* The fragment goes through and is acknowledged; nothing is exchanged in a
\* simulation.
Stream(p) ==
  /\ child[p] = "open" /\ p[1] = cur
  /\ recvd' = IF simOf[cur] THEN recvd ELSE recvd \cup {p[2]}
  /\ child' = [child EXCEPT ![p] = "done"]
  /\ UNCHANGED <<fatherVars, sigchld, fs>>

\* The data connection or the local file fails: because of a fault, or because
\* the client has given up the transfer.
StreamFails(p) ==
  /\ child[p] = "open"
  /\ "data" \in Faults \/ p[1] # cur \/ sent # <<>> \/ pc \in {"quit", "exit", "ub"}
  /\ fs' = ChildUnlink(p)
  /\ child' = [child EXCEPT ![p] = "failing"]
  /\ UNCHANGED <<fatherVars, sigchld, recvd>>

Die(p, status) ==
  /\ child' = [child EXCEPT ![p] = status]
  /\ sigchld' = TRUE
  /\ UNCHANGED <<fatherVars, fs, recvd>>

ChildExit(p) == \/ child[p] = "done" /\ Die(p, "ok")
                \/ child[p] = "failing" /\ Die(p, "bad")

\* A child killed from outside.
ChildKilled(p) ==
  /\ \/ "kill" \in Faults /\ child[p] \in Live \ {"waiting"}
     \/ "earlykill" \in Faults /\ child[p] = "waiting"
  /\ Die(p, "bad")

-----------------------------------------------------------------------------
Control == \/ Select \/ \E kind \in Kinds : Request(kind)
           \/ StoreRefused \/ StoreEmpty \/ StoreAccepted \/ StoreNoMemory \/ StoreNoSocket
           \/ RetrRefused \/ RetrEmpty \/ RetrAccepted \/ RetrNoSocket \/ CreateZero
           \/ \E sim \in BOOLEAN : TransStart(sim)
           \/ TransStartFreed \/ AbortStart \/ InvalidMessage \/ InterruptTransfer
           \/ NameUnread \/ FreedName
           \/ Disconnect \/ IdleTimeout \/ CloseConn \/ Exit

Engine == \/ Spawn \/ SpawnFails \/ Report \/ KillStarted \/ GiveUp
          \/ Count \/ Record \/ AllForked \/ Release \/ Released

Signal == \/ SigchldNone \/ SigchldFreed \/ SigchldPart
          \/ SigchldSuccess \/ SigchldFailure

Serve(p) == OpenFragment(p) \/ OpenFails(p) \/ Stream(p) \/ ChildExit(p)

\* The process is gone: nothing more is said about the session.
Gone == ~Running /\ UNCHANGED vars

Next == \/ Control \/ Engine \/ Signal \/ Sigterm
        \/ \E p \in Pids : Serve(p) \/ StreamFails(p) \/ ChildKilled(p)
        \/ Gone

\* The server's own steps are taken as soon as the kernel schedules the process;
\* a client that started a transfer serves all its streams.  Nothing is assumed
\* of requests, faults and signals from outside.
Fairness == /\ WF_vars(Engine) /\ WF_vars(Select) /\ WF_vars(Exit) /\ WF_vars(Signal)
            /\ \A p \in Pids : WF_vars(Serve(p))

Spec == Init /\ [][Next]_vars /\ Fairness

-----------------------------------------------------------------------------
(* Properties.                                                             *)

FlagType == allocated \in BOOLEAN /\ sigchld \in BOOLEAN

ValueType ==
  /\ pc \in {"top", "loop", "quit", "exit", "ub", "spawn", "report", "failed",
             "killed", "forked", "counted", "hup", "unread"}
  /\ state \in {"LOGGED", "WAITING_FILENAME_STORE", "WAITING_FILENAME_RETR",
                "WAITING_STORE_START", "WAITING_RETR_START", "WAITING_CREATE_ZERO",
                "RECEIVING", "SENDING"}
  /\ timeout \in {0, 10, 900}
  /\ i \in 1..(N + 1)
  /\ mychildren \in SlotType
  /\ nbpidchild \in 0..N
  /\ unlinkfile \in {0, 1, 3, 4}
  /\ childendinerror \in {0, 1} /\ killdone \in {0, 1}
  /\ child \in ChildType
  /\ fs \in FsType
  /\ cur \in 0..MaxTransfers
  /\ kindOf \in [Transfers -> {"none", "store", "retr"}]
  /\ simOf \in [Transfers -> BOOLEAN]
  /\ sent \in Seq({"OK", "BAD"})
  /\ recvd \subseteq Streams

TypeOK == FlagType /\ ValueType

OkSent == "OK" \in {sent[k] : k \in 1..Len(sent)}

\* MSG_OK is the client's only proof that its file arrived: once it was sent
\* for a real transfer every stream was received to its end, and a stored file
\* is, and stays until the next request, under its final name.
OkMeansComplete ==
  OkSent /\ ~simOf[cur] =>
    recvd = Streams /\ (kindOf[cur] = "store" => fs["cur"] = "new")

\* "We need only one error message" (bbftpd_store.c): the client reads exactly
\* one final answer per transfer, a second one would answer its next request.
\* It says nothing of what follows undefined behaviour: a request whose name was not read
\* (FreedName) has its "BAD" and may go on to another answer.
OneAnswer == Len(sent) <= 1

\* The session is ready for a request.
Ready == pc = "loop" /\ state = "LOGGED"

\* A store that was refused, failed, aborted or only announced leaves nothing
\* behind, neither under the temporary nor under the final name.
FailureLeavesNoFile ==
  Ready /\ ~OkSent => \A x \in Paths : fs[x] # "new"

\* When the session is ready for a request, nothing of the transfer before is
\* left over: no child runs, the storage is free and clean_child is armed again.
ReadyIsClean ==
  Ready => /\ \A p \in Pids : child[p] \notin Live
           /\ killdone = 0 /\ ~allocated

\* The father never follows a pointer that free_all_var has cleared, and never kills
\* what a slot of mychildren held before a pid was written to it.
NoUndefinedBehaviour == pc # "ub"

\* Whatever fails, that can happen only while the file name is read, between the
\* file name and the start, and in the loops that fork and release the children:
\* the handler, clean_child and free_all_var leave nothing dangling for any later
\* step (a child counted has a slot, and the slot a pid).
UndefinedOnlyStarting ==
  [][pc' = "ub" /\ pc # "ub" =>
       WaitingStart \/ pc \in {"unread", "spawn", "counted", "hup"}]_vars

\* A stopped session leaves no child behind that still works on the file.
ExitLeavesNoChild == pc = "exit" => \A p \in Pids : child[p] \notin Live

\* Under TROPT_TMP the session implements AtomicStore: at most one answer per
\* request, and the destination is replaced only together with MSG_OK.
AtomicStoreView == INSTANCE AtomicStore WITH
  phase  <- IF ~Running THEN "closed" ELSE IF sent # <<>> THEN "answered"
            ELSE IF state = "LOGGED" THEN "idle" ELSE "asked",
  wanted <- IF cur = 0 THEN "none" ELSE kindOf[cur],
  answer <- IF sent = <<>> THEN "none" ELSE sent[1],
  dest   <- fs["cur"]
AtomicStoreImplemented == AtomicStoreView!Spec

\* Every transfer that was started is answered and the session becomes ready for the
\* next request, unless it ends: also when the SIGCHLDs of several children are merged.
SessionRecovers ==
  pc = "spawn" ~> ((sent # <<>> /\ Ready) \/ pc \in {"quit", "exit", "ub"})

=============================================================================
