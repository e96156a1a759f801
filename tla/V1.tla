---------------------------------- MODULE V1 ----------------------------------
(***************************************************************************)
(* Version 1 of the protocol on the server (directory v1): one loop reads  *)
(* the messages of a session and handles each in one routine, which forks  *)
(* a child for every stream of a file and returns; the SIGCHLD handler     *)
(* collects the children and answers.  The server always connects, there   *)
(* is no temporary file, and the pids are in the fixed table pid_child.    *)
(*                                                                         *)
(* As in Transfer the handler may run between any two steps of the father  *)
(* while children live, and what is done without children is one step.  A  *)
(* child is <<t, s>>, stream s of the t-th request; data is abstracted to  *)
(* the streams that went through, the destination to whose file it is, and *)
(* MSG_BAD and MSG_BAD_NO_RETRY to one answer "BAD".  A server without     *)
(* RFIO refuses MSG_RETR_RFIO and does not read what belongs to it: that   *)
(* message is left out.                                                    *)
(***************************************************************************)
EXTENDS Naturals, Sequences

CONSTANTS
  N,           \* nbport: streams of a transfer
  MaxRequests, \* bound: requests of a session
  Faults,      \* what may go wrong: a subset of AllFaults
  Patient      \* the client waits before its next request until the children of
               \* the last one have gone (WAITRETRYTIME > STARTCHILDTO)

\* "slow": the start of the children takes longer than STARTCHILDTO; "kill" and "earlykill": a
\* child is killed after or before it was told to start.
AllFaults == {"refuse", "connect", "fork", "slow", "data", "kill", "earlykill",
              "reply", "break", "idle", "term"}

ASSUME BoundsAssumption == N \in Nat \ {0} /\ MaxRequests \in Nat
ASSUME FaultsAssumption == Faults \subseteq AllFaults /\ Patient \in BOOLEAN

VARIABLES
  pc,              \* where the father is
  state,           \* "LOGGED", "RECEIVING" or "SENDING"
  timed,           \* the select the father waits in has a timer
  i,               \* the index of the father's loop over the streams
  pid_child,       \* the pids of the children
  unlinkfile,      \* 1: the handlers have to remove the file
  childendinerror, \* an error has been reported already
  killdone,        \* clean_child has run
  sigchld          \* a SIGCHLD is pending

VARIABLES
  child,           \* every child's life
  fs,              \* the destination: "absent", "old", or "new": of the last request
  cur,             \* number of the last request
  kind,            \* the kind of every request
  sent,            \* the answers to the last request
  recvd            \* its streams that were received to their end

flagVars == <<unlinkfile, childendinerror, killdone>>
fatherVars == <<pc, state, timed, i, pid_child, flagVars, cur, kind, sent>>
vars == <<fatherVars, sigchld, child, fs, recvd>>

Streams == 1..N
Requests == 1..MaxRequests
Pids == Requests \X Streams
NoPid == <<0, 0>>
NoChild == [s \in Streams |-> NoPid]

Live == {"waiting", "ready", "open", "done", "failing"}
Ended == {"ok", "bad", "killed"}
Running == pc # "exit"

Recorded == {pid_child[s] : s \in Streams} \ {NoPid}

\* The children that clean_child sends SIGKILL to.
Victims == IF killdone = 0 THEN {p \in Recorded : child[p] \in Live} ELSE {}
Kill(victims, c) == [p \in Pids |-> IF p \in victims THEN "killed" ELSE c[p]]
CleanChild == /\ child' = Kill(Victims, child) /\ killdone' = 1
              /\ sigchld' = (sigchld \/ Victims # {})

\* reply: the answer is written, or the process ends.
Reply(code, next) ==
  \/ sent' = <<code>> /\ pc' = next
  \/ "reply" \in Faults /\ sent' = <<>> /\ pc' = "exit"

Init ==
  /\ pc = "select" /\ state = "LOGGED" /\ timed = TRUE /\ i = 1
  /\ pid_child = NoChild /\ unlinkfile = 0 /\ childendinerror = 0 /\ killdone = 0
  /\ sigchld = FALSE /\ child = [p \in Pids |-> "none"]
  /\ fs \in {"absent", "old"}
  /\ cur = 0 /\ kind = [t \in Requests |-> "none"] /\ sent = <<>> /\ recvd = {}

-----------------------------------------------------------------------------
(* The loop of bbftp_run_protocol_1.                                       *)

\* The timer is chosen by the state the father sees before it waits.
Wait ==
  /\ pc = "top" /\ pc' = "select" /\ timed' = (state = "LOGGED")
  /\ UNCHANGED <<state, i, pid_child, flagVars, sigchld, child, fs, cur, kind, sent, recvd>>

Settled == ~sigchld /\ \A p \in Pids : child[p] \notin Live

\* readcontrol_v1 in S_LOGGED: the table is cleared, whoever is in it.
Take(k) ==
  /\ pc = "select" /\ state = "LOGGED" /\ cur < MaxRequests
  /\ Patient => Settled
  /\ cur' = cur + 1 /\ kind' = [kind EXCEPT ![cur + 1] = k]
  /\ pid_child' = NoChild /\ i' = 1
  /\ UNCHANGED <<state, timed, killdone, sigchld, child>>

Before == IF fs = "new" THEN "old" ELSE fs

\* storeafile: a directory, or a file that cannot be opened.
StoreRefused ==
  /\ Take("store") /\ "refuse" \in Faults
  /\ Reply("BAD", "top") /\ fs' = Before
  /\ unlinkfile' = 0 /\ childendinerror' = 0 /\ recvd' = {}

StoreEmpty ==
  /\ Take("store") /\ Reply("OK", "top") /\ fs' = "new"
  /\ unlinkfile' = 0 /\ childendinerror' = 0 /\ recvd' = Streams

\* The file is there, but it cannot be given its size.
StoreNoSpace ==
  /\ Take("store") /\ "refuse" \in Faults
  /\ Reply("BAD", "top") /\ fs' = "absent"
  /\ unlinkfile' = 1 /\ childendinerror' = 0 /\ recvd' = {}

\* The old file is truncated and has the new size at once.
StoreAccepted ==
  /\ Take("store") /\ pc' = "spawn" /\ sent' = <<>> /\ fs' = "new"
  /\ unlinkfile' = 1 /\ childendinerror' = 0 /\ recvd' = {}

\* sendafile: no such file, or one that cannot be read.
RetrRefused ==
  /\ Take("retr") /\ "refuse" \in Faults
  /\ Reply("BAD", "top") /\ fs' = Before
  /\ unlinkfile' = 0 /\ childendinerror' = 0 /\ recvd' = {}

\* MSG_RETR_OK has been sent, and the father waits for what the client says.
RetrOffered ==
  /\ Take("retr") /\ pc' = "offered" /\ sent' = <<>> /\ fs' = Before
  /\ unlinkfile' = 0 /\ childendinerror' = 0 /\ recvd' = {}

\* MSG_RETR_START; or MSG_ABR or MSG_CREATE_ZERO, which end the request without an
\* answer; or anything else, or nothing, which ends the session.
RetrStarts ==
  /\ pc = "offered"
  /\ \/ pc' \in {"spawn", "top"}
     \/ "break" \in Faults /\ pc' = "quit"
  /\ UNCHANGED <<state, timed, i, pid_child, flagVars, sigchld, child, fs, cur, kind, sent, recvd>>

\* The parameters do not come, or MSG_RETR_OK cannot be sent.
RequestBroken ==
  /\ "break" \in Faults /\ \E k \in {"store", "retr"} : Take(k)
  /\ pc' = "quit" /\ sent' = <<>> /\ fs' = Before
  /\ unlinkfile' = 0 /\ childendinerror' = 0 /\ recvd' = {}

Other(k) == Take(k) /\ fs' = Before /\ unlinkfile' = 0 /\ UNCHANGED childendinerror /\ recvd' = {}

\* A path that is too long is answered and ends the session, one that does not come
\* ends it too.
CannotReadPath == \/ "break" \in Faults /\ sent' = <<>> /\ pc' = "quit"
                  \/ "refuse" \in Faults /\ Reply("BAD", "quit")

Tried == \E code \in {"OK", "BAD"} : Reply(code, "top")

CreateDir == Other("mkdir") /\ (Tried \/ CannotReadPath)
ChangeDir == Other("chdir") /\ (Tried \/ CannotReadPath)

\* The names that match, perhaps none, are the answer; they are not sent with reply.
SendList ==
  /\ Other("list")
  /\ \/ sent' = <<"OK">> /\ pc' = "top"
     \/ "refuse" \in Faults /\ Reply("BAD", "top")
     \/ CannotReadPath

\* A message that is not known, or compression in a server without it: what belongs to
\* it is read, and the session goes on.
NotAvailable ==
  /\ Other("other")
  /\ \/ Reply("BAD", "top")
     \/ "break" \in Faults /\ Reply("BAD", "quit")

Leaves == /\ pc' = "quit"
          /\ UNCHANGED <<state, timed, i, pid_child, flagVars, sigchld, child, fs, cur, kind,
                         sent, recvd>>

\* Whatever comes during a transfer ends the session, a request of a client that has
\* its answer already not excepted.
MessageInTransfer ==
  /\ pc = "select" /\ state # "LOGGED"
  /\ "break" \in Faults \/ (sent # <<>> /\ ~Patient)
  /\ Leaves

\* The client is gone: MSG_CLOSE_CONN is not known in this version.
Disconnect == pc = "select" /\ "break" \in Faults /\ Leaves
IdleTimeout == pc = "select" /\ timed /\ "idle" \in Faults /\ Leaves

\* The end of main.  The file of an unfinished store stays as it is.
Quit ==
  /\ pc = "quit" /\ pc' = "exit" /\ CleanChild
  /\ UNCHANGED <<state, timed, i, pid_child, unlinkfile, childendinerror, fs, cur, kind, sent, recvd>>

-----------------------------------------------------------------------------
(* The start of the children in storeafile and sendafile.                  *)

Storing == kind[cur] = "store"
UnlinkStored == IF Storing THEN "absent" ELSE fs

\* createreceivesock has connected to the client's port, and fork has made a child.
Spawn ==
  /\ pc = "spawn" /\ i <= N /\ pc' = "forked"
  /\ child' = [child EXCEPT ![<<cur, i>>] = "waiting"]
  /\ UNCHANGED <<state, timed, i, pid_child, flagVars, sigchld, fs, cur, kind, sent, recvd>>

\* No connection or no child: the file is removed, and the client is told unless a child
\* has been reported already.
SpawnFails ==
  /\ pc = "spawn" /\ i <= N /\ {"connect", "fork"} \cap Faults # {}
  /\ fs' = UnlinkStored /\ childendinerror' = 1
  /\ pc' = IF childendinerror = 0 THEN "report" ELSE "failed"
  /\ UNCHANGED <<state, timed, i, pid_child, unlinkfile, killdone, sigchld, child, cur, kind,
                 sent, recvd>>

Report ==
  /\ pc = "report"
  /\ \/ /\ sent' = Append(sent, "BAD") /\ pc' = "failed"
        /\ UNCHANGED <<child, killdone, sigchld>>
     \/ "reply" \in Faults /\ pc' = "exit" /\ CleanChild /\ UNCHANGED sent
  /\ UNCHANGED <<state, timed, i, pid_child, unlinkfile, childendinerror, fs, cur, kind, recvd>>

\* clean_child, and back to the loop: the flags stay until a handler finds the last child.
GiveUpStart ==
  /\ pc = "failed" /\ pc' = "top" /\ CleanChild
  /\ UNCHANGED <<state, timed, i, pid_child, unlinkfile, childendinerror, fs, cur, kind, sent, recvd>>

Record ==
  /\ pc = "forked" /\ pc' = "spawn" /\ i' = i + 1
  /\ pid_child' = [s \in Streams |-> IF s = i THEN <<cur, i>> ELSE pid_child[s]]
  /\ UNCHANGED <<state, timed, flagVars, sigchld, child, fs, cur, kind, sent, recvd>>

\* The state is set before the children are released.
AllForked ==
  /\ pc = "spawn" /\ i > N /\ pc' = "hup" /\ i' = 1
  /\ state' = IF Storing THEN "RECEIVING" ELSE "SENDING"
  /\ UNCHANGED <<timed, pid_child, flagVars, sigchld, child, fs, cur, kind, sent, recvd>>

Release ==
  /\ pc = "hup" /\ i <= N /\ i' = i + 1
  /\ child' = [p \in Pids |-> IF p = pid_child[i] /\ child[p] = "waiting" THEN "ready" ELSE child[p]]
  /\ UNCHANGED <<pc, state, timed, pid_child, flagVars, sigchld, fs, cur, kind, sent, recvd>>

\* Mutant: the state is set once the children have been released.
ReleasedSetsState ==
  /\ pc = "hup" /\ i > N /\ pc' = "top"
  /\ state' = IF Storing THEN "RECEIVING" ELSE "SENDING"
  /\ UNCHANGED <<timed, i, pid_child, flagVars, sigchld, child, fs, cur, kind, sent, recvd>>

Released ==
  /\ pc = "hup" /\ i > N /\ pc' = "top"
  /\ UNCHANGED <<state, timed, i, pid_child, flagVars, sigchld, child, fs, cur, kind, sent, recvd>>

-----------------------------------------------------------------------------
(* The handlers in_sigchld_v1 and in_sigterm_v1.                           *)

\* Mutant: the exit status is looked at and the signal is not.
EndedWellOrKilled(status) == status \in {"ok", "killed"}

\* checkendchild
EndedWell(status) == status = "ok"

Collected == {s \in Streams : pid_child[s] # NoPid /\ child[pid_child[s]] \in Ended}
Failed == {s \in Collected : ~EndedWell(child[pid_child[s]])}
Slots == [s \in Streams |-> IF s \in Collected THEN NoPid ELSE pid_child[s]]
Reaped == [p \in Pids |-> IF \E s \in Collected : pid_child[s] = p THEN "reaped" ELSE child[p]]
Raised == Running /\ sigchld

\* The signal of a child that ended while the handler was collecting another one is still
\* to come.
Again == {FALSE, \E s, t \in Collected : s # t}

\* Every child was found dead already.
SigchldNone ==
  /\ Raised /\ pid_child = NoChild /\ sigchld' = FALSE
  /\ UNCHANGED <<fatherVars, child, fs, recvd>>

SigchldPart ==
  /\ Raised /\ Failed = {} /\ childendinerror = 0 /\ Slots # NoChild
  /\ sigchld' \in Again /\ pid_child' = Slots /\ child' = Reaped
  /\ UNCHANGED <<pc, state, timed, i, flagVars, fs, cur, kind, sent, recvd>>

\* A client that is gone reads no more answers.
Told(code) == IF pc = "quit" THEN sent ELSE Append(sent, code)

SigchldSuccess ==
  /\ Raised /\ pid_child # NoChild /\ Failed = {} /\ childendinerror = 0 /\ Slots = NoChild
  /\ \/ sent' = Told("OK") /\ UNCHANGED pc
     \/ "reply" \in Faults /\ pc' = "exit" /\ UNCHANGED sent
  /\ state' = "LOGGED" /\ unlinkfile' = 0 /\ killdone' = 0 /\ childendinerror' = 0
  /\ sigchld' \in Again /\ pid_child' = Slots /\ child' = Reaped
  /\ UNCHANGED <<timed, i, fs, cur, kind, recvd>>

\* Mutant: every error is reported.
FirstErrorAlways == Failed # {}
FirstError == Failed # {} /\ childendinerror = 0

\* Mutant: the removal is left to the children.
UnlinkLeft == fs
UnlinkAsked == IF unlinkfile = 1 THEN "absent" ELSE fs

\* A child has failed, now or before: the first failure is reported and the others are
\* killed.  After the last child everything is reset.
SigchldFailure ==
  /\ Raised /\ pid_child # NoChild /\ (Failed # {} \/ childendinerror = 1)
  /\ fs' = IF FirstError THEN UnlinkAsked ELSE fs
  /\ IF FirstError
     THEN \/ sent' = Told("BAD") /\ UNCHANGED pc
          \/ "reply" \in Faults /\ pc' = "exit" /\ UNCHANGED sent
     ELSE UNCHANGED <<pc, sent>>
  /\ pid_child' = Slots
  /\ LET victims == {p \in Victims : \E s \in Streams : Slots[s] = p}
     IN child' = Kill(victims, Reaped) /\ sigchld' \in (IF victims # {} THEN {TRUE} ELSE Again)
  /\ IF Slots = NoChild
     THEN state' = "LOGGED" /\ unlinkfile' = 0 /\ killdone' = 0 /\ childendinerror' = 0
     ELSE childendinerror' = 1 /\ killdone' = 1 /\ UNCHANGED <<state, unlinkfile>>
  /\ UNCHANGED <<timed, i, cur, kind, recvd>>

\* in_sigterm_v1 in the father.
Sigterm ==
  /\ Running /\ "term" \in Faults
  /\ fs' = UnlinkAsked /\ pc' = "exit" /\ CleanChild
  /\ UNCHANGED <<state, timed, i, pid_child, unlinkfile, childendinerror, cur, kind, sent, recvd>>

-----------------------------------------------------------------------------
(* The children.                                                           *)

Starting == pc \in {"spawn", "forked", "report", "failed", "hup"}

\* SIGHUP has come, or STARTCHILDTO has elapsed.
MayStart(p) ==
  \/ child[p] = "ready"
  \/ child[p] = "waiting" /\ ("slow" \in Faults \/ p[1] # cur \/ ~Starting)

Removed(p) == IF kind[p[1]] = "store" THEN "absent" ELSE fs
Becomes(p, life) == child' = [child EXCEPT ![p] = life]

OpenFile(p) ==
  /\ MayStart(p) /\ (kind[p[1]] = "store" => fs # "absent")
  /\ Becomes(p, "open") /\ UNCHANGED <<fatherVars, sigchld, fs, recvd>>

\* Another child has removed the file, or it cannot be opened.
NoFile(p) ==
  /\ MayStart(p) /\ ((kind[p[1]] = "store" /\ fs = "absent") \/ "data" \in Faults)
  /\ fs' = Removed(p)
  /\ Becomes(p, "failing") /\ UNCHANGED <<fatherVars, sigchld, recvd>>

\* All bytes of the fragment, and MSG_ACK from the one who got them.
Stream(p) ==
  /\ child[p] = "open" /\ p[1] = cur
  /\ recvd' = recvd \cup {p[2]}
  /\ Becomes(p, "done") /\ UNCHANGED <<fatherVars, sigchld, fs>>

\* The connection or the file fails, or the client has given up.
StreamFails(p) ==
  /\ child[p] = "open"
  /\ "data" \in Faults \/ p[1] # cur \/ sent # <<>> \/ pc \in {"quit", "exit"}
  /\ fs' = Removed(p)
  /\ Becomes(p, "failing") /\ UNCHANGED <<fatherVars, sigchld, recvd>>

Dies(p, status) == Becomes(p, status) /\ sigchld' = TRUE /\ UNCHANGED <<fatherVars, fs, recvd>>

ChildExit(p) == \/ child[p] = "done" /\ Dies(p, "ok")
                \/ child[p] = "failing" /\ Dies(p, "bad")

\* A signal from outside.
ChildKilled(p) ==
  /\ child[p] \in Live
  /\ child[p] = "waiting" => "earlykill" \in Faults
  /\ child[p] # "waiting" => "kill" \in Faults
  /\ Dies(p, "killed")

-----------------------------------------------------------------------------

Loop == \/ StoreRefused \/ StoreEmpty \/ StoreNoSpace \/ StoreAccepted \/ RetrRefused
        \/ RetrOffered \/ RequestBroken \/ CreateDir \/ ChangeDir \/ SendList \/ NotAvailable
        \/ MessageInTransfer \/ Disconnect \/ IdleTimeout
Engine == \/ Wait \/ Quit \/ RetrStarts \/ Spawn \/ SpawnFails \/ Report \/ GiveUpStart
          \/ Record \/ AllForked \/ Release \/ Released
Signal == SigchldNone \/ SigchldPart \/ SigchldSuccess \/ SigchldFailure
Serve(p) == OpenFile(p) \/ NoFile(p) \/ Stream(p) \/ ChildExit(p)

Gone == ~Running /\ UNCHANGED vars

Next == \/ Loop \/ Engine \/ Signal \/ Sigterm
        \/ \E p \in Pids : Serve(p) \/ StreamFails(p) \/ ChildKilled(p)
        \/ Gone

\* The processes run, and a client that has asked for a file serves its streams.
Fairness == WF_vars(Engine) /\ WF_vars(Signal) /\ \A p \in Pids : WF_vars(Serve(p))

Spec == Init /\ [][Next]_vars /\ Fairness

-----------------------------------------------------------------------------
(* Properties.                                                             *)

\* The variables have their types.
TypeOK ==
  /\ pc \in {"top", "select", "offered", "spawn", "forked", "report", "failed", "hup", "quit",
             "exit"}
  /\ state \in {"LOGGED", "RECEIVING", "SENDING"} /\ timed \in BOOLEAN /\ i \in 1..(N + 1)
  /\ pid_child \in [Streams -> Pids \cup {NoPid}]
  /\ unlinkfile \in {0, 1} /\ childendinerror \in {0, 1} /\ killdone \in {0, 1}
  /\ sigchld \in BOOLEAN /\ child \in [Pids -> Live \cup Ended \cup {"none", "reaped"}]
  /\ fs \in {"absent", "old", "new"} /\ cur \in 0..MaxRequests
  /\ kind \in [Requests -> {"none", "store", "retr", "mkdir", "chdir", "list", "other"}]
  /\ sent \in Seq({"OK", "BAD"}) /\ recvd \subseteq Streams

\* "We need only one error message" (storeafile.c): a second answer would be taken for
\* the one to the next request.  With "earlykill" the code sends one: see README.md.
OneAnswer == Len(sent) <= 1

OkSent == cur # 0 /\ sent = <<"OK">>

\* MSG_OK for a file: every stream was received to its end, and a stored file is there
\* until the next request, also when children were killed or left over from a start that
\* failed (in_sigchld_v1, checkendchild).
OkMeansComplete ==
  OkSent /\ kind[cur] \in {"store", "retr"} =>
    recvd = Streams /\ (Storing => fs = "new")

Ready == pc = "select" /\ state = "LOGGED"

\* A store that has failed leaves no file, even if the child was killed and could not
\* remove it (unlinkfile).
FailureLeavesNoFile == Ready /\ ~OkSent => fs # "new"

\* A transfer that was started is answered, and the session takes requests again, unless
\* it ends: also when every child ends before the father is back in its loop.
Recovers == pc = "spawn" ~> ((sent # <<>> /\ Ready) \/ pc \in {"quit", "exit"})
=============================================================================
