# bbftp: a verification project

bbftp moves large files over several TCP streams. A client (`bbftp`) opens one
control connection to a server (`bbftpd`), logs in, and asks for files to be
stored or retrieved; for every file both sides fork one child per stream, and
the children move the fragments over data connections of their own. This
directory holds TLA+ models of the program, the TLC runs that check them on small
instances, and theorems about them that the TLA+ proof system checks for every
value of the constants. All definitions are translated from the C code; the
line ranges are in `PROJECT.json`, under `map`. Paths below are relative to `src/`.

## The system

| Component | State it keeps | Operations | Interacts with |
|---|---|---|---|
| **Server transfer engine** (`bbftpd_store.c`, `bbftpd_retr.c`, `bbftpd_signals.c`, `clean_child` in `bbftpd.c`) | globals shared by the session process and its SIGCHLD handler: `mychildren`, `nbpidchild`, `unlinkfile`, `childendinerror`, `killdone`, `realfilename`, `curfilename`, `state` | create the target, fork and release the children, collect them, apply options and rename, answer, clean up | children (fork, SIGHUP, SIGKILL, exit status), files, control connection (the handler replies itself) |
| **Server control connection** (`bbftpd_readcontrol.c`, `bbftpd_message.c`) | `state`, the timer given to `select`, the transfer parameters | one handler per state; transfer requests, directory and file commands, timeouts | the engine (calls), the client (messages) |
| **Server data sockets** (`bbftpd_socket.c`) | `mysockets`, port range | listen (protocol 3) or connect (protocol 2) | engine |
| **Server session start** (`bbftpd.c` main, `bbftpd_daemon.c`, `bbftpd_check.c`, `bbftpd_login.c`, `bbftpd_private*.c`, `bbftpd_crypt.c`) | `state`, protocol version, `haveconfiguredport` | accept, negotiate a version, log in, idle timers | control connection |
| **Client transfers** (`bbftp_put.c`, `bbftp_get.c`, `bbftp_store.c`, `bbftp_retr.c`, `setsignals.c`) | globals of the same kind (`BBftp_Mychildren`, `BBftp_Realfilename`, `BBftp_State`, ...) | request, start, fork children, wait for children and for the answer, clean up | server messages, own children |
| **Client commands and retry** (`bbftp.c`, `bbftp_cmds.c`, `bbftp_m{put,get}.c`) | `BBftp_Connectionisbroken`, `BBftp_Globaltrymax`, `num_tries`, result file | run each command, retry, reconnect | client transfers and connection |
| **Client connection** (`connecttoserver.c`, `bbftp_private.c`, `bbftp_socket.c`, `getdatasock.c`) | `protocol`, the address and the try, sockets | connect, negotiate, log in, replay the settings, reconnect | server session start |
| **Single commands** (client `bbftp_{cd,dir,list,mkdir,rm,stat,...}.c`, server `do_msg_*` in `bbftpd_readcontrol.c`, `bbftpd_{list,stat,statfs}.c`) | client: `BBftp_Remotedir`, `BBftp_remoteumask`, `BBftp_Remotecos`, `BBftp_Transferoption`; server: the working directory and umask of its process, `transferoption` | one request, one answer | control connection |
| **Many files** (`bbftp_mget.c`, `bbftp_mput.c`, `bbftp_list.c`) | the list of files, a result line for each | a transfer for each file, with its own tries and reconnections | single commands, client transfers |
| **Protocol version 1** (`bbftpd/v1/`) | `pid_child` and the flags of the engine | its own loop, requests, children and SIGCHLD handler | files, children, control connection |
| **The files of a destination** (`bbftpd_store.c`, `bbftp_store.c`) | names, inodes and directories, shared by every process of a host | create directories, unlink, create, write, rename | all processes that write the same path |
| RFIO variants, logging, `bbftp_turl.c`, `gfw/`, build files | | | optional, output only, or generated |

### What is hard

* **Signals and the main line.** The server's SIGCHLD handler is not a flag: it
  removes files, applies options, renames, answers the client, kills the other
  children, frees all globals of the transfer and sets the protocol state. It
  may run between any two instructions of `bbftpd_storetransferfile`, which walks
  the same arrays with local pointers.
* **Several failures at once.** Streams fail independently, each child
  unlinks the file, the father may unlink it too, and SIGCHLDs merge. The client
  must read exactly one final answer.
* **Failures half-way through the start**: some children exist, some do not.
* **What the client may conclude.** `MSG_OK` is the only evidence that a file
  arrived.
* **Retry.** The client repeats failed commands on the same or a new connection
  while the server may still be cleaning up.
* **Timeouts**: 10 s, 900 s and none in the main loop, 20 s in the children,
  which do not restart when the state changes under a running `select`.
* **Settings in three places.** The directory and the umask live in a process of the
  server that a lost connection takes with it; the client keeps copies that it replays,
  and the user believes in a third. Answers carry no mark of the request they answer.
* **Paths, not descriptors.** The father and the children of a transfer, and other
  sessions and clients, name the same file by its path in one system call after the other.
* **The start of a session** has two dialogues, two processes that may each die, several
  addresses and tries, and clients that leave without a word.

### What makes each component correct

* *Engine*: one truthful answer per transfer; after it, nothing is left over; a
  failed store leaves no file; under `TROPT_TMP` the destination is replaced
  together with `MSG_OK`; no child outlives the session; no freed global is used.
* *Control connection*: every request is answered once, in order; a message that
  does not fit the state ends or leaves the session in a defined state.
* *Data sockets and streams*: the fragments partition the file and each receives
  all its bytes.
* *Session start*: client and server agree on one version that both have; a refused
  login is not repeated; the client gets in or ends; no session stays behind.
* *Client*: a command is reported done only if it was; a failed one is retried a
  bounded number of times on a connection in a known state.
* *Single commands and many files*: what is done is done in the directory, and with the
  umask, the user believes in, on whatever connection; the exit code tells of failures.
* *Files of a destination*: with temporary files the target is always one complete file
  of one process, and no transfer that ended leaves litter.

## The modules

| Module | Models |
|---|---|
| `Transfer` | the transfer engine together with the transfer part of the control connection, of one session |
| `AtomicStore` | what a session promises its client about one destination file: the abstract specification of `Transfer` |
| `TransferProof`, `AtomicStoreProof` | theorems about `Transfer` for all constants, and its refinement of `AtomicStore` |
| `Streams` | the division of a file among the streams, and the loops of the children of both sides that move the data |
| `StreamsProof` | theorems about `Streams` |
| `Targets` | the system calls of several processes that write the same file |
| `TargetsProof` | theorems about `Targets` |
| `V1` | the engine and the loop of protocol version 1 |
| `V1Proof` | theorems about `V1` |
| `Client` | the client's commands, tries and reconnections, its put and get, and the sessions of the server it talks to or has left |
| `ClientProof` | theorems about `Client` |
| `Commands` | the commands that move no file themselves, on both sides, and mget and mput |
| `CommandsProof` | theorems about `Commands` |
| `Login` | how a session starts, on both sides: connections, versions, login, daemon |
| `LoginProof` | theorems about `Login` |
| `MCTransfer`, `MCStreams`, `MCTargets`, `MCV1`, `MCClient`, `MCCommands`, `MCLogin` | the values of the constants of the runs |

`Transfer` and `Streams` meet in the exit status of a child. What `Transfer` takes
as a choice (a stream ends well or fails, and then has removed the file) is what
`Streams` computes; `SuccessIsComplete` of `Streams` is why `Transfer` may count a
stream as received when its child exits with 0.

`Client` meets `Transfer` in the messages. Its server is the session of `Transfer` as
the client can see it: the states of `bbftpd_readcontrol.c` and what each message leads
to, with all children of a transfer taken together. A session that was left by the
client goes on, next to the session the client has now.

What one module takes as a step another one opens: connecting is one step of `Client` and
`Commands` and is `Login`; a transfer is one step of `Commands` and is `Client` with
`Transfer`; the creation and the renaming of a file are steps of `Transfer` and `Client`
and are `Targets` call by call, with other processes in between.

### Transfer

The father is a program counter `pc`: `top` (computing the timer) and `loop`
(waiting in `select` or handling a message) are the main loop
`bbftp_run_protocol_2`; `spawn`, `forked`, `counted`, `hup` are the loop that
forks the children and the one that releases them; `report`, `failed`, `killed`
the clean-up after a failed start; `unread` is a request whose file name could not be
read; `quit` is the way out of `main`, `exit` the end, and `ub` stands for a NULL
dereference, a use of freed memory or a kill of whatever an unwritten slot holds.

| Model | Code |
|---|---|
| `state`, `mychildren`, `nbpidchild`, `unlinkfile`, `childendinerror`, `killdone` | the globals of the same name (`bbftpd.c:120-220`) |
| `allocated` | the pointers `free_all_var` clears are not NULL |
| `timeout` | the timer passed to `select` |
| `sigchld` | a SIGCHLD is pending (one, however many children ended) |
| `child[<<t,s>>]` | the process of stream `s` of transfer `t`: `waiting` for SIGHUP, `ready` (released), `open`, `done` or `failing` (about to exit), `ok` or `bad` (a zombie), `reaped` |
| `fs` | the temporary and the final path: `absent`, `old`, or the `new` file of this request |
| `sent`, `recvd` | the final answers of the current transfer; the streams received to their end |
| `Request`, `Store*`, `Retr*`, `CreateZero`, `TransStart*`, `AbortStart`, `InvalidMessage`, `InterruptTransfer`, `CloseConn` | the handlers of `bbftpd_readcontrol.c`, by state |
| `NameUnread`, `FreedName` | `read_string` when the bytes of the name do not come: it answers MSG_BAD, frees its buffer and returns 0 (109-118), and the handler goes on with the freed name |
| `CleanChildThen`, `Sigterm` | `clean_child`, also at the instant when a child is counted and its slot not yet written; `bbftpd_sigterm` at any moment |
| `Select`, `Disconnect`, `IdleTimeout`, `Exit` | the main loop and the end of `main` |
| `Spawn` ... `Released` | `bbftpd_storetransferfile` and `bbftpd_retrtransferfile` in the father |
| `Sigchld*` | `bbftpd_sigchld`, by the case it meets |
| `OpenFragment` ... `ChildKilled` | a child |

*Granularity.* The handling of a message while no child of the current transfer
exists is one step. From the first fork to the return to the main loop,
the father's steps are the ones the handler can tell apart: the fork, the
increment of `nbpidchild` and the write of the slot are three steps, because the
code does them in that order without blocking the signal. The handler runs to
completion. `ProcessOutcomes` stands for utime, chmod and rename, which fail when
the file is gone.

*Undefined behaviour.* `malloc` leaves anything in `mychildren`: a slot that was
not written holds 0 or `Junk`, and the model chooses. Following a pointer that the
handler cleared, killing `Junk` and going on with a freed file name lead to `pc = "ub"`,
where nothing more is said: not of the second answer either that a request with a freed name
usually gets. `UndefinedOnlyStarting` says where that can begin.

*Faults* (`Faults`) are what the environment may do: a connection, a fork, an
allocation, a file creation or an option fails, a stream fails, a child is
killed (`kill`, or `earlykill` while it waits for its release), a
start takes more than 20 s (`slow`), a reply cannot be sent, the client
aborts, sends an invalid message, disconnects or falls silent, the bytes of a file name
do not come (`unread`), the father is terminated.

*Protocol 2 and 3* (`Passive`) differ in who connects: the server before the
fork (2, where connecting can fail half-way) or the child after it (3).

*Fairness.* The father's own steps, the delivery of a pending signal, and
the steps of each child are weakly fair: they are enabled until they are taken
and need only the scheduler. The data steps of a child need the peer as well: a
client that started a transfer serves its streams (it forks a child per stream
before it does anything else), and one that does not is a fault. Requests, faults
and signals from outside are not assumed.

*Retry.* `RetryWaits` says that the client asks for the next transfer only when
the children killed on the last one are gone. The client sleeps
`WAITRETRYTIME` seconds before it retries (`bbftp_cmds.c`), which makes this the
normal case and no guarantee. Only `transfer_active` has it, because
without a temporary name a child of the last transfer may remove the file of the next, and
because the SIGCHLD of a child killed by a failed start may come in the fork loop of the next
transfer; `transfer_passive`, `many_faults` and all proofs do without.

### AtomicStore

A request is asked, then answered `OK` or `BAD` or withdrawn; the destination
changes in the `OK` step of a store only, and a session that ends in the middle
may or may not have replaced it. `Transfer!AtomicStoreView` is the refinement mapping;
`AtomicStoreProof` proves it.

### Streams

A pair of children, one per side, per stream. `kind` says which of the four loops
are meant: a store has the client's sender (`bbftp_retr.c`) and the server's
receiver (`bbftpd_store.c`), a get the server's sender (`bbftpd_retr.c`) and the
client's receiver (`bbftp_store.c`). Where they differ the model has both forms.

| Model | Code |
|---|---|
| `PerChild`, `FragStart`, `FragLen` | `nbperchild`, `startpoint`, `nbtoget` (`nbtosend`) |
| `nbread`, `nbget` | the counters of the loops; `wrote`: how far the file offset has moved since the seek |
| `snd`, `rcv` | where a child is: `start` (before open), `send` or `recv` (the loop), `wait` (for the ACK) or `close`, `ok` or `bad` (its exit status) |
| `net`, `ack` | the data connection: what is in flight, and MSG_ACK on the way back |
| `file`, `exists`, `srclen` | the target and its name; the length of the source now |
| `Send`, `Receive` | one turn of the loop: a buffer read and sent; a buffer received and written |
| `SendNothing` | `read` returned 0: the client exits with whatever `errno` holds, the server tries again |
| `ToInt`, `ServerWants`, `ClientWants` | `datatoreceive`, an `int` of width `IntLimit` in the server |
| `RcvGivesUp`, `SndGivesUp` | the error exits, with or without `unlink` |

Byte `i` of the source is the number `i`, so a byte at a wrong place shows. With
`gzip` the connection carries buffers with a header and otherwise single bytes,
because that is what decides how much a receiver takes; compression itself is a
library and does not change the bytes. Partial reads and writes of a
buffer are inside a step: the loops around them repeat until the buffer is done.

*Faults*: open, read, write or close fails, a child is killed, a select times out
(`stall`), the source gets shorter (`truncate`). `fault` remembers that one happened.

*Fairness.* Each child goes on as long as it can (`SenderStep`, `ReceiverStep`), which
needs the two schedulers and a network that delivers; a network that does not is
the fault `stall`, and the timeouts of the code are what it leads to. Faults are not
assumed to happen.

*Bounds.* `Cap` bounds the channel, as socket buffers do. Two streams, buffers of 2
and sizes 1, 2, 5 and 6 give empty fragments (size 1: the first stream
gets nothing), fragments of a whole number of buffers and not, and a last
fragment longer than the others. The `int` of the model is -8..7.

### Targets

Processes (`Writers`) that write one path: sessions of the server, which store, and clients,
which get. They share the file system and nothing else, and every system call on it is
a step, since the code takes them one by one and names its file by path each time.

| Model | Code |
|---|---|
| `opts` | `TROPT_TMP` and `TROPT_DIR`: whether a temporary file is used, and missing directories are made; `sim`: the transfer is simulated (option `-n`, MSG_TRANS_SIMUL) |
| `at` | where the father is: `dir`, `mkdir`, `stat` in `do_check_dir` and `do_mkdir` (client: `bbftp_storecreatefile`, `bbftp_storemkdir`); `remove`, `create`, `close` in the creation; `run`, then `drop`, `reap`, `kill`, `leave`, `sweep` in the ways out |
| `depth`, `names`, `data` | the directories that exist, the inode a name leads to, and for each stream's part of an inode the process whose bytes are there |
| `kid`, `fd` | the children and the inode each has open |
| `DirFound` ... `StatDir` | the directories above the file, checked and made one at a time |
| `Remove`, `Create`, `Close` and their failures | `bbftpd_storecreatefile`, and the client's counterpart in `bbftp_store.c` |
| `KidOpen`, `KidWrite`, `KidEnds`, `KidFails`, `KidUnlinks` | a child: it opens the path again, writes, and unlinks the path when it fails; a child of the client closes the file after MSG_ACK, and if that fails (`unclosed`) unlinks it too (`lost`) |
| `Place`, `ServerDone`, `ClientDone` | the options, the rename and the answer; the client acts on MSG_OK without a look at its children |
| `Drop` | behind a simulated transfer the name of the target is unlinked (`bbftpd_signals.c:179`, `bbftp_get.c:1118`) |
| `ClientReaps` | `bbftp_clean_child`, the last thing `bbftp_get` does |
| `ServerFails`, `ServerKills`, `ServerInterrupted`, `ServerLeaves`, `ClientFails`, `ClientSweeps` | the ways a transfer fails, and what each unlinks |
| `Crash` | a process is killed; its children go on |

The inode a try creates is `<<w, t>>`. `alone` and `noRoom` are history: no other process was at
work since the try began; the disk was full for one of its directories. There are only safety
properties, so no fairness. A simulated transfer creates an empty file, writes nothing, renames it
to the target like a real one, and unlinks that; the server does so only if the handler runs after
`unlinkfile` became 4, hence both outcomes of `ServerDone` and `ServerFails`. A `close` that fails
has written what it was given: that a file system loses bytes at `close` is not represented.
*Bounds*: a session and a client, two streams, two directories, one try each; before simulated
transfers were added also checked once with two tries and one directory (12 million states). Two
streams are enough for two files to be mixed, two directories for one process to make what the other
is about to make.

### V1

The loop, requests and children of protocol version 1, as `Transfer` models those of the
later versions, with which this code shares an idea and no line.

| Model | Code |
|---|---|
| `pc` | `top`, `select`: `bbftp_run_protocol_1`; `offered`: a get was accepted and its MSG_TRANS_START is read; `spawn`, `forked`, `hup`: the loops of `storeafile` and `sendafile`; `report`, `failed`: a start that fails; `quit`, `exit`: the end |
| `pid_child`, `unlinkfile`, `childendinerror`, `killdone`, `state` | the globals of the same name |
| `Store*`, `Retr*`, `CreateDir`, `ChangeDir`, `SendList`, `NotAvailable` | `readcontrol_v1` and the routines it calls |
| `Sigchld*` | `in_sigchld_v1` and `checkendchild` |
| `OpenFile` ... `ChildKilled` | a child |

`pid_child` is a fixed table, so nothing is freed, but it is zeroed at each message, whoever is
still in it: a child that is left over then is collected by nobody. `Patient` says that the
client waits until the children of its last request are gone, which is so because
`WAITRETRYTIME` exceeds `STARTCHILDTO`, unless a child outlives its time. *Fairness*: the
father, the delivery of a pending signal, and each child, which needs the scheduler
and a client that serves the streams it asked for. *Bounds*: two streams, three requests, so
that a request meets what a failed start (`killdone`) and a transfer have left.
`slow` and `earlykill` (a child is killed while it waits for its release) are left out of the run
and assumed away in the proofs: with either a child may end before all are started, a request
can be answered twice, as in `Transfer`, and the session can wait for nobody. With `earlykill`
alone TLC was also run: `OkMeansComplete` and `FailureLeavesNoFile` hold, `OneAnswer` and
`Recovers` do not (see below).

### Client

| Model | Code |
|---|---|
| `pc` | `idle`: `process_command_list`; `loop`, `connect`: `treatcommand` and `reconnecttoserver`; `try`: the request; `answer`: `waitcontrol1`; `prepare`, `zero`: between the acceptance and the start; `wait`: `waitcontrol` |
| `tries`, `retcode`, `broken` | `num_tries`, `retcode`, `BBftp_Connectionisbroken` |
| `Return(rc)` | a command returns `rc` and the `switch` of `treatcommand` handles it |
| `kids` | the client's children: `running`, `acked` (a put: the data is written, the acknowledgements are on their way), `ended`, `collected` by `waitpid` |
| `k` | the local of that name: one more wait is granted after the last child |
| `local`, `remote[s]` | the temporary file of a get; of a store in session `s` |
| `dest[c]` | the destination of command `c`: `old`, `new`, or `part` of the file |
| `srv[s]` | `LOGGED`; `START`: S_WAITING_STORE_START or S_WAITING_RETR_START; `ZERO`: S_WAITING_CREATE_ZERO; `BUSY`: S_RECEIVING or S_SENDING; `CLEAN`: the same after the answer, until the killed children are collected |
| `job[s]`, `skids[s]` | the try a session works for, and its children |
| `toServer`, `toClient`, `open` | the two directions of a control connection, and whether the client still holds it |

A message is one step: its header, its data and, for a request, MSG_FILENAME. Every
message carries the try it is about, which the program does not send; it lets
`AnswersAreCurrent` say that no answer is taken for the answer to another try. The
exception is the text of an MSG_OK that `bbftp_get` leaves unread when it cannot
rename its file: `payload` stands for it, and the next read fails on it.

Reconnecting, with the login and the commands of `todoafterconnection`, is one step
that succeeds, or fails and is repeated (`SetupFails`), or ends the program
(`GiveUp`). Data connections and ports are not in the model: the children of a try and
those of the session that works for it serve each other, or both fail.

`NoNames` is the way out of the loop over the tries by a command function that returns -1: `do_put`
and `do_get` when the names of their files cannot be allocated (`bbftp_cmds.c:198-254`, 601).
`retcode` is then what the try before has left, and 0 if there was none. Transfers are real: those
of option `-n` are in `Targets` only.

*Faults*: the local file is refused, its names cannot be allocated (`names`), writing or reading on
the control connection fails, memory, a file creation, a fork or an option fails, a stream fails on
either side, the server refuses a request or a start, sends an MSG_INFO, falls idle, the set-up of a
connection fails, the client is interrupted. A session that has ended may be noticed by a failing
write or only by the next read.

*Fairness.* The client's own steps, each session's steps and the children's: they need
the two schedulers and a connection that delivers or reports its end. A
child whose peer never came ends by its timeout. No fault is assumed to happen or not.

*Bounds.* One command, two tries, three connections, so that the second try of a
command meets what the first left on the same connection or behind it, and a failing
set-up is repeated. `CommandsEnd` excepts a client that has used the last connection of
the model, because the program would go on. The safety invariants were also run
with two commands (and two connections), and with three tries; the runs kept are small
enough for the liveness properties.

### Commands

| Model | Code |
|---|---|
| `pc` | `idle`: `process_command_list`; `loop`, `connect`, `setup`: `treatcommand`, `reconnecttoserver`, `todoafterconnection`; `try`: the request; `wait`: the answer; `files`, `file`: mget and mput |
| `remotedir`, `remoteumask`, `remotecos`, `options` | `BBftp_Remotedir`, `BBftp_remoteumask`, `BBftp_Remotecos`, `BBftp_Transferoption` |
| `todo`, `First`, `Replay` | what `todoafterconnection` has still to send, in its order: umask, cos, cd |
| `errcode`, `retcode`, `exitcode`, `reported` | the locals of `treatcommand`, `BBftp_Myexitcode`, the result file |
| `left`, `file`, `ftries`, `lines` | mget and mput: the files that are left, the one at work and its tries, the result lines |
| `cwd`, `umask`, `topt` of a session | the working directory and umask of its process; `transferoption`, as the last message left it |
| `dirs`, `files` | the server's tree |
| `Lcd`, `SetValue`, `SetOption`, `BadOption` | the commands that stay in the client |
| `Send*`, `*Fails`, `*Done` | `bbftp_cd`, `bbftp_mkdir`, `bbftp_rm`, `bbftp_stat`, `bbftp_statfs`, `bbftp_list`, `bbftp_cos`, and `set remoteumask`: request, refusal and answer |
| `CheckDir` ... `FileLost` | `bbftp_mget`, `bbftp_mput` |
| `Do*`, `NoMemory` | `do_msg_*`, with `bbftpd_cd`, `bbftpd_storemkdir`, `bbftpd_rm`, `bbftpd_list`, `bbftpd_stat`, `bbftpd_statfs` |
| `EndSession` | the end of the connection, or the 900 s timer |

Three variables are no state of the program but what the properties compare it to:
`believed` and `mask`, what the user has asked for with commands that were reported OK, and
`got`, what the last answer was about. A request carries a tag (command, try, user or
replay) that the program does not send; `got.awaited` says whether an answer was the one to
the request just sent.

`confused` marks a session that has answered a request twice (`do_msg_mkdir` after a failure) or
skipped one: from then on the client takes every answer for the one before it. `InStep` says that
no session has done so yet, and is the premise of `SettingsKept`, `OkMeansDone` and
`FilesReported`. That it must be about *all* sessions so far, and not the current one,
came out only when larger instances were checked for the proof: a
directory taken from the wrong answer is replayed on the next connection. `mkdir_answers`
shows what happens without the premise.

*Granularity.* Connecting, with the login, is one step (`Login`), and so is a transfer of mget and
mput (`Client`). A message is one step, as is its handling.

*Faults*: writing or reading fails, memory is short on either side, the bytes of a text or of an
integer do not come (`unread`), the server refuses, cannot tell its directory, cannot reply or falls
idle, a set-up or a transfer fails. `UnreadText` is `read_string` without its return: MSG_BAD, and
then the handler with a freed text, in which it may find the name of any file or directory, and a
second answer, or the end of the process at the second `free`. A message that was cut by the
client's end of the connection is read in the same way (`EndSession`). `many_files` leaves `unread`
out; `commands` has it.

*Fairness.* The client goes on when it can (`Due`: a client that waits for an answer goes on when
there is one or the session has ended; that the read fails is possible and not promised), each
session handles its messages and ends when its connection has. *Bounds*: three commands of one
message, two connections; or two commands of which both may be mget or mput, three connections.
Safety was also run with four commands of one message. `commands` has the constraint `InStep`: it
does not go on from a session that has got out of step, of which its properties say nothing.

### Login

| Model | Code |
|---|---|
| `setting` | how the client connects (`via`: a password for a daemon, ssh, or bbftpstatus), whether it can encrypt, what the server demands, the user's password, the versions of both programs (`cmin` ... `smax`), the addresses that answer |
| `pc`, `try`, `at`, `saved`, `attempts` | `reconnecttoserver` with `connectviapassword`, `connectviassh` and `sendproto`: where it is, `nbtrycon`, the address list, and how often each address was tried |
| `replay` | whether `todoafterconnection` will find nothing to do, work, or fail (`Commands` has it in detail) |
| `told`, `why` | history: a refusal was for good; why the client ended |
| `sess[s].srv` | the process of connection `s`: `queued` for the daemon, then the states of `bbftpd.c` and `bbftpd_login.c` to `LOGGED` and `exit` |
| `sess[s].up`, `down`, `open`, `held` | the messages on their way, whether the client has its end open, whether the daemon still has the socket of its child |
| `sess[s].ids`, `version`, `tmp` | the user the process runs as, the version it serves, the second connection of ssh |
| `Connect` ... `SetUp` | the client; `Lose`, `Leave`: the connection is lost in use; the program ends |
| `StartDaemon`, `Accept*`, `ForkFails`, `Wake` | `bbftpd_daemon.c` and `do_daemon` |
| `SendCrypt` ... `Serve` | `main` of `bbftpd.c`, `bbftpd_login.c`, `bbftpd_private.c`, `checkfromwhere`, `checkprotocol` |

A connection's slot can be used again once both sides have left it. The keys, the encryption and the
checks of a password are library calls with a result. The MSG_BAD of
`checkfromwhere` reads to a client that uses ssh like a refusal of its versions, and is modelled so.

*Faults*: a resource, a write, a read or memory is missing at the client, an answer comes too late;
the server cannot listen, accept, fork, make keys, change its ids, or ends; a set-up fails, a
connection is lost in use. *Fairness*: the client, the daemon, each process: their reads end when
there is a message, an end of file or, where the code has one, a time limit. *Bounds*: 16 settings,
two addresses of which mostly the second answers, two tries, three slots, two faults per behaviour:
a fault while the first is being dealt with, and no endless sequence of them. `AgreedVersion`,
`RefusedForGood` and the types are proved without these bounds.

## The runs

All runs of `Transfer` use 2 or 3 streams and 2 transfers in a row. Two streams are enough
for one to fail while the other is running, one to be forked while the other is
not, and two SIGCHLDs to merge; three let a failure, a success and a child still
running meet. Two transfers are enough for one to meet what the last one left:
the state of a session is otherwise the same at every request.

| Run | Asks |
|---|---|
| `transfer_passive` | N = 3, protocol 3, temporary names, real and simulated, a client that does not wait; everything fails but the start and the reading of a name, and nobody sends a SIGTERM: one answer (`OneAnswer`), a session that is ready is clean (`ReadyIsClean`), and becomes ready again (`SessionRecovers`) or ends, and then leaves no child (`ExitLeavesNoChild`) |
| `transfer_active` | N = 2, protocol 2, no temporary name, the session is interrupted as well, and a child cannot be forked while others wait: `FailureLeavesNoFile`, `NoUndefinedBehaviour`. Not in it: `connect`, `kill` of a waiting child, `unread`, SIGTERM |
| `many_faults` | N = 3, protocol 2, all faults but `slow`: starts that fail half-way, children killed before they were released, names that cannot be read, SIGTERM at any moment. What holds even there is `OkMeansComplete`, the refinement `AtomicStoreImplemented`, and that nothing undefined begins but while a name is read and the children are started (`UndefinedOnlyStarting`) |
| `streams` | all faults, both directions, with and without compression: `NothingMisplaced`, `AckMeansWritten`, `SuccessIsComplete`, `NoFaultNoFailure`, and the liveness property `EveryStreamEnds` |
| `targets` | a session and a client at one path, with temporary file and directories to make, with neither, or simulated. Without a simulation the target is a complete file of one of them (`FinalWhole`); it goes away only behind a simulated transfer (`FinalKept`); OK of a real transfer is said of what is there (`OkMeansPlaced`); in all cases a directory another process has just made is no failure (`DirsAreShared`), and nothing is left of a transfer that ended (`NoLitter`) |
| `v1` | protocol version 1, all faults but `slow` and `earlykill`: `OneAnswer`, `OkMeansComplete`, `FailureLeavesNoFile`, and the liveness property `Recovers` |
| `client` | all faults, any command: what is reported OK was transferred (`OkMeansTransferred`, but for the OK of a transfer that could not name its files), a destination is replaced only by a complete file (`NeverPartial`), nothing of a try is left to the next (`TriesAreClean`, `AnswersAreCurrent`), and the liveness properties `CommandsEnd` and `LeftSessionsEnd` |
| `commands` | three commands, every fault: the session in use has the user's settings (`SettingsKept`), and a command that is reported OK was done where the user means (`OkMeansDone`) |
| `many_files` | mget and mput among other commands: a file reported as transferred is one of the user's directory (`FilesReported`), the exit code tells of every failure (`ExitCodeTells`), and every command ends (`CommandsEnd`) |
| `login` | 16 settings, any two faults: both sides serve a version both have (`AgreedVersion`), a client that did not get in had a reason or a fault (`ExitHasReason`), a refusal for good is final (`RefusedForGood`), the client decides (`ClientDecides`), and every session it has left ends (`SessionsEnd`) |

Every property has a mutant of a mapped definition (`PROJECT.json`) that breaks it. `TypeOK` is an
invariant of the run `commands`; in every module it is proved.

Two runs check what the repository says and find it violated:

| Run | Shows |
|---|---|
| `mkdir_answers` | doc/PROTO_V3 has one answer to MSG_MKDIR_V2. `do_msg_mkdir` sends MSG_OK behind the MSG_BAD of a failed mkdir, and the client's second try reads it and reports the directory as made |
| `endless_setup` | `reconnecttoserver` announces a maximum of tries. A set-up that fails after a good login (the directory to return to was removed) is not counted, and the client logs in again, at once and for ever |

The models show more behaviour of this kind, without a run of their own.

*Engine.* When the bytes of a text do not come, `read_string` answers MSG_BAD, frees its buffer and
returns 0 (a return is missing, `bbftpd_readcontrol.c:109-118`; the comment at line 90 promises -1):
the request goes on with a freed name, may be answered again and frees it once more. If all children
of a transfer have ended when the fork loop of the father has (they gave up waiting or were killed
early, and neither is in the run of `SessionRecovers`), the father overwrites the `S_LOGGED` of the
handler with `S_SENDING` and waits without a timer for nobody. The handler frees `realfilename`
before a failed start unlinks it, and the file stays: in protocol 2, where a connection can fail in
the fork loop, so no run of `FailureLeavesNoFile` has `connect` there. Children of a simulated store
that end before `unlinkfile = 4` is set leave the file, and so does a killed one
(`FailureLeavesNoFile` is checked for real stores only), because the handler tests `unlinkfile` for
1 and 2 only. After a transfer `select` is restarted with the timer of the transfer, so there is
none between commands. After a failed start `killdone` stays 1, and `clean_child` kills none of the
children of the next transfer. A child that waited `STARTCHILDTO` seconds runs, and may end, before
its father has started the others.

*Targets.* A simulated transfer (`-n`, "simulation mode: no data written", `bbftp_utils.c:118`) with
a temporary name, the default, renames its empty file over the target and unlinks that, on the
server (`bbftpd_signals.c:179-180`) as in the client (`bbftp_get.c:1118-1120`): a complete file that
was there is lost without any fault (`FinalKept` and `FinalWhole` except it).

*Streams.* A fragment of more bytes than an `int` holds, without compression: the server's receiver
asks for a negative number of bytes and, with the client's sender, never ends
(`LargeFragmentNeverAcked` proves that it is never acknowledged). A file that gets shorter while the
server sends it keeps the child in its loop for ever (`EveryStreamEnds` therefore asks that a source
of the server keeps its length). A client whose `close` fails removes a file that the server has
counted as received (the exception in `SuccessIsComplete`), and `bbftp_get`, which does not look at
its children when MSG_OK has come, reports OK (the exception in `OkMeansPlaced`; with a temporary
name the rename fails then, unless it came first).

*Client.* A command function that returns -1 ends the loop over the tries with the `retcode` it
finds: `put` and `get` do so when the names of their files cannot be allocated, and on the first try
`retcode` is 0 (`bbftp_cmds.c:601`). The result file then says OK (doc/bbftp.1:896, "in case of
success") of a transfer that was never asked for: the exception in `OkMeansTransferred`, whose
`retcode` is "unset". A client that cannot fork its children does not send MSG_ABORT: the server
waits for the start, takes the request of the next try for an invalid message and closes the
connection. A get that fails after MSG_OK loses its connection because it leaves the text of that
message unread. A put can be stored and reported failed, when MSG_OK comes after the client has
given up (`OkMeansTransferred` says nothing of FAILED).

*Commands.* A umask of 0 is not replayed (the exception in `SettingsKept`). rm looks at the options
of an earlier message, and under RFIO, which the server lacks, says OK and deletes nothing
(`got.sure`). A command or an option of an unknown name and a dir without memory reset the exit code
or do not set it (the exceptions in `ExitCodeTells`).

*Version 1.* A child killed while the father is starting others makes the handler answer MSG_BAD
and, when no recorded child is left, reset `childendinerror`; the children that follow are answered
again (`signals_routines.c:109-157`). If all are killed before their release the father sets
`S_RECEIVING` after the handler has set `S_LOGGED` (`storeafile.c:628`) and waits without a timer
for nobody. The two answers can be MSG_BAD and then MSG_OK, of a get as well; that MSG_OK is about
the streams that were left. A disconnect during a store leaves a file of the full size with holes; a
child left over from an earlier message is collected by nobody.

## The proofs

`TransferProof` proves, for every `N`, `MaxTransfers`, options and faults:

* `TypeCorrect`: `Spec => []TypeOK`. `TypeOK` alone is not inductive: that
  `nbpidchild` stays within `0..N` depends on where the fork loop is
  (`CountBound`), and that only pids of a requested transfer enter the slots
  depends on `cur > 0` while the father is in it (`Asked`).
* `OneAnswerHolds`: unless `slow` or `earlykill` is among the faults,
  `Spec => []OneAnswer`. The invariant `AnswerInv` explains why one answer is
  enough: nothing is sent before the transfer starts (`NothingSent`); while
  the father is starting children they only wait (`ChildrenWait`), so the handler
  can answer only for children of this transfer that were recorded (`OwnSlots`), and
  an answer is accounted for by `childendinerror` or by the end of
  the transfer (`AnswerAccounted`). The two faults are excluded because with them
  it is false: a child that ends while the others are being started can make the
  handler finish the transfer, and the ones forked after that make it answer again.
* `UndefinedOnlyStartingHolds`: without any hypothesis. `DefinedInv` says that outside the loops of
  a start, and of a request whose name could not be read, clearing and killing are safe: nobody is
  counted outside a transfer (`NothingCounted`); whoever is counted has storage, and no slot of it
  is unwritten, but for the moment between the count and the record (`SlotsWritten`); and in the
  loop the slots before `i` are written (`LoopWritten`).
* `ReadyIsCleanHolds`, `NoUndefinedBehaviourHolds` (without `unread` and SIGTERM, which make it
  false) and `ExitLeavesNoChildHolds` (without SIGTERM), as long as no start is disturbed
  (`Undisturbed`: no fork fails, no data connection of the fork loop does, no child ends before it
  is released). `CleanInv` describes a slot from the fork to the end: filled in order while the
  children wait (`InLoop`), then emptied exactly when its child was collected (`InWork`, which also
  says that a SIGCHLD is pending if and only if there is something to collect, and that no child
  lives after an error), and nothing left between two transfers (`AtRest`, `Storage`). From it
  follows `SignalWorks`: the handler works only on a transfer whose children are all released, and
  it always finds one that ended. What `Undisturbed` excludes falsifies them: see *Engine* above. So
  does a SIGTERM in the middle of the fork loop, where a child may not be recorded yet.
* `FailureLeavesNoFileHolds`: under `Undisturbed`, for real transfers and buffers that can be
  allocated (`RealOnly`), by `FileInv` on top of `CleanInv` and `AnswerInv`: a new file is the one
  of the path in use, and is there only while the state of the session tells the next reader of an
  error to remove it (`NewFile`); after the first error no child is left that could make it again.
  The handler does not remove the file of a simulation, nor a failed `malloc` the file just created.

`AtomicStoreProof` builds on its type invariant. Of the faults only `slow` is excluded: when
children give up waiting while others are being started, the handler can say MSG_OK for a part of
the streams.

* `AnswerStands`: with `earlykill` a request can get two answers, one from the handler and one from the
  fork loop, but both are MSG_BAD. `EarlyInv` says why: a child in the fork loop waits or was killed
  (`ChildrenEarly`), so the handler finds none that ended well, and what it has found or finished there
  it has reported (`FewAnswers`, `FailureSaid`).
* `OkMeansCompleteHolds`, with temporary names and real transfers (`Assumed`): an answer OK counts
  streams. `CompleteInv` follows a stream from its slot (`SlotsFilled`: every child of a started
  transfer is recorded or collected) through its exit status (`DoneIsReceived`,
  `CollectedIsReceived`) to the answer (`OkIsComplete`).
* `ImplementsAtomicStore`: under `Assumed`, `Spec => AtomicStoreImplemented`, every step of
  `Transfer` by the step of `AtomicStore` it is. `AtomicInv` says why no other step touches the
  destination: the file of this request has only its temporary name until the rename (`TmpIsNew`,
  `NothingToRename`), and the counters that let the handler rename are those of a transfer that is
  running (`CountedInTransfer`).

`StreamsProof` proves, for every `N`, all sizes, buffers and faults:

* `FragmentsPartition`: every byte of a file is in exactly one fragment.
* `StreamsTypeCorrect`: `Spec => []TypeOK`.
* `NothingMisplacedHolds`, `AckMeansWrittenHolds`: the two properties about the
  data. Neither is inductive: that a byte is written at its place depends on what
  is in flight. The invariant says that the connection carries exactly the bytes
  between what was written and what was read (`InFlight`), that the receiver counts
  what it wrote (`Counted`), that what it wrote is in the file (`Written`) and
  that it acknowledges at the end of the fragment only (`Acked`). That the streams
  do not overwrite each other is `FragmentsPartition`.
* `LargeFragmentNeverAcked`: in a store without compression, when
  the fragment exceeds an `int`, `nbtoget - nbget` never gets below the limit, and
  MSG_ACK is never sent.
* `SuccessIsCompleteHolds`, `NoFaultNoFailureHolds`: what the exit statuses are worth. `EndInv` adds to
  that invariant that a child which exits with 0 has sent or seen MSG_ACK (`EndsWell`), that
  only a receiver that failed removes the name (`NameKept`), and that until something has gone
  wrong no child has failed (`Unharmed`): for this it matters that a sender that has sent all waits
  for MSG_ACK, so that no end of a child is taken for an error by its peer.

`TargetsProof` proves every property of its run, for any number of processes of both sides, streams,
directories and tries: `TargetsTypeCorrect`, `FinalKeptHolds`, `NoLitterHolds`, `FinalWholeHolds`,
`OkMeansPlacedHolds` and `DirsAreSharedHolds`. The argument for `FinalWhole` follows the inode: with
temporary names only its own process has it open, a child that ended well has written its part, and
after the rename no child of the process writes any more. `FinalWhole` and `FinalKept` are about
processes that all use temporary files, `FinalWhole` also about none that simulates, since a
simulation puts an empty file at the target and then unlinks it (that it alone does is `DropInv`);
`NoLitter` and `DirsAreShared` are about simulated transfers too. `OkMeansPlaced` (real transfers)
has a second case, a process that was alone, in which the same is said of the target itself, except
for a client one of whose children could not close its file. `DirsAreShared` holds because a
directory that is there is taken as made, whoever made it, and directories do not go away.

`V1Proof` proves, for every number of streams and requests: `V1TypeCorrect`; without `slow` and
`earlykill`, `V1OneAnswerHolds` (the children only wait while others are started, and an error is
reported once) and `V1FailureLeavesNoFileHolds` (a file of this request is there only while
`unlinkfile`, or a child's own unlink, is responsible for it); and for a patient client
`V1OkMeansCompleteHolds`, which needs that no child in the table is one of an earlier request. With
`earlykill` the first is false (above); the other two are checked with it by TLC and not proved.

`ClientProof` proves, for any number of tries, commands and connections, and all faults:

* `ClientTypeCorrect`: `Spec => []TypeOK`, by the parts of the state that a step
  changes; `TypeOK` is inductive.
* `TriesAreCleanHolds`: nothing of a try is left to the next one. `CleanInv` adds why
  `bbftp_put` may return without removing anything: a temporary file exists only while
  a *get* waits for its end. That depends on every exit of `bbftp_get` (they all
  unlink) and on the children: those of a put never touch the file.
* `AnswersAreCurrentHolds`, `OkMeansTransferredHolds` and `NeverPartialHolds`, from one invariant,
  `TruthInv`. The first is about the connection in use (`Conversation`): a request is the last
  message on it, finds the session in the state it is for and is of this try (`Requested`); an
  answer on its way is the only one and its session has nothing else to say (`Replied`). Every
  session, those of lost connections too, has only requests the client made (`RequestsKnown`) and
  can come to OK only with a complete file (`SessionKeeps`). So an OK on its way is true when it is
  read (`AnswersTrue`), the copy of a get is complete before the server can say OK (`GetComplete`),
  and what is reported stays true (`Results`), since no session replaces a destination by less.

`CommandsProof` proves, for any commands, tries, connections and trees of directories and all
faults, `SettingsKeptHolds`, `OkMeansDoneHolds` and `FilesReportedHolds`. Their invariant `Inv` is
in two parts. `ShapeInv` holds always: what the program keeps has the types the argument needs, and
a session and a connection that do not exist yet are as at the start. The other part holds until a
session gets out of step. There a connection carries at most one request or one answer, and it is
the one the client waits for (`Answered`); hence an answer taken is awaited, the client's globals
are what the user believes (`GlobalsKept`), and a session with nothing left to replay is where the
globals say (`Settled`); while there is something to replay, what has been replayed is settled
(`Requested`). Two theorems hold always. `CommandsTypeCorrect` says `Spec => []TypeOK`: that a
session has one request before it at most, unless it got out of step, is again an argument about
both queues (`OneAtATime`), and that a path is not both a directory and a file is one about every
command that makes either (`FilesApart`). `ExitCodeTellsHolds` rests on `FailureTold`:
`treatcommand` overwrites the exit code with `errcode`, which must therefore be set whenever a try,
or a file of mget or mput, has failed.

`LoginProof` proves, for any number of addresses, tries and slots, all settings and faults:
`LoginTypeCorrect`, `AgreedVersionHolds`, `RefusedForGoodHolds` and `ExitHasReasonHolds`. A version
gets into a session only with the client's MSG_PROT_ANS, of which there is at most one on a
connection (`ChosenOnce`), none before the choice (`NotChosen`), and what it names is a version of
both (`LoggedCommon`). A refusal for good ends the program in the same step, at whichever of the
client's exits. `ExitHasReason` is about runs without a fault and without an obstacle (`Able`): its
invariant `Smooth` says for every state of the client where the process that serves it is and what
is on its way between them (`Dialogue`), for the password, for ssh and for bbftpstatus; no step of
either side can then fail, and the addresses the client has passed over are those that do not
answer.

All inductive invariants were checked by TLC before they were proved. Every invariant, every action
property and the refinement that a passing run checks is the subject of a theorem. Only
model-checked are the liveness properties, since fairness and ENABLED are out of the prover's reach:
`SessionRecovers`, `EveryStreamEnds`, `CommandsEnd` (of `Client` and of `Commands`),
`LeftSessionsEnd`, `ClientDecides`, `SessionsEnd` and `Recovers`.

Some theorems have a hypothesis on `Faults`, named above with the reason: those about `OneAnswer`,
`ReadyIsClean`, `NoUndefinedBehaviour`, `ExitLeavesNoChild` and `FailureLeavesNoFile` of `Transfer`
(the last also asks for real stores), and those of `AtomicStoreProof`; those about `OneAnswer`,
`FailureLeavesNoFile` and `OkMeansComplete` of `V1` (the last also asks for a patient client). One
run has a fault the theorems of its properties leave out: `transfer_active` has a fork that fails,
with a client that waits (`RetryWaits`). And nothing is claimed of what follows undefined behaviour
(`ub`): a statement about all steps is about those before it.

The assumptions of the proofs are those of the modules, and say no more than that the constants are
what they stand for: numbers of streams, tries and connections are positive and bounds are naturals;
faults, modes and kinds are among those the module knows; in `Streams` a buffer fits in an `int` and
in the connection; in `Targets` no process has the name of the target (`NamesAssumption`); in
`Login` the lowest version of a program is not above its highest (`VersionsAssumption`); in
`Commands` the server's root is a directory and no path is both a directory and a file
(`FilesAssumption`), and an operation names a command the client knows (`OperationsAssumption`). TLC
evaluates them in every run.

## Plan

Done: `Transfer`, `Streams`, `Client`, `Commands`, `Login`, `V1`, `Targets`, each with proofs; the
refinement of `AtomicStore`.

Left:

1. `Session`: the server of `Client` replaced by `Transfer`, or shown to be an
   abstraction of it; what `RetryWaits` assumes becomes a question to be checked.
2. An abstract specification of what one command of the client promises, and the refinement
   by `Client`, on `TruthInv`; and what is left of `ReadyIsClean` when a start fails (a weaker
   `Undisturbed`).
3. Simulated transfers in `Client` and `Streams`, how simulated children wait, and the handler
   interrupting `reply` in the middle of a message.

## Not modelled

* RFIO, compiled only with that library. The client's variants repeat the POSIX loops with other
  calls; the server's cannot be linked at this commit (`bbftpd_store.c:985` calls
  `bbftp_store_transfer_opts_rfio`, which is defined nowhere, and `bbftpd_store.c:277`
  names a variable that does not exist). With it go MSG_RETR_RFIO, the variant of version 1's
  handler for RFIO and HPSS, and `set_father_signals`.
* What compression does to the bytes; encryption and key exchange (a library call that works or
  fails); the password prompt; the parsing of the command line, of commands and of configuration files.
* `TROPT_ACC` in the client: the times are set only in code that RFIO compiles (`bbftp_get.c:1061`).
* The handler is atomic: that it calls functions that are not async-signal-safe, and
  may interleave its message with one the father is writing, is not represented.
* That two transfers without temporary files mix their data in one target is allowed in
  `Targets` and is no property: `FinalWhole` and `OkMeansPlaced` except it.
* The name of a temporary file is one per process; that the host name in it is cut to ten
  characters, so that two hosts sharing a file system may use the same, is not represented.
* The number of streams is positive, as a client of this repository sends it; the server does not
  check it before it divides by it. A client that never connects to a data socket (the server's
  accept has no time limit). A host that vanishes without closing its connections. The result of
  `close` in the server's children, which they drop (`bbftpd_store.c:941`).
* Simulated transfers in `Client`, `Streams` and `V1` (`Transfer` has those of the server, `Targets`
  the calls of both sides); how simulated children wait; the contents of lists and of the status.
* A message of an unknown code in `S_LOGGED` ends the session, where doc/PROTO_V3 says that it is
  discarded and answered; no client of this repository sends one.
* `bbftp_turl.c`, logging and message output, the gateway firewall library and build files, which
  keep no state of a transfer.
