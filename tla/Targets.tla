------------------------------ MODULE Targets ------------------------------
(***************************************************************************)
(* Several processes that write the same file: sessions of the server,     *)
(* each storing for a client of its own, and clients that get a remote     *)
(* file into the directory.  They share nothing but the file system, and   *)
(* every system call on it is a step, because the code takes them one by   *)
(* one and names its file by path each time: the directories are checked   *)
(* and made, the old file is unlinked and a new one opened and closed, the *)
(* children stat and open the path again, a failure unlinks the path, and  *)
(* a success renames it.                                                   *)
(*                                                                         *)
(* A file is the inode a name leads to, named <<w, t>> after the writer    *)
(* and the try that created it; its data is, for each stream's part, the   *)
(* writer whose bytes are there.  Transfer and Client model what one       *)
(* process does between these calls; here a transfer is its calls.  The    *)
(* options are those that decide which path is used ("tmp"), whether       *)
(* missing directories are made ("dir"), and whether the transfer is only  *)
(* simulated ("sim", option -n): its file stays empty, takes the place of  *)
(* the target all the same, and is removed then.                           *)
(***************************************************************************)
EXTENDS Naturals, FiniteSets

CONSTANTS
  Writers,   \* the processes
  Side,      \* what each of them is: "server" (a put) or "client" (a get)
  N,         \* the streams of a transfer
  Depth,     \* the directories of the path that may be missing
  MaxTries,  \* bound: transfers of one process
  Modes,     \* the sets of options a process may run with
  Faults     \* what may go wrong: a subset of AllFaults

AllFaults == {"full", "close", "data", "options", "remote", "crash"}

ASSUME SideAssumption == Side \in [Writers -> {"server", "client"}]
ASSUME SizesAssumption == N \in Nat \ {0} /\ Depth \in Nat \ {0} /\ MaxTries \in Nat
ASSUME ChoicesAssumption == Modes \subseteq SUBSET {"tmp", "dir", "sim"} /\ Faults \subseteq AllFaults
\* A process stands for the name of its temporary file.
ASSUME NamesAssumption == "final" \notin Writers

VARIABLES
  opts,    \* the options of every process
  at,      \* where it is
  tries,   \* transfers it has begun
  level,   \* the directory it is making
  answer,  \* how its last transfer ended, or will be said to have ended
  kid,     \* its children, one for each stream
  fd,      \* the inode each of them has open
  names,   \* the inode a name of the directory leads to
  data,    \* the content of the inodes
  depth    \* the directories that exist

VARIABLES
  noRoom,  \* history: the disk was full for a directory of this try
  alone    \* history: no other process was at work since this try began

procVars == <<at, tries, level, answer>>
kidVars == <<kid, fd>>
diskVars == <<names, data, depth>>
histVars == <<noRoom, alone>>
vars == <<opts, procVars, kidVars, diskVars, histVars>>

Streams == 1..N
Inodes == Writers \X (1..MaxTries)
NoFile == <<>>
Final == "final"
Names == {Final} \cup Writers

\* The temporary name holds the host and the pid, so it is the writer's own.
TmpWithoutPid(w) == CHOOSE v \in Writers : TRUE
Tmp(w) == w
Path(w) == IF "tmp" \in opts[w] THEN Tmp(w) ELSE Final
Simulated(w) == "sim" \in opts[w]

\* Of the client: a child that has sent MSG_ACK, whatever became of its close.
Acked == {"done", "ok", "unclosed", "lost"}

KidsAlive(w) ==
  \E s \in Streams : kid[w][s] \in {"started", "open", "done", "failing", "unclosed"}
AtWork(w) == at[w] \notin {"idle", "left", "killed"} \/ KidsAlive(w)

Goto(w, where) == at' = [at EXCEPT ![w] = where]
Unlinked(path) == [names EXCEPT ![path] = NoFile]
NoKids(w) ==
  /\ kid' = [kid EXCEPT ![w] = [s \in Streams |-> "none"]]
  /\ fd' = [fd EXCEPT ![w] = [s \in Streams |-> NoFile]]

\* The transfer is over: what the other side is told, or the user.
Ends(w, how) == Goto(w, "idle") /\ answer' = [answer EXCEPT ![w] = how]

Init ==
  /\ opts \in [Writers -> Modes]
  /\ at = [w \in Writers |-> "idle"]
  /\ tries = [w \in Writers |-> 0]
  /\ level = [w \in Writers |-> 1]
  /\ answer = [w \in Writers |-> "none"]
  /\ kid = [w \in Writers |-> [s \in Streams |-> "none"]]
  /\ fd = [w \in Writers |-> [s \in Streams |-> NoFile]]
  /\ names = [x \in Names |-> NoFile]
  /\ data = [x \in Inodes |-> [s \in Streams |-> "hole"]]
  /\ depth \in 0..Depth
  /\ noRoom = [w \in Writers |-> FALSE]
  /\ alone = [w \in Writers |-> FALSE]

\* A store or a get begins: the path is chosen.
Ask(w) ==
  /\ at[w] = "idle" /\ ~KidsAlive(w) /\ tries[w] < MaxTries
  /\ tries' = [tries EXCEPT ![w] = @ + 1]
  /\ noRoom' = [noRoom EXCEPT ![w] = FALSE]
  /\ alone' = [v \in Writers |-> v = w /\ \A u \in Writers \ {w} : ~AtWork(u)]
  /\ Goto(w, "dir") /\ answer' = [answer EXCEPT ![w] = "none"]
  /\ UNCHANGED <<opts, level, kidVars, diskVars>>

-----------------------------------------------------------------------------
(* The directories above the file.                                         *)

\* do_check_dir: stat of the whole path, once.
DirFound(w) ==
  /\ at[w] = "dir" /\ depth = Depth
  /\ Goto(w, "remove")
  /\ UNCHANGED <<opts, tries, level, answer, kidVars, diskVars, histVars>>

DirMissing(w) ==
  /\ at[w] = "dir" /\ depth < Depth
  /\ \/ "dir" \in opts[w] /\ Goto(w, "mkdir") /\ UNCHANGED answer
     \/ "dir" \notin opts[w] /\ Ends(w, "nodir")
  /\ UNCHANGED <<opts, tries, level, kidVars, diskVars, histVars>>

\* One directory is there: on to the next, or to the file.
Descend(w) ==
  IF level[w] = Depth THEN Goto(w, "remove") /\ level' = [level EXCEPT ![w] = 1]
  ELSE Goto(w, "mkdir") /\ level' = [level EXCEPT ![w] = @ + 1]

\* mkdir comes first, so that of two processes one makes the directory and the
\* other one sees it.
MakeDir(w) ==
  /\ at[w] = "mkdir" /\ depth < level[w]
  /\ depth' = level[w]
  /\ Descend(w)
  /\ UNCHANGED <<opts, tries, answer, kidVars, names, data, histVars>>

\* mkdir fails: it exists, or there is no room for it.
MakeDirFails(w) ==
  /\ at[w] = "mkdir"
  /\ \/ depth >= level[w] /\ UNCHANGED noRoom
     \/ depth < level[w] /\ "full" \in Faults /\ noRoom' = [noRoom EXCEPT ![w] = TRUE]
  /\ Goto(w, "stat")
  /\ UNCHANGED <<opts, tries, level, answer, kidVars, diskVars, alone>>

\* Mutant: a mkdir that fails is an error, whatever is there.
StatDirForgotten(w) ==
  /\ at[w] = "stat"
  /\ Ends(w, "nodir")
  /\ UNCHANGED <<opts, tries, level, kidVars, diskVars, histVars>>

\* The stat that follows finds it, whoever made it, or not.
StatDir(w) ==
  /\ at[w] = "stat"
  /\ \/ depth >= level[w] /\ Descend(w) /\ UNCHANGED answer
     \/ depth < level[w] /\ Ends(w, "nodir") /\ level' = [level EXCEPT ![w] = 1]
  /\ UNCHANGED <<opts, tries, kidVars, diskVars, histVars>>

-----------------------------------------------------------------------------
(* The file is created empty.                                              *)

\* Mutant: the file the transfer is to replace is removed.
RemoveFinal(w) ==
  /\ at[w] = "remove"
  /\ names' = Unlinked(Final)
  /\ Goto(w, "create")
  /\ UNCHANGED <<opts, tries, level, answer, kidVars, data, depth, histVars>>

\* unlink: what is there under the path is removed.
Remove(w) ==
  /\ at[w] = "remove"
  /\ names' = Unlinked(Path(w))
  /\ Goto(w, "create")
  /\ UNCHANGED <<opts, tries, level, answer, kidVars, data, depth, histVars>>

\* open with O_CREAT and O_TRUNC: a new file, or the one another process has
\* created since, emptied.
Create(w) ==
  LET new == IF names[Path(w)] = NoFile THEN <<w, tries[w]>> ELSE names[Path(w)] IN
  /\ at[w] = "create"
  /\ names' = [names EXCEPT ![Path(w)] = new]
  /\ data' = [data EXCEPT ![new] = [s \in Streams |-> "hole"]]
  /\ Goto(w, "close")
  /\ UNCHANGED <<opts, tries, level, answer, kidVars, depth, histVars>>

CreateFails(w) ==
  /\ at[w] = "create" /\ "full" \in Faults
  /\ Ends(w, "BAD")
  /\ UNCHANGED <<opts, tries, level, kidVars, diskVars, histVars>>

\* The file is closed again, and the children are forked.
Close(w) ==
  /\ at[w] = "close"
  /\ Goto(w, "run")
  /\ kid' = [kid EXCEPT ![w] = [s \in Streams |-> "started"]]
  /\ UNCHANGED <<opts, tries, level, answer, fd, diskVars, histVars>>

CloseFails(w) ==
  /\ at[w] = "close" /\ "close" \in Faults
  /\ names' = Unlinked(Path(w))
  /\ Ends(w, "BAD")
  /\ UNCHANGED <<opts, tries, level, kidVars, data, depth, histVars>>

-----------------------------------------------------------------------------
(* The children: each opens the path again, by name.                       *)

KidGoes(w, s, where) == kid' = [kid EXCEPT ![w][s] = where]

\* stat and open: the file that is there now, or none, because a child or
\* another process has removed it.
KidOpen(w, s) ==
  /\ kid[w][s] = "started"
  /\ \/ /\ names[Path(w)] # NoFile
        /\ fd' = [fd EXCEPT ![w][s] = names[Path(w)]]
        /\ KidGoes(w, s, "open")
     \/ /\ names[Path(w)] = NoFile
        /\ KidGoes(w, s, "bad") /\ UNCHANGED fd
  /\ UNCHANGED <<opts, procVars, diskVars, histVars>>

KidCloses(w, s) == fd' = [fd EXCEPT ![w][s] = NoFile]

Written(w, s) == [data EXCEPT ![fd[w][s]][s] = w]

\* Its part is received, written, and acknowledged; after that a child of the
\* server can only exit well.  In a simulation nothing is sent.
KidWrite(w, s) ==
  /\ kid[w][s] = "open"
  /\ data' = IF Simulated(w) THEN data ELSE Written(w, s)
  /\ \/ Side[w] = "server" /\ KidGoes(w, s, "ok") /\ KidCloses(w, s)
     \/ Side[w] = "client" /\ KidGoes(w, s, "done") /\ UNCHANGED fd
  /\ UNCHANGED <<opts, procVars, names, depth, histVars>>

\* A child of the client closes its file, which may fail after MSG_ACK.
KidEnds(w, s) ==
  /\ kid[w][s] = "done"
  /\ KidCloses(w, s)
  /\ KidGoes(w, s, "ok") \/ ("close" \in Faults /\ KidGoes(w, s, "unclosed"))
  /\ UNCHANGED <<opts, procVars, diskVars, histVars>>

\* Nothing arrives, the disk is full, or the acknowledgement of what was written
\* cannot be sent: the child will unlink the path and exit.
KidFails(w, s) ==
  /\ kid[w][s] = "open" /\ "data" \in Faults
  /\ UNCHANGED data \/ (~Simulated(w) /\ data' = Written(w, s))
  /\ KidGoes(w, s, "failing") /\ KidCloses(w, s)
  /\ UNCHANGED <<opts, procVars, names, depth, histVars>>

KidUnlinks(w, s) ==
  /\ names' = Unlinked(Path(w))
  /\ \/ kid[w][s] = "failing" /\ KidGoes(w, s, "bad")
     \/ kid[w][s] = "unclosed" /\ KidGoes(w, s, "lost")
  /\ UNCHANGED <<opts, procVars, fd, data, depth, histVars>>

SomeBad(w) == \E s \in Streams : kid[w][s] = "bad"

-----------------------------------------------------------------------------
(* The end of a transfer.                                                  *)

\* Times and modes are set, and the temporary file is renamed; without one
\* there is nothing more to do.  rename of a file that is gone fails.
Place(w, how) ==
  /\ answer' = [answer EXCEPT ![w] = how]
  /\ \/ /\ how = "OK" /\ "tmp" \in opts[w] /\ names[Tmp(w)] # NoFile
        /\ names' = [names EXCEPT ![Final] = names[Tmp(w)], ![Tmp(w)] = NoFile]
     \/ how = "OK" /\ "tmp" \notin opts[w] /\ UNCHANGED names
     \/ /\ how = "BAD"
        /\ \/ "tmp" \in opts[w] /\ names[Tmp(w)] = NoFile
           \/ "options" \in Faults
        /\ names' = Unlinked(Path(w))

\* Mutant: the handler waits for one child only.
OneCollected(w) == \E s \in Streams : kid[w][s] = "ok"
\* The SIGCHLD handler has collected every child.
AllCollected(w) == \A s \in Streams : kid[w][s] = "ok"

\* A simulation has its target removed behind the answer, whichever that is,
\* unless the handler runs before unlinkfile has become 4.
ServerDone(w) ==
  /\ at[w] = "run" /\ Side[w] = "server" /\ AllCollected(w)
  /\ \E how \in {"OK", "BAD"} : Place(w, how)
  /\ Goto(w, "idle") \/ (Simulated(w) /\ Goto(w, "drop"))
  /\ NoKids(w)
  /\ UNCHANGED <<opts, tries, level, data, depth, histVars>>

\* The server says OK as soon as it has every acknowledgement, of a simulation
\* as soon as its children have connected; the client does not look at what has
\* become of its own children, and kills them only at the end.
ClientDone(w) ==
  /\ at[w] = "run" /\ Side[w] = "client"
  /\ Simulated(w) \/ \A s \in Streams : kid[w][s] \in Acked
  /\ \E how \in {"OK", "BAD"} :
       Place(w, how) /\ Goto(w, IF Simulated(w) /\ how = "OK" THEN "drop" ELSE "reap")
  /\ UNCHANGED <<opts, tries, level, kidVars, data, depth, histVars>>

\* A simulation has its file deleted, under the name of the target.
Drop(w) ==
  /\ at[w] = "drop"
  /\ names' = Unlinked(Final)
  /\ Goto(w, IF Side[w] = "server" THEN "idle" ELSE "reap")
  /\ UNCHANGED <<opts, tries, level, answer, kidVars, data, depth, histVars>>

ClientReaps(w) ==
  /\ at[w] = "reap"
  /\ Goto(w, "idle") /\ NoKids(w)
  /\ UNCHANGED <<opts, tries, level, answer, diskVars, histVars>>

\* The handler finds the first failed child: it unlinks (of a simulation only
\* before unlinkfile has become 4), answers, and kills the others only then.
ServerFails(w) ==
  /\ at[w] = "run" /\ Side[w] = "server" /\ SomeBad(w)
  /\ names' = Unlinked(Path(w)) \/ (Simulated(w) /\ UNCHANGED names)
  /\ Goto(w, "kill")
  /\ UNCHANGED <<opts, tries, level, answer, kidVars, data, depth, histVars>>

ServerKills(w) ==
  /\ at[w] = "kill"
  /\ NoKids(w) /\ Ends(w, "BAD")
  /\ UNCHANGED <<opts, tries, level, diskVars, histVars>>

\* The client aborts or goes away while the session receives: the file is
\* unlinked, the children are killed, and the session ends.
ServerInterrupted(w) ==
  /\ at[w] = "run" /\ Side[w] = "server" /\ "remote" \in Faults
  /\ names' = Unlinked(Path(w))
  /\ Goto(w, "leave")
  /\ UNCHANGED <<opts, tries, level, answer, kidVars, data, depth, histVars>>

ServerLeaves(w) ==
  /\ at[w] = "leave"
  /\ Goto(w, "left") /\ NoKids(w)
  /\ UNCHANGED <<opts, tries, level, answer, diskVars, histVars>>

\* The server says BAD, or the connection breaks: the client kills its children
\* first and unlinks after.
ClientFails(w) ==
  /\ at[w] = "run" /\ Side[w] = "client" /\ (SomeBad(w) \/ "remote" \in Faults)
  /\ NoKids(w) /\ Goto(w, "sweep")
  /\ UNCHANGED <<opts, tries, level, answer, diskVars, histVars>>

\* Mutant: nothing is swept.
ClientSweepsNothing(w) ==
  /\ at[w] = "sweep"
  /\ Ends(w, "BAD")
  /\ UNCHANGED <<opts, tries, level, kidVars, diskVars, histVars>>

ClientSweeps(w) ==
  /\ at[w] = "sweep"
  /\ names' = Unlinked(Path(w))
  /\ Ends(w, "BAD")
  /\ UNCHANGED <<opts, tries, level, kidVars, data, depth, histVars>>

\* A process is killed: its children go on.
Crash(w) ==
  /\ at[w] \notin {"idle", "left", "killed"} /\ "crash" \in Faults
  /\ Goto(w, "killed")
  /\ UNCHANGED <<opts, tries, level, answer, kidVars, diskVars, histVars>>

-----------------------------------------------------------------------------
Directories(w) == DirFound(w) \/ DirMissing(w) \/ MakeDir(w) \/ MakeDirFails(w) \/ StatDir(w)
Creation(w) == Remove(w) \/ Create(w) \/ CreateFails(w) \/ Close(w) \/ CloseFails(w)
Child(w, s) == KidOpen(w, s) \/ KidWrite(w, s) \/ KidEnds(w, s) \/ KidFails(w, s) \/ KidUnlinks(w, s)
EndOfTransfer(w) ==
  \/ ServerDone(w) \/ ClientDone(w) \/ Drop(w) \/ ClientReaps(w)
  \/ ServerFails(w) \/ ServerKills(w) \/ ServerInterrupted(w) \/ ServerLeaves(w)
  \/ ClientFails(w) \/ ClientSweeps(w)

Finished == (\A w \in Writers : ~AtWork(w)) /\ UNCHANGED vars

Next ==
  \/ \E w \in Writers : \/ Ask(w)
                        \/ Directories(w)
                        \/ Creation(w)
                        \/ \E s \in Streams : Child(w, s)
                        \/ EndOfTransfer(w)
                        \/ Crash(w)
  \/ Finished

Spec == Init /\ [][Next]_vars

-----------------------------------------------------------------------------
(* Properties.                                                             *)

\* The variables hold what the program keeps in them; a child that writes has
\* a file open (fd is set by its own open).
TypeOK ==
  /\ opts \in [Writers -> Modes]
  /\ at \in [Writers -> {"idle", "dir", "mkdir", "stat", "remove", "create", "close", "run",
                         "drop", "reap", "kill", "leave", "sweep", "left", "killed"}]
  /\ tries \in [Writers -> 0..MaxTries]
  /\ level \in [Writers -> 1..Depth]
  /\ answer \in [Writers -> {"none", "OK", "BAD", "nodir"}]
  /\ kid \in [Writers -> [Streams -> {"none", "started", "open", "done", "failing", "unclosed",
                                       "ok", "bad", "lost"}]]
  /\ fd \in [Writers -> [Streams -> Inodes \cup {NoFile}]]
  /\ names \in [Names -> Inodes \cup {NoFile}]
  /\ data \in [Inodes -> [Streams -> Writers \cup {"hole"}]]
  /\ depth \in 0..Depth
  /\ \A w \in Writers, s \in Streams : fd[w][s] # NoFile <=> kid[w][s] \in {"open", "done"}

AllTmp == \A w \in Writers : "tmp" \in opts[w]
NoSimulation == \A w \in Writers : ~Simulated(w)

Whole(inode, w) == \A s \in Streams : data[inode][s] = w

\* Where every process uses a temporary file and none simulates, the name of the
\* target never leads to a file that is incomplete or mixed from two of them,
\* whoever fails or is killed, and when.
FinalWhole ==
  AllTmp /\ NoSimulation /\ names[Final] # NoFile => \E w \in Writers : Whole(names[Final], w)

\* Where every process uses a temporary file, a target that is there is replaced at
\* once or kept, whatever becomes of a transfer and whoever is killed; it goes away only
\* behind the answer to a simulated transfer, whose last call unlinks it.
FinalKept ==
  [][AllTmp /\ names[Final] # NoFile /\ names'[Final] = NoFile
       => \E w \in Writers : Simulated(w) /\ at[w] = "drop"]_vars

SomeLost(w) == \E s \in Streams : kid[w][s] = "lost"

\* At the step that ends a real transfer well, the target holds what this process
\* received and nothing else: always with a temporary file if the others use
\* one too; and without one if no other process was at work, except for a client
\* one of whose children could not close the file after MSG_ACK and has unlinked it.
OkMeansPlaced ==
  [][\A w \in Writers :
       /\ answer[w] = "none" /\ answer'[w] = "OK" /\ ~Simulated(w)
       /\ AllTmp \/ (alone[w] /\ ~SomeLost(w))
       => names'[Final] # NoFile /\ Whole(names'[Final], w)]_vars

\* A process that may make directories is refused for want of one only if the
\* disk had no room: that another one made the same directory is no reason.
DirsAreShared ==
  \A w \in Writers : answer[w] = "nodir" => "dir" \notin opts[w] \/ noRoom[w]

\* What a transfer that has ended leaves behind under its temporary name is
\* nothing, however it ended, short of a process that was killed.
NoLitter == \A w \in Writers : at[w] \in {"idle", "left"} => names[Tmp(w)] = NoFile
=============================================================================
