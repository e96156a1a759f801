---------------------------- MODULE TargetsProof ----------------------------
(* Theorems about Targets, for any number of processes, streams,           *)
(* directories and transfers, all options and all faults.                  *)
EXTENDS Targets, TLAPS

-----------------------------------------------------------------------------
(* Types.                                                                  *)

Places == {"idle", "dir", "mkdir", "stat", "remove", "create", "close", "run",
           "drop", "reap", "kill", "leave", "sweep", "left", "killed"}
KidStates == {"none", "started", "open", "done", "failing", "unclosed", "ok", "bad", "lost"}

\* The parts of TypeOK: the processes, their children, and the disk.
ProcType ==
  /\ opts \in [Writers -> Modes] /\ at \in [Writers -> Places]
  /\ tries \in [Writers -> 0..MaxTries] /\ level \in [Writers -> 1..Depth]
  /\ answer \in [Writers -> {"none", "OK", "BAD", "nodir"}]
KidType ==
  /\ kid \in [Writers -> [Streams -> KidStates]]
  /\ fd \in [Writers -> [Streams -> Inodes \cup {NoFile}]]
DiskType ==
  /\ names \in [Names -> Inodes \cup {NoFile}]
  /\ data \in [Inodes -> [Streams -> Writers \cup {"hole"}]]
  /\ depth \in 0..Depth
\* A child has a file open as long as it writes.
OpenType == \A w \in Writers, s \in Streams : fd[w][s] # NoFile <=> kid[w][s] \in {"open", "done"}

\* TypeOK is these four parts ...
LEMMA TypeParts == TypeOK <=> ProcType /\ KidType /\ DiskType /\ OpenType
BY DEF TypeOK, ProcType, KidType, DiskType, OpenType, Places, KidStates

\* ... and so in the next state.
LEMMA TypePartsNext == ProcType' /\ KidType' /\ DiskType' /\ OpenType' => TypeOK'
BY DEF TypeOK, ProcType, KidType, DiskType, OpenType, Places, KidStates

\* An inode is a pair, and no file is none.
LEMMA NoFileIsNoInode == NoFile \notin Inodes
BY DEF NoFile, Inodes

\* The names of the program differ.
LEMMA NamesDiffer == /\ Final \in Names /\ Writers \subseteq Names /\ Final \notin Writers
BY NamesAssumption DEF Names, Final

\* Every path is a name.
LEMMA PathIsName == \A w \in Writers : Path(w) \in Names /\ Tmp(w) = w
BY DEF Path, Tmp, Names

\* The file system starts with values of these types.
LEMMA TypeInit == Init => TypeOK
<1> SUFFICES ASSUME Init PROVE TypeOK
  OBVIOUS
<1>1. 0 \in 0..MaxTries /\ 1 \in 1..Depth
  BY SizesAssumption
<1>2. ProcType
  BY <1>1 DEF Init, ProcType, Places
<1>3. KidType /\ OpenType
  BY DEF Init, KidType, OpenType, KidStates
<1>4. DiskType
  BY DEF Init, DiskType
<1> QED
  BY <1>2, <1>3, <1>4, TypeParts

-----------------------------------------------------------------------------
(* Each group of steps keeps the types.                                    *)

\* A transfer that begins.
LEMMA TypeAsk == ASSUME TypeOK, NEW w \in Writers, Ask(w) PROVE TypeOK'
<1>1. tries[w] + 1 \in 0..MaxTries
  BY TypeParts, SizesAssumption DEF ProcType, Ask
<1>2. ProcType'
  BY <1>1, TypeParts DEF Ask, ProcType, Goto, Places
<1>3. KidType' /\ DiskType' /\ OpenType'
  BY TypeParts DEF Ask, KidType, DiskType, OpenType, kidVars, diskVars
<1> QED
  BY <1>2, <1>3, TypePartsNext

\* One directory is there.
LEMMA DescendType ==
  ASSUME TypeOK, NEW w \in Writers, Descend(w)
  PROVE /\ at' \in [Writers -> Places] /\ level' \in [Writers -> 1..Depth]
<1>1. level[w] \in 1..Depth /\ 1 \in 1..Depth
  BY TypeParts, SizesAssumption DEF ProcType
<1>2. CASE level[w] = Depth
  BY <1>1, <1>2, TypeParts DEF Descend, Goto, ProcType, Places
<1>3. CASE level[w] # Depth
  <2>1. level[w] + 1 \in 1..Depth
    BY <1>1, <1>3, SizesAssumption
  <2> QED
    BY <2>1, <1>3, TypeParts DEF Descend, Goto, ProcType, Places
<1> QED
  BY <1>2, <1>3

\* The directories above the file.
LEMMA TypeDirectories == ASSUME TypeOK, NEW w \in Writers, Directories(w) PROVE TypeOK'
<1>1. KidType' /\ OpenType'
  BY TypeParts DEF Directories, DirFound, DirMissing, MakeDir, MakeDirFails, StatDir, KidType,
                   OpenType, kidVars
<1>2. ProcType' /\ DiskType'
  <2>1. CASE DirFound(w) \/ DirMissing(w) \/ MakeDirFails(w)
    BY <2>1, TypeParts DEF DirFound, DirMissing, MakeDirFails, Goto, Ends, ProcType, DiskType,
                           Places, diskVars
  <2>2. CASE MakeDir(w)
    <3>1. level[w] \in 0..Depth
      BY TypeParts, SizesAssumption DEF ProcType
    <3> QED
      BY <2>2, <3>1, DescendType, TypeParts DEF MakeDir, ProcType, DiskType
  <2>3. CASE StatDir(w)
    <3>1. 1 \in 1..Depth
      BY SizesAssumption
    <3>2. DiskType'
      BY <2>3, TypeParts DEF StatDir, DiskType, diskVars
    <3>3. CASE depth >= level[w] /\ Descend(w) /\ UNCHANGED answer
      BY <2>3, <3>2, <3>3, DescendType, TypeParts DEF StatDir, ProcType
    <3>4. CASE Ends(w, "nodir") /\ level' = [level EXCEPT ![w] = 1]
      BY <2>3, <3>1, <3>2, <3>4, TypeParts DEF StatDir, Ends, Goto, ProcType, Places
    <3> QED
      BY <2>3, <3>3, <3>4 DEF StatDir
  <2> QED
    BY <2>1, <2>2, <2>3 DEF Directories
<1> QED
  BY <1>1, <1>2, TypePartsNext

\* What removes a name leaves the names well typed.
LEMMA UnlinkedType ==
  ASSUME TypeOK, NEW path \in Names
  PROVE Unlinked(path) \in [Names -> Inodes \cup {NoFile}]
BY TypeParts DEF DiskType, Unlinked

\* A process that has left its idle state has begun a transfer: what it creates is a file
\* of that transfer.
Begun == \A w \in Writers : tries[w] = 0 => at[w] = "idle"
\* The children are there from the end of the creation to the end of the transfer.
Early == {"idle", "dir", "mkdir", "stat", "remove", "create", "close", "sweep"}
KidsLater == \A w \in Writers, s \in Streams : at[w] \in Early => kid[w][s] = "none"
\* Only a simulation removes the target in the end.
DropInv ==
  \A w \in Writers : at[w] = "drop" =>
    Simulated(w) /\ (Side[w] = "server" => \A s \in Streams : kid[w][s] = "none")
TypeInv == TypeOK /\ Begun /\ KidsLater /\ DropInv

\* The inode of the transfer a process is at.
Own(w) == <<w, tries[w]>>

\* The file of a transfer that has begun is an inode.
LEMMA OwnType == ASSUME TypeInv, NEW w \in Writers, at[w] # "idle" PROVE Own(w) \in Inodes
<1>1. tries[w] \in 0..MaxTries /\ tries[w] # 0
  BY TypeParts DEF TypeInv, Begun, ProcType
<1>2. tries[w] \in 1..MaxTries
  BY <1>1, SizesAssumption
<1> QED
  BY <1>2 DEF Own, Inodes

\* The creation of the file.
LEMMA TypeCreation == ASSUME TypeInv, NEW w \in Writers, Creation(w) PROVE TypeOK'
<1>1. Path(w) \in Names /\ TypeOK
  BY PathIsName DEF TypeInv
<1>2. CASE Remove(w)
  BY <1>1, <1>2, UnlinkedType, TypeParts, TypePartsNext
  DEF Remove, Goto, ProcType, KidType, DiskType, OpenType, kidVars, Places
<1>3. CASE Create(w)
  <2> DEFINE new == IF names[Path(w)] = NoFile THEN Own(w) ELSE names[Path(w)]
  <2>1. ProcType' /\ KidType' /\ OpenType'
    BY <1>1, <1>3, TypeParts DEF Create, Goto, ProcType, KidType, OpenType, kidVars, Places
  <2>2. new \in Inodes
    BY <1>1, <1>3, OwnType, TypeParts DEF Create, DiskType
  <2>3. /\ names' = [names EXCEPT ![Path(w)] = new]
        /\ data' = [data EXCEPT ![new] = [s \in Streams |-> "hole"]]
        /\ UNCHANGED depth
    BY <1>3 DEF Create, Own
  <2>4. DiskType'
    BY <1>1, <2>2, <2>3, TypeParts DEF DiskType
  <2> QED
    BY <2>1, <2>4, TypePartsNext
<1>4. CASE CreateFails(w)
  BY <1>1, <1>4, TypeParts, TypePartsNext
  DEF CreateFails, Ends, Goto, ProcType, KidType, DiskType, OpenType, kidVars, diskVars, Places
<1>5. CASE Close(w)
  <2>1. ProcType' /\ DiskType'
    BY <1>1, <1>5, TypeParts DEF Close, Goto, ProcType, DiskType, diskVars, Places
  <2>2. KidType'
    BY <1>1, <1>5, TypeParts DEF Close, KidType, KidStates
  <2>3. OpenType'
    <3>1. kid[w] = [s \in Streams |-> "none"]
      BY <1>1, <1>5, TypeParts DEF Close, TypeInv, KidsLater, Early, KidType
    <3> QED
      BY <1>1, <1>5, <3>1, TypeParts DEF Close, OpenType, KidType
  <2> QED
    BY <2>1, <2>2, <2>3, TypePartsNext
<1>6. CASE CloseFails(w)
  BY <1>1, <1>6, UnlinkedType, TypeParts, TypePartsNext
  DEF CloseFails, Ends, Goto, ProcType, KidType, DiskType, OpenType, kidVars, Places
<1> QED
  BY <1>2, <1>3, <1>4, <1>5, <1>6 DEF Creation

\* A child that exits, or is about to, closes its file.
LEMMA KidEndsType ==
  ASSUME TypeOK, NEW w \in Writers, NEW s \in Streams, NEW where \in KidStates \ {"open", "done"},
         KidGoes(w, s, where), KidCloses(w, s)
  PROVE KidType' /\ OpenType'
<1>1. KidType'
  BY TypeParts DEF KidGoes, KidCloses, KidType
<1>2. OpenType'
  BY TypeParts DEF KidGoes, KidCloses, KidType, OpenType
<1> QED
  BY <1>1, <1>2

\* What a child does.
LEMMA TypeChild ==
  ASSUME TypeInv, NEW w \in Writers, NEW s \in Streams, Child(w, s) PROVE TypeOK'
<1>1. Path(w) \in Names /\ TypeOK
  BY PathIsName DEF TypeInv
<1>2. ProcType'
  BY <1>1, TypeParts DEF Child, KidOpen, KidWrite, KidEnds, KidFails, KidUnlinks, procVars, ProcType
<1>3. CASE KidOpen(w, s)
  <2>1. names[Path(w)] \in Inodes \cup {NoFile}
    BY <1>1, TypeParts DEF DiskType
  <2>2. DiskType'
    BY <1>1, <1>3, TypeParts DEF KidOpen, DiskType, diskVars
  <2>3. CASE fd' = [fd EXCEPT ![w][s] = names[Path(w)]] /\ KidGoes(w, s, "open")
             /\ names[Path(w)] # NoFile
    <3>1. KidType'
      BY <1>1, <2>1, <2>3, TypeParts DEF KidGoes, KidType, KidStates
    <3>2. OpenType'
      BY <1>1, <2>1, <2>3, TypeParts DEF KidGoes, KidType, OpenType
    <3> QED
      BY <1>2, <2>2, <3>1, <3>2, TypePartsNext
  <2>4. CASE KidGoes(w, s, "bad") /\ UNCHANGED fd
    <3>1. KidType'
      BY <1>1, <2>4, TypeParts DEF KidGoes, KidType, KidStates
    <3>2. OpenType'
      BY <1>1, <1>3, <2>4, TypeParts DEF KidOpen, KidGoes, KidType, OpenType
    <3> QED
      BY <1>2, <2>2, <3>1, <3>2, TypePartsNext
  <2> QED
    BY <1>3, <2>3, <2>4 DEF KidOpen
<1>4. CASE KidWrite(w, s)
  <2>1. fd[w][s] \in Inodes
    BY <1>1, <1>4, TypeParts DEF KidWrite, KidType, OpenType
  <2>2. DiskType'
    BY <1>1, <1>4, <2>1, TypeParts DEF KidWrite, Written, DiskType
  <2>3. CASE KidGoes(w, s, "ok") /\ KidCloses(w, s)
    BY <1>1, <1>2, <2>2, <2>3, KidEndsType, TypePartsNext DEF KidStates
  <2>4. CASE KidGoes(w, s, "done") /\ UNCHANGED fd
    <3>1. KidType'
      BY <1>1, <2>4, TypeParts DEF KidGoes, KidType, KidStates
    <3>2. OpenType'
      BY <1>1, <1>4, <2>4, TypeParts DEF KidWrite, KidGoes, KidType, OpenType
    <3> QED
      BY <1>2, <2>2, <3>1, <3>2, TypePartsNext
  <2> QED
    BY <1>4, <2>3, <2>4 DEF KidWrite
<1>5. CASE KidEnds(w, s) \/ KidFails(w, s)
  <2>1. DiskType'
    <3>1. CASE data' = data
      BY <1>1, <1>5, <3>1, TypeParts DEF KidEnds, KidFails, DiskType, diskVars
    <3>2. CASE KidFails(w, s) /\ data' = Written(w, s)
      <4>1. fd[w][s] \in Inodes
        BY <1>1, <3>2, TypeParts DEF KidFails, KidType, OpenType
      <4> QED
        BY <1>1, <3>2, <4>1, TypeParts DEF KidFails, Written, DiskType
    <3> QED
      BY <1>5, <3>1, <3>2 DEF KidEnds, KidFails, diskVars
  <2>2. KidType' /\ OpenType'
    BY <1>1, <1>5, KidEndsType DEF KidEnds, KidFails, KidStates
  <2> QED
    BY <1>2, <2>1, <2>2, TypePartsNext
<1>6. CASE KidUnlinks(w, s)
  <2>1. DiskType'
    BY <1>1, <1>6, UnlinkedType, TypeParts DEF KidUnlinks, DiskType
  <2>2. KidType'
    BY <1>1, <1>6, TypeParts DEF KidUnlinks, KidGoes, KidType, KidStates
  <2>3. OpenType'
    BY <1>1, <1>6, TypeParts DEF KidUnlinks, KidGoes, KidType, OpenType
  <2> QED
    BY <1>2, <2>1, <2>2, <2>3, TypePartsNext
<1> QED
  BY <1>3, <1>4, <1>5, <1>6 DEF Child

\* A process without children.
LEMMA NoKidsType ==
  ASSUME TypeOK, NEW w \in Writers, NoKids(w) PROVE KidType' /\ OpenType'
BY TypeParts DEF NoKids, KidType, OpenType, KidStates

\* The end of a transfer, well or not: the names stay names.
LEMMA PlaceType ==
  ASSUME TypeOK, NEW w \in Writers, NEW how \in {"OK", "BAD"}, Place(w, how)
  PROVE /\ names' \in [Names -> Inodes \cup {NoFile}]
        /\ answer' \in [Writers -> {"none", "OK", "BAD", "nodir"}]
<1>1. Tmp(w) \in Names /\ Final \in Names /\ Path(w) \in Names
  BY NamesDiffer, PathIsName
<1>2. names' \in [Names -> Inodes \cup {NoFile}]
  BY <1>1, UnlinkedType, TypeParts DEF Place, DiskType
<1>3. answer' \in [Writers -> {"none", "OK", "BAD", "nodir"}]
  BY TypeParts DEF Place, ProcType
<1> QED
  BY <1>2, <1>3

\* The steps that end a transfer keep the types.
LEMMA TypeEnd == ASSUME TypeInv, NEW w \in Writers, EndOfTransfer(w) PROVE TypeOK'
<1>1. Path(w) \in Names /\ TypeOK
  BY PathIsName DEF TypeInv
<1>2. CASE ServerDone(w) \/ ClientDone(w)
  <2>1. PICK how \in {"OK", "BAD"} : Place(w, how)
    BY <1>2 DEF ServerDone, ClientDone
  <2>2. UNCHANGED <<opts, tries, level, data, depth>>
    BY <1>2 DEF ServerDone, ClientDone
  <2>3. at' \in [Writers -> Places]
    BY <1>1, <1>2, TypeParts DEF ServerDone, ClientDone, Goto, ProcType, Places
  <2>4. ProcType' /\ DiskType'
    BY <1>1, <2>1, <2>2, <2>3, PlaceType, TypeParts DEF ProcType, DiskType
  <2>5. KidType' /\ OpenType'
    <3>1. CASE ServerDone(w)
      BY <1>1, <3>1, NoKidsType DEF ServerDone
    <3>2. CASE ClientDone(w)
      BY <1>1, <3>2, TypeParts DEF ClientDone, KidType, OpenType, kidVars
    <3> QED
      BY <1>2, <3>1, <3>2
  <2> QED
    BY <2>4, <2>5, TypePartsNext
<1>5. CASE Drop(w)
  <2>1. ProcType' /\ KidType' /\ OpenType'
    BY <1>1, <1>5, TypeParts DEF Drop, Goto, ProcType, KidType, OpenType, Places, kidVars
  <2>2. DiskType'
    BY <1>1, <1>5, UnlinkedType, NamesDiffer, TypeParts DEF Drop, DiskType
  <2> QED
    BY <2>1, <2>2, TypePartsNext
<1>3. CASE ServerFails(w) \/ ServerInterrupted(w) \/ ClientSweeps(w)
  <2>1. ProcType'
    BY <1>1, <1>3, TypeParts
    DEF ServerFails, ServerInterrupted, ClientSweeps, Ends, Goto, ProcType, Places
  <2>2. DiskType'
    BY <1>1, <1>3, UnlinkedType, TypeParts DEF ServerFails, ServerInterrupted, ClientSweeps, DiskType
  <2>3. KidType' /\ OpenType'
    BY <1>1, <1>3, TypeParts
    DEF ServerFails, ServerInterrupted, ClientSweeps, KidType, OpenType, kidVars
  <2> QED
    BY <2>1, <2>2, <2>3, TypePartsNext
<1>4. CASE ServerKills(w) \/ ServerLeaves(w) \/ ClientFails(w) \/ ClientReaps(w)
  <2>1. ProcType' /\ DiskType'
    BY <1>1, <1>4, TypeParts
    DEF ServerKills, ServerLeaves, ClientFails, ClientReaps, Ends, Goto, ProcType, DiskType, diskVars, Places
  <2>2. NoKids(w)
    BY <1>4 DEF ServerKills, ServerLeaves, ClientFails, ClientReaps
  <2> QED
    BY <1>1, <2>1, <2>2, NoKidsType, TypePartsNext
<1> QED
  BY <1>2, <1>3, <1>4, <1>5 DEF EndOfTransfer

\* A process that is killed.
LEMMA TypeCrash == ASSUME TypeInv, NEW w \in Writers, Crash(w) PROVE TypeOK'
BY TypeParts, TypePartsNext
DEF TypeInv, Crash, Goto, ProcType, KidType, DiskType, OpenType, Places, kidVars, diskVars

\* The step of one process.
Act(w) == \/ Ask(w) \/ Directories(w) \/ Creation(w) \/ (\E s \in Streams : Child(w, s))
          \/ EndOfTransfer(w) \/ Crash(w)

\* The system takes the step of one process, or none.
LEMMA NextIsAct == [Next]_vars => (\E w \in Writers : Act(w)) \/ UNCHANGED vars
BY DEF Next, Act, Finished

\* The options of a process never change, and only Ask counts a try.
LEMMA OptsKept ==
  ASSUME NEW w \in Writers, Act(w) PROVE opts' = opts /\ (~Ask(w) => tries' = tries)
BY DEF Act, Ask, Directories, DirFound, DirMissing, MakeDir, MakeDirFails, StatDir,
       Creation, Remove, Create, CreateFails, Close, CloseFails, Child, KidOpen, KidWrite,
       KidEnds, KidFails, KidUnlinks, EndOfTransfer, ServerDone, ClientDone, Drop, ClientReaps, ServerFails,
       ServerKills, ServerInterrupted, ServerLeaves, ClientFails, ClientSweeps, Crash, procVars

\* A transfer has begun before anything is created, and there are no children before
\* the end of the creation.
LEMMA EarlyStep == ASSUME TypeInv, NEW w \in Writers, Act(w) PROVE Begun' /\ KidsLater'
<1>1. /\ ProcType /\ KidType
      /\ \A s \in Streams : at[w] \in Early => kid[w][s] = "none"
      /\ tries[w] = 0 => at[w] = "idle"
  BY TypeParts DEF TypeInv, KidsLater, Begun
<1>2. CASE Ask(w)
  <2>1. tries[w] + 1 # 0
    BY <1>1 DEF ProcType
  <2> QED
    BY <1>1, <1>2, <2>1 DEF Ask, Goto, kidVars, TypeInv, Begun, KidsLater, Early, ProcType
<1>3. CASE Directories(w)
  <2>1. tries' = tries /\ kid' = kid /\ \E p \in Early : at' = [at EXCEPT ![w] = p]
    BY <1>3 DEF Directories, DirFound, DirMissing, MakeDir, MakeDirFails, StatDir, Descend, Ends, Goto,
                kidVars, Early
  <2>2. at[w] \in Early /\ at[w] # "idle"
    BY <1>3 DEF Directories, DirFound, DirMissing, MakeDir, MakeDirFails, StatDir, Early
  <2> QED
    BY <1>1, <2>1, <2>2 DEF TypeInv, Begun, KidsLater, ProcType
<1>4. CASE Remove(w) \/ Create(w) \/ CreateFails(w) \/ CloseFails(w)
  <2>1. tries' = tries /\ kid' = kid /\ \E p \in Early : at' = [at EXCEPT ![w] = p]
    BY <1>4 DEF Remove, Create, CreateFails, CloseFails, Ends, Goto, kidVars, Early
  <2>2. at[w] \in Early /\ at[w] # "idle"
    BY <1>4 DEF Remove, Create, CreateFails, CloseFails, Early
  <2> QED
    BY <1>1, <2>1, <2>2 DEF TypeInv, Begun, KidsLater, ProcType
<1>5. CASE Close(w)
  BY <1>1, <1>5 DEF Close, Goto, TypeInv, Begun, KidsLater, Early, ProcType, KidType
<1>6. ASSUME NEW s \in Streams, Child(w, s) PROVE Begun' /\ KidsLater'
  <2>1. UNCHANGED <<at, tries>>
    BY <1>6 DEF Child, KidOpen, KidWrite, KidEnds, KidFails, KidUnlinks, procVars
  <2>2. kid[w][s] # "none" /\ \E k \in KidStates : kid' = [kid EXCEPT ![w][s] = k]
    BY <1>6 DEF Child, KidOpen, KidWrite, KidEnds, KidFails, KidUnlinks, KidGoes, KidStates
  <2>3. at[w] \notin Early
    BY <1>1, <2>2
  <2> QED
    BY <1>1, <2>1, <2>2, <2>3 DEF TypeInv, Begun, KidsLater, ProcType, KidType
<1>7. CASE EndOfTransfer(w)
  <2>1. tries' = tries /\ at[w] # "idle" /\ \E p \in Places : at' = [at EXCEPT ![w] = p]
    BY <1>7 DEF EndOfTransfer, ServerDone, ClientDone, Drop, ClientReaps, Place, ServerFails, ServerKills,
                ServerInterrupted, ServerLeaves, ClientFails, ClientSweeps, Ends, Goto, Places
  <2>2. CASE NoKids(w)
    BY <1>1, <2>1, <2>2 DEF NoKids, TypeInv, Begun, KidsLater, ProcType, KidType
  <2>3. CASE ServerFails(w) \/ ServerInterrupted(w) \/ ClientSweeps(w) \/ ClientDone(w) \/ Drop(w)
    <3>1. kid' = kid
      BY <2>3 DEF ServerFails, ServerInterrupted, ClientSweeps, ClientDone, Drop, kidVars
    <3>2. at'[w] \in Early => \A s \in Streams : kid[w][s] = "none"
      <4>1. CASE Drop(w)
        BY <1>1, <4>1 DEF Drop, Goto, ProcType, DropInv, TypeInv, Early
      <4>2. CASE ~Drop(w)
        BY <1>1, <2>3, <4>2 DEF ServerFails, ServerInterrupted, ClientSweeps, ClientDone, Ends, Goto,
                                Early, ProcType
      <4> QED
        BY <4>1, <4>2
    <3> QED
      BY <1>1, <2>1, <3>1, <3>2 DEF TypeInv, Begun, KidsLater, ProcType
  <2> QED
    BY <1>7, <2>2, <2>3
    DEF EndOfTransfer, ServerDone, ClientReaps, ServerKills, ServerLeaves, ClientFails
<1>8. CASE Crash(w)
  BY <1>1, <1>8 DEF Crash, Goto, kidVars, TypeInv, Begun, KidsLater, Early, ProcType
<1> QED
  BY <1>2, <1>3, <1>4, <1>5, <1>6, <1>7, <1>8 DEF Act, Creation

\* Only a simulation gets where the target is removed, on the server when its children
\* have been collected.
LEMMA DropStep == ASSUME TypeInv, NEW w \in Writers, Act(w) PROVE DropInv'
<1>1. ProcType /\ KidType
  BY TypeParts DEF TypeInv
<1>2. opts' = opts
  BY OptsKept
<1>3. CASE ServerDone(w)
  BY <1>1, <1>2, <1>3 DEF ServerDone, Goto, NoKids, TypeInv, DropInv, Simulated, ProcType, KidType
<1>4. CASE ClientDone(w)
  BY <1>1, <1>2, <1>4 DEF ClientDone, Goto, kidVars, TypeInv, DropInv, Simulated, ProcType, KidType
<1>5. ASSUME NEW s \in Streams, Child(w, s) PROVE DropInv'
  <2>1. kid[w][s] # "none" /\ at' = at /\ \E k \in KidStates : kid' = [kid EXCEPT ![w][s] = k]
    BY <1>5 DEF Child, KidOpen, KidWrite, KidEnds, KidFails, KidUnlinks, KidGoes, KidStates, procVars
  <2> QED
    BY <1>1, <1>2, <2>1 DEF TypeInv, DropInv, Simulated, KidType
<1>6. ASSUME ~ServerDone(w), ~ClientDone(w), \A s \in Streams : ~Child(w, s) PROVE DropInv'
  <2>1. \E p \in Places \ {"drop"} : at' = [at EXCEPT ![w] = p]
    BY <1>6 DEF Act, Ask, Directories, DirFound, DirMissing, MakeDir, MakeDirFails, StatDir, Descend,
      Creation, Remove, Create, CreateFails, Close, CloseFails, EndOfTransfer, Drop, ClientReaps,
      ServerFails, ServerKills, ServerInterrupted, ServerLeaves, ClientFails, ClientSweeps, Crash,
      Ends, Goto, Places
  <2>2. \A v \in Writers \ {w} : kid'[v] = kid[v]
    BY <1>1, <1>6 DEF Act, Ask, Directories, DirFound, DirMissing, MakeDir, MakeDirFails, StatDir,
      Creation, Remove, Create, CreateFails, Close, CloseFails, EndOfTransfer, Drop, ClientReaps,
      ServerFails, ServerKills, ServerInterrupted, ServerLeaves, ClientFails, ClientSweeps, Crash,
      NoKids, kidVars, KidType
  <2> QED
    BY <1>1, <1>2, <2>1, <2>2 DEF TypeInv, DropInv, Simulated, ProcType
<1> QED
  BY <1>3, <1>4, <1>5, <1>6

\* At the start nothing has begun ...
LEMMA TypeInvInit == Init => TypeInv
BY TypeInit DEF Init, TypeInv, Begun, KidsLater, DropInv

\* ... and every step keeps what TypeOK rests on.
LEMMA TypeInvStep == TypeInv /\ [Next]_vars => TypeInv'
<1>1. ASSUME TypeInv, NEW w \in Writers, Act(w) PROVE TypeInv'
  <2>1. TypeOK'
    BY <1>1, TypeAsk, TypeDirectories, TypeCreation, TypeChild, TypeEnd, TypeCrash DEF Act, TypeInv
  <2> QED
    BY <1>1, <2>1, EarlyStep, DropStep DEF TypeInv
<1>2. ASSUME TypeInv, UNCHANGED vars PROVE TypeInv'
  BY <1>2 DEF TypeInv, TypeOK, Begun, KidsLater, DropInv, Simulated, vars, procVars, kidVars, diskVars
<1> QED
  BY <1>1, <1>2, NextIsAct

\* The variables always hold what the program keeps in them, however many processes
\* there are and whatever fails: what is created belongs to a transfer that has begun.
THEOREM TargetsTypeCorrect == Spec => []TypeOK
<1>1. TypeInv => TypeOK
  BY DEF TypeInv
<1> QED
  BY <1>1, TypeInvInit, TypeInvStep, PTL DEF Spec

-----------------------------------------------------------------------------
(* The name of the target does not disappear.                              *)

\* With a temporary file the path is the process' own name.
LEMMA TmpPath ==
  ASSUME AllTmp, NEW w \in Writers PROVE Path(w) = w /\ Tmp(w) = w /\ w \in Names /\ w # Final
BY NamesDiffer DEF AllTmp, Path, Tmp

\* Whatever a process does to the names, where all use temporary files: it changes the
\* name of its own, and may move its file to the final name, or drop that at the end of
\* a simulation.
LEMMA NamesStep ==
  ASSUME TypeInv, AllTmp, NEW w \in Writers, Act(w)
  PROVE /\ \A v \in Writers \ {w} : names'[v] = names[v]
        /\ names'[Final] # names[Final] =>
             \/ Drop(w)
             \/ /\ names'[Final] = names[w] /\ names[w] # NoFile
                /\ (ServerDone(w) \/ ClientDone(w)) /\ Place(w, "OK")
<1>1. /\ Path(w) = w /\ Tmp(w) = w /\ w \in Names /\ Final \in Names /\ Final # w
      /\ Final \notin Writers /\ \A v \in Writers : v \in Names
  BY TmpPath, NamesDiffer
<1>2. names \in [Names -> Inodes \cup {NoFile}]
  BY TypeParts DEF TypeInv, DiskType
<1>3. CASE ServerDone(w) \/ ClientDone(w)
  BY <1>1, <1>2, <1>3 DEF ServerDone, ClientDone, Drop, ClientReaps, Place, Unlinked
<1>4. CASE names' = names
  BY <1>4
<1>6. CASE Create(w)
  <2>1. \E x : names' = [names EXCEPT ![w] = x]
    BY <1>1, <1>6 DEF Create
  <2> QED
    BY <1>1, <1>2, <2>1
<1>7. CASE Unlinked(w) = names'
  BY <1>1, <1>2, <1>7 DEF Unlinked
<1>8. CASE Ask(w) \/ Directories(w) \/ Crash(w)
  BY <1>4, <1>8 DEF Ask, Directories, DirFound, DirMissing, MakeDir, MakeDirFails, StatDir, Crash,
                    diskVars
<1>9. CASE Creation(w)
  BY <1>1, <1>4, <1>6, <1>7, <1>9 DEF Creation, Remove, CreateFails, Close, CloseFails, diskVars
<1>10. ASSUME NEW s \in Streams, Child(w, s) PROVE names' = names \/ Unlinked(w) = names'
  BY <1>1, <1>10 DEF Child, KidOpen, KidWrite, KidEnds, KidFails, KidUnlinks, diskVars
<1>5. CASE Drop(w)
  BY <1>1, <1>2, <1>5 DEF Drop, Unlinked
<1>11. CASE EndOfTransfer(w)
  BY <1>1, <1>3, <1>5, <1>4, <1>7, <1>11 DEF EndOfTransfer, ClientReaps, ServerFails, ServerKills,
    ServerInterrupted, ServerLeaves, ClientFails, ClientSweeps, diskVars
<1> QED
  BY <1>4, <1>7, <1>8, <1>9, <1>10, <1>11 DEF Act

\* Where every process uses a temporary file, the target is replaced at once or kept by
\* every step of every process but one: the last call of a simulated transfer.
THEOREM FinalKeptHolds == Spec => FinalKept
<1> DEFINE Kept == AllTmp /\ names[Final] # NoFile /\ names'[Final] = NoFile
                     => \E w \in Writers : Simulated(w) /\ at[w] = "drop"
<1>1. TypeInv /\ [Next]_vars => [Kept]_vars
  <2>1. ASSUME TypeInv, NEW w \in Writers, Act(w), AllTmp,
               names[Final] # NoFile, names'[Final] = NoFile
        PROVE Simulated(w) /\ at[w] = "drop"
    <3>1. Drop(w)
      BY <2>1, NamesStep
    <3> QED
      BY <2>1, <3>1 DEF Drop, TypeInv, DropInv
  <2> QED
    BY <2>1, NextIsAct
<1> QED
  BY <1>1, TypeInvInit, TypeInvStep, PTL DEF Spec, FinalKept

-----------------------------------------------------------------------------
(* No temporary file is left behind.                                       *)

\* A temporary file is there only while a transfer is at work, or because its process
\* was killed.
LitterInv ==
  \A w \in Writers :
    names[w] # NoFile => "tmp" \in opts[w] /\ at[w] \in {"close", "run", "sweep", "killed"}

\* A child that has failed has unlinked it, or has not found it: the handler, which does
\* not unlink the file of a simulation, has nothing to remove.
BadInv ==
  \A w \in Writers, s \in Streams : "tmp" \in opts[w] /\ kid[w][s] = "bad" => names[w] = NoFile

\* The path is the temporary name or the final one, and all other names stay.
LEMMA PathNames ==
  ASSUME TypeInv, NEW w \in Writers
  PROVE /\ "tmp" \in opts[w] => Path(w) = w
        /\ "tmp" \notin opts[w] => Path(w) = Final
        /\ Tmp(w) = w /\ w \in Names /\ Final \in Names /\ Final \notin Writers
        /\ Unlinked(Path(w))[Path(w)] = NoFile
        /\ \A x \in Names \ {Path(w)} : Unlinked(Path(w))[x] = names[x]
<1>1. /\ "tmp" \in opts[w] => Path(w) = w
      /\ "tmp" \notin opts[w] => Path(w) = Final
      /\ Tmp(w) = w /\ w \in Names /\ Final \in Names /\ Final \notin Writers
  BY NamesDiffer DEF Path, Tmp
<1>2. names \in [Names -> Inodes \cup {NoFile}] /\ Path(w) \in Names
  BY <1>1, TypeParts DEF TypeInv, DiskType
<1> QED
  BY <1>1, <1>2 DEF Unlinked

\* The step of a process leaves the temporary names of the others alone.
LEMMA OthersNames ==
  ASSUME TypeInv, NEW w \in Writers, Act(w), NEW v \in Writers \ {w}
  PROVE names'[v] = names[v] /\ at'[v] = at[v] /\ opts' = opts
<1>1. at'[v] = at[v]
  <2>1. at \in [Writers -> Places]
    BY TypeParts DEF TypeInv, ProcType
  <2>2. at' = at \/ \E p : at' = [at EXCEPT ![w] = p]
    BY DEF Act, Ask, Directories, DirFound, DirMissing, MakeDir, MakeDirFails, StatDir, Descend,
           Creation, Remove, Create, CreateFails, Close, CloseFails, Child, KidOpen, KidWrite,
           KidEnds, KidFails, KidUnlinks, EndOfTransfer, ServerDone, ClientDone, Drop, ClientReaps, Place, ServerFails,
           ServerKills, ServerInterrupted, ServerLeaves, ClientFails, ClientSweeps, Crash, Ends,
           Goto, procVars
  <2> QED
    BY <2>1, <2>2
<1>2. opts' = opts
  BY OptsKept
<1>3. names'[v] = names[v]
  <2>1. /\ Path(w) # v /\ v \in Names /\ Tmp(w) # v /\ Final # v
        /\ Unlinked(Path(w))[v] = names[v]
    BY PathNames, NamesDiffer
  <2>2. names \in [Names -> Inodes \cup {NoFile}] /\ Path(w) \in Names /\ Tmp(w) \in Names
    BY TypeParts, PathNames DEF TypeInv, DiskType
  <2>3. CASE ServerDone(w) \/ ClientDone(w)
    BY <2>1, <2>2, <2>3 DEF ServerDone, ClientDone, Drop, ClientReaps, Place, Unlinked
  <2>4. CASE Create(w)
    BY <2>1, <2>2, <2>4 DEF Create
  <2>5. CASE names' = names \/ names' = Unlinked(Path(w))
    BY <2>1, <2>5
  <2>6. CASE Ask(w) \/ Directories(w) \/ Crash(w)
    BY <2>5, <2>6 DEF Ask, Directories, DirFound, DirMissing, MakeDir, MakeDirFails, StatDir, Crash,
                      diskVars
  <2>7. CASE Creation(w)
    BY <2>4, <2>5, <2>7 DEF Creation, Remove, CreateFails, Close, CloseFails, diskVars
  <2>8. CASE \E s \in Streams : Child(w, s)
    BY <2>5, <2>8 DEF Child, KidOpen, KidWrite, KidEnds, KidFails, KidUnlinks, diskVars
  <2>10. CASE Drop(w)
    BY <2>1, <2>2, <2>10 DEF Drop, Unlinked
  <2>9. CASE EndOfTransfer(w)
    BY <2>3, <2>5, <2>9, <2>10 DEF EndOfTransfer, ClientReaps, ServerFails, ServerKills,
      ServerInterrupted, ServerLeaves, ClientFails, ClientSweeps, diskVars
  <2> QED
    BY <2>6, <2>7, <2>8, <2>9 DEF Act
<1> QED
  BY <1>1, <1>2, <1>3

\* The step of a process changes nothing of the other processes.
LEMMA OthersFrame ==
  ASSUME TypeInv, NEW w \in Writers, Act(w), NEW v \in Writers \ {w}
  PROVE tries'[v] = tries[v] /\ kid'[v] = kid[v] /\ fd'[v] = fd[v]
<1>1. tries'[v] = tries[v]
  <2>1. tries' = tries \/ tries' = [tries EXCEPT ![w] = @ + 1]
    BY OptsKept DEF Ask
  <2> QED
    BY <2>1, TypeParts DEF TypeInv, ProcType
<1>2. kid'[v] = kid[v] /\ fd'[v] = fd[v]
  <2>1. CASE UNCHANGED <<kid, fd>>
    BY <2>1
  <2>2. CASE NoKids(w)
    BY <2>2, TypeParts DEF NoKids, TypeInv, KidType
  <2>3. CASE Close(w)
    BY <2>3, TypeParts DEF Close, TypeInv, KidType
  <2>4. CASE \E s \in Streams : Child(w, s)
    BY <2>4, TypeParts DEF Child, KidOpen, KidWrite, KidEnds, KidFails, KidUnlinks, KidGoes, KidCloses,
                           TypeInv, KidType
  <2>5. CASE Ask(w) \/ Directories(w) \/ Crash(w)
    BY <2>1, <2>5 DEF Ask, Directories, DirFound, DirMissing, MakeDir, MakeDirFails, StatDir, Crash,
                      kidVars
  <2>6. CASE Creation(w)
    BY <2>1, <2>3, <2>6 DEF Creation, Remove, Create, CreateFails, CloseFails, kidVars
  <2>7. CASE EndOfTransfer(w)
    BY <2>1, <2>2, <2>7 DEF EndOfTransfer, ServerDone, ClientDone, Drop, ClientReaps, ServerFails, ServerKills,
      ServerInterrupted, ServerLeaves, ClientFails, ClientSweeps, kidVars
  <2> QED
    BY <2>4, <2>5, <2>6, <2>7 DEF Act
<1> QED
  BY <1>1, <1>2

\* Every exit of a transfer removes its temporary file or has moved it.
LEMMA LitterStep == ASSUME TypeInv, LitterInv, BadInv, NEW w \in Writers, Act(w) PROVE LitterInv'
<1> DEFINE Kept == {"close", "run", "sweep", "killed"}
<1>1. /\ names[w] # NoFile => "tmp" \in opts[w] /\ at[w] \in Kept
      /\ at \in [Writers -> Places] /\ names \in [Names -> Inodes \cup {NoFile}]
  BY TypeParts DEF LitterInv, TypeInv, ProcType, DiskType
<1>2. /\ "tmp" \in opts[w] => Unlinked(Path(w))[w] = NoFile
      /\ "tmp" \notin opts[w] => Unlinked(Path(w))[w] = names[w]
  BY PathNames
<1>3. SUFFICES names'[w] # NoFile => "tmp" \in opts[w] /\ at'[w] \in Kept
  <2>1. opts' = opts
    BY OptsKept
  <2> QED
    BY <2>1, OthersNames DEF LitterInv
<1>4. CASE Ask(w) \/ Directories(w) \/ CreateFails(w)
  BY <1>1, <1>4 DEF Ask, Directories, DirFound, DirMissing, MakeDir, MakeDirFails, StatDir,
                    CreateFails, diskVars
<1>5. CASE Remove(w) \/ CloseFails(w)
  BY <1>1, <1>2, <1>5 DEF Remove, CloseFails
<1>6. CASE Create(w)
  <2>1. at'[w] = "close"
    BY <1>1, <1>6 DEF Create, Goto
  <2>2. "tmp" \notin opts[w] => names'[w] = names[w]
    BY <1>1, <1>6, PathNames, NamesDiffer DEF Create
  <2> QED
    BY <1>1, <2>1, <2>2
<1>7. CASE Close(w) \/ Crash(w)
  BY <1>1, <1>7 DEF Close, Crash, Goto, diskVars
<1>8. CASE \E s \in Streams : Child(w, s)
  BY <1>1, <1>2, <1>8 DEF Child, KidOpen, KidWrite, KidEnds, KidFails, KidUnlinks, procVars, diskVars
<1>9. CASE ServerDone(w) \/ ClientDone(w)
  <2>1. PICK how \in {"OK", "BAD"} : Place(w, how)
    BY <1>9 DEF ServerDone, ClientDone
  <2>3. Final # w /\ Tmp(w) = w /\ w \in Names /\ Final \in Names
    BY PathNames, NamesDiffer
  <2>2. names'[w] = NoFile
    BY <1>1, <1>2, <2>1, <2>3 DEF Place
  <2> QED
    BY <2>2
<1>10. CASE ServerFails(w) \/ ServerInterrupted(w) \/ ClientSweeps(w)
  BY <1>1, <1>2, <1>10 DEF ServerFails, ServerInterrupted, ClientSweeps, SomeBad, BadInv
<1>11. CASE ServerKills(w) \/ ServerLeaves(w) \/ ClientReaps(w)
  BY <1>1, <1>11 DEF ServerKills, ServerLeaves, ClientReaps, diskVars
<1>13. CASE Drop(w)
  <2>1. Unlinked(Final)[w] = names[w]
    BY <1>1, NamesDiffer DEF Unlinked, Names
  <2> QED
    BY <1>1, <1>13, <2>1 DEF Drop
<1>12. CASE ClientFails(w)
  BY <1>1, <1>12 DEF ClientFails, Goto, diskVars
<1> QED
  BY <1>4, <1>5, <1>6, <1>7, <1>8, <1>9, <1>10, <1>11, <1>12, <1>13
     DEF Act, Creation, EndOfTransfer

\* Nobody puts a file under the temporary name while there are children.
LEMMA BadStep == ASSUME TypeInv, BadInv, NEW w \in Writers, Act(w) PROVE BadInv'
<1>1. /\ opts' = opts /\ names \in [Names -> Inodes \cup {NoFile}]
      /\ kid \in [Writers -> [Streams -> KidStates]] /\ at \in [Writers -> Places]
  BY OptsKept, TypeParts DEF TypeInv, DiskType, KidType, ProcType
<1>2. SUFFICES ASSUME "tmp" \in opts[w], NEW s \in Streams, kid'[w][s] = "bad"
               PROVE names'[w] = NoFile
  BY <1>1, OthersNames, OthersFrame DEF BadInv
<1>3. Path(w) = w /\ Unlinked(Path(w))[w] = NoFile /\ w \in Names
  BY <1>2, PathNames
<1>4. ASSUME NEW r \in Streams, Child(w, r) PROVE names'[w] = NoFile
  <2>1. CASE KidUnlinks(w, r)
    BY <1>3, <2>1 DEF KidUnlinks
  <2>2. CASE ~KidUnlinks(w, r)
    <3>1. names' = names
      BY <1>4, <2>2 DEF Child, KidOpen, KidWrite, KidEnds, KidFails, diskVars
    <3>2. kid[w][s] = "bad" \/ names[w] = NoFile
      BY <1>1, <1>2, <1>3, <1>4, <2>2 DEF Child, KidOpen, KidWrite, KidEnds, KidFails, KidGoes
    <3> QED
      BY <1>2, <3>1, <3>2 DEF BadInv
  <2> QED
    BY <2>1, <2>2
<1>5. CASE kid' = kid
  <2>1. names[w] = NoFile /\ at[w] \notin Early
    BY <1>2, <1>5 DEF BadInv, TypeInv, KidsLater
  <2>2. names'[w] = names[w] \/ names'[w] = NoFile
    <3>1. CASE ServerDone(w) \/ ClientDone(w)
      <4>1. PICK how \in {"OK", "BAD"} : Place(w, how)
        BY <3>1 DEF ServerDone, ClientDone
      <4> QED
        BY <1>1, <1>3, <2>1, <4>1, NamesDiffer DEF Place, Tmp
    <3>2. CASE Drop(w)
      BY <1>1, <1>3, <3>2, NamesDiffer DEF Drop, Unlinked
    <3>3. CASE names' = names \/ names' = Unlinked(Path(w))
      BY <1>3, <3>3
    <3> QED
      BY <1>4, <2>1, <3>1, <3>2, <3>3
      DEF Act, Ask, Directories, DirFound, DirMissing, MakeDir, MakeDirFails, StatDir, Creation, Remove,
          Create, CreateFails, Close, CloseFails, EndOfTransfer, ClientReaps, ServerFails, ServerKills,
          ServerInterrupted, ServerLeaves, ClientFails, ClientSweeps, Crash, Early, diskVars
  <2> QED
    BY <2>1, <2>2
<1>6. CASE NoKids(w) \/ Close(w)
  BY <1>1, <1>2, <1>6 DEF NoKids, Close
<1> QED
  BY <1>4, <1>5, <1>6
  DEF Act, Ask, Directories, DirFound, DirMissing, MakeDir, MakeDirFails, StatDir, Creation, Remove,
      Create, CreateFails, CloseFails, EndOfTransfer, ServerDone, ClientDone, Drop, ClientReaps,
      ServerFails, ServerKills, ServerInterrupted, ServerLeaves, ClientFails, ClientSweeps, Crash, kidVars

\* No transfer that has ended leaves its temporary file, short of a process that is
\* killed: whatever fails, in however many processes.
THEOREM NoLitterHolds == Spec => []NoLitter
<1>1. Init => LitterInv /\ BadInv
  BY NamesDiffer DEF Init, LitterInv, BadInv
<1>2. TypeInv /\ LitterInv /\ BadInv /\ [Next]_vars => LitterInv' /\ BadInv'
  <2>1. ASSUME LitterInv, BadInv, UNCHANGED vars PROVE LitterInv' /\ BadInv'
    BY <2>1 DEF LitterInv, BadInv, vars, procVars, kidVars, diskVars
  <2> QED
    BY <2>1, LitterStep, BadStep, NextIsAct
<1>3. LitterInv => NoLitter
  BY PathIsName DEF LitterInv, NoLitter
<1> QED
  BY <1>1, <1>2, <1>3, TypeInvInit, TypeInvStep, PTL DEF Spec

-----------------------------------------------------------------------------
(* What is placed is whole.                                                *)

\* Nobody else touches the path of a process: all have a path of their own, or the others
\* have not been at work since this one began.
Guarded(w) == AllTmp \/ alone[w]

\* The file under the path of a guarded process is the one it has created, and what its
\* children have written is in it.
CreatedInv(w) == at[w] = "create" => names[Path(w)] = NoFile
ClosedInv(w) == at[w] = "close" => names[Path(w)] = Own(w)
RunInv(w) ==
  at[w] = "run" =>
    \/ names[Path(w)] = Own(w)
    \/ names[Path(w)] = NoFile /\ \E s \in Streams : kid[w][s] \in {"bad", "lost"}
PathInv(w) == \A s \in Streams : kid[w][s] # "none" => names[Path(w)] \in {NoFile, Own(w)}
OpenInv(w) == \A s \in Streams : kid[w][s] \in {"open", "done"} => fd[w][s] = Own(w)
DataInv(w) == \A s \in Streams : ~Simulated(w) /\ kid[w][s] \in Acked => data[Own(w)][s] = w
FileInv(w) == /\ CreatedInv(w) /\ ClosedInv(w) /\ RunInv(w)
              /\ PathInv(w) /\ OpenInv(w) /\ DataInv(w)

\* A process that is alone: no other one can take a step but to begin a transfer.
AloneInv == \A w \in Writers : alone[w] => \A u \in Writers \ {w} : ~AtWork(u)

\* A transfer that is over, but for what is left of its children.
Ended(w) == at[w] \in {"idle", "reap", "killed"} /\ \A s \in Streams : kid[w][s] \notin {"started", "open"}

\* What the final name leads to is the file of a transfer that has ended.
Placed(inode) ==
  \E w \in Writers, t \in 1..MaxTries :
    /\ inode = <<w, t>> /\ Whole(inode, w) /\ t <= tries[w] /\ (t = tries[w] => Ended(w))

PlaceInv == /\ TypeInv /\ AloneInv
            /\ \A w \in Writers : Guarded(w) => FileInv(w)
            /\ AllTmp /\ NoSimulation /\ names[Final] # NoFile => Placed(names[Final])

\* A step of a process is a step of a process at work, or the begin of a transfer.
LEMMA AtWorkToAct ==
  ASSUME TypeInv, NEW w \in Writers, Act(w), ~Ask(w)
  PROVE AtWork(w) /\ alone' = alone
<1>1. CASE Directories(w) \/ Creation(w) \/ EndOfTransfer(w) \/ Crash(w)
  BY <1>1 DEF Directories, DirFound, DirMissing, MakeDir, MakeDirFails, StatDir,
    Creation, Remove, Create, CreateFails, Close, CloseFails,
    EndOfTransfer, ServerDone, ClientDone, Drop, ClientReaps, ServerFails, ServerKills, ServerInterrupted, ServerLeaves,
    ClientFails, ClientSweeps, Crash, AtWork, histVars
<1>2. CASE \E s \in Streams : Child(w, s)
  BY <1>2 DEF Child, KidOpen, KidWrite, KidEnds, KidFails, KidUnlinks, AtWork, KidsAlive, histVars
<1> QED
  BY <1>1, <1>2 DEF Act

\* What a guarded process writes is its own file.
LEMMA DataStep ==
  ASSUME TypeInv, NEW w \in Writers, FileInv(w), Act(w)
  PROVE \A x \in Inodes : data'[x] # data[x] =>
          x = Own(w) /\ (at[w] = "create" \/ \E s \in Streams : kid[w][s] = "open")
<1>1. data \in [Inodes -> [Streams -> Writers \cup {"hole"}]]
  BY TypeParts DEF TypeInv, DiskType
<1>2. CASE UNCHANGED data
  BY <1>2
<1>3. CASE Create(w)
  <2>1. data' = [data EXCEPT ![Own(w)] = [s \in Streams |-> "hole"]] /\ at[w] = "create"
    BY <1>3 DEF Create, FileInv, CreatedInv, Own
  <2> QED
    BY <1>1, <2>1
<1>4. ASSUME NEW s \in Streams, kid[w][s] = "open", data' = Written(w, s)
      PROVE data' = [data EXCEPT ![Own(w)][s] = w]
  BY <1>4 DEF Written, FileInv, OpenInv
<1>5. CASE \E s \in Streams : kid[w][s] = "open" /\ data' = Written(w, s)
  BY <1>1, <1>4, <1>5
<1>6. CASE Ask(w) \/ Directories(w) \/ Crash(w) \/ EndOfTransfer(w)
  BY <1>2, <1>6 DEF Ask, Directories, DirFound, DirMissing, MakeDir, MakeDirFails, StatDir, Crash,
    EndOfTransfer, ServerDone, ClientDone, Drop, ClientReaps, ServerFails, ServerKills,
    ServerInterrupted, ServerLeaves, ClientFails, ClientSweeps, diskVars
<1>7. CASE Creation(w)
  BY <1>2, <1>3, <1>7 DEF Creation, Remove, CreateFails, Close, CloseFails, diskVars
<1>8. CASE \E s \in Streams : Child(w, s)
  BY <1>2, <1>5, <1>8 DEF Child, KidOpen, KidWrite, KidEnds, KidFails, KidUnlinks, diskVars
<1> QED
  BY <1>6, <1>7, <1>8 DEF Act

\* Who is alone stays alone until another process begins a transfer, and while it is alone
\* no other one takes a step.
LEMMA AloneStep ==
  ASSUME TypeInv, AloneInv, NEW w \in Writers, Act(w)
  PROVE /\ AloneInv'
        /\ \A v \in Writers \ {w} : ~alone'[v]
<1>1. CASE Ask(w)
  <2>1. \A v \in Writers \ {w} : ~alone'[v]
    BY <1>1 DEF Ask
  <2>2. alone'[w] => \A u \in Writers \ {w} : ~AtWork(u)
    BY <1>1 DEF Ask
  <2>3. \A u \in Writers \ {w} : at'[u] = at[u] /\ kid'[u] = kid[u]
    BY OthersNames, OthersFrame
  <2> QED
    BY <2>1, <2>2, <2>3 DEF AloneInv, AtWork, KidsAlive
<1>2. CASE ~Ask(w)
  <2>1. AtWork(w) /\ alone' = alone
    BY <1>2, AtWorkToAct
  <2>2. \A v \in Writers \ {w} : ~alone[v]
    BY <2>1 DEF AloneInv
  <2>3. \A u \in Writers \ {w} : at'[u] = at[u] /\ kid'[u] = kid[u]
    BY OthersNames, OthersFrame
  <2> QED
    BY <2>1, <2>2, <2>3 DEF AloneInv, AtWork, KidsAlive
<1> QED
  BY <1>1, <1>2

\* A process that others leave alone keeps its file while they take steps.
LEMMA FileOthers ==
  ASSUME PlaceInv, NEW w \in Writers, Act(w), NEW v \in Writers \ {w}, Guarded(v)'
  PROVE FileInv(v)'
<1>1. AllTmp /\ AllTmp'
  <2>1. opts' = opts
    BY OthersNames DEF PlaceInv
  <2> QED
    BY <2>1, AloneStep DEF PlaceInv, Guarded, AllTmp
<1>2. TypeInv /\ FileInv(v) /\ FileInv(w)
  BY <1>1 DEF PlaceInv, Guarded
<1>3. /\ names'[v] = names[v] /\ at'[v] = at[v] /\ Path(v) = v /\ Path(v)' = v /\ opts' = opts
      /\ tries'[v] = tries[v] /\ kid'[v] = kid[v] /\ fd'[v] = fd[v]
  BY <1>1, <1>2, OthersNames, OthersFrame, TmpPath DEF AllTmp, Path, Tmp
<1>4. Own(v)' = Own(v)
  BY <1>3 DEF Own
<1>5. DataInv(v)'
  <2>1. ASSUME NEW s \in Streams, ~Simulated(v), kid[v][s] \in Acked PROVE data'[Own(v)][s] = v
    <3>1. at[v] # "idle"
      BY <1>2, <2>1 DEF TypeInv, KidsLater, Early, Acked
    <3>2. Own(v) \in Inodes /\ Own(v) # Own(w)
      BY <1>2, <3>1, OwnType DEF Own
    <3>3. data'[Own(v)] = data[Own(v)]
      BY <1>2, <3>2, DataStep
    <3> QED
      BY <1>2, <2>1, <3>3 DEF FileInv, DataInv
  <2> QED
    BY <1>3, <1>4, <2>1 DEF DataInv, Simulated
<1> QED
  BY <1>2, <1>3, <1>4, <1>5 DEF FileInv, CreatedInv, ClosedInv, RunInv, PathInv, OpenInv

\* Its own steps: a transfer that begins has no file and no children yet.
LEMMA FileAsk ==
  ASSUME TypeInv, NEW w \in Writers, Ask(w) \/ Directories(w) PROVE FileInv(w)'
<1>1. /\ at' = [at EXCEPT ![w] = at'[w]] /\ at'[w] \notin {"create", "close", "run"}
      /\ kid' = kid /\ at[w] \in Early
  BY TypeParts DEF TypeInv, ProcType, Ask, Directories, DirFound, DirMissing, MakeDir, MakeDirFails,
    StatDir, Descend, Ends, Goto, kidVars, Early
<1>2. \A s \in Streams : kid'[w][s] = "none"
  BY <1>1 DEF TypeInv, KidsLater
<1> QED
  BY <1>1, <1>2 DEF FileInv, CreatedInv, ClosedInv, RunInv, PathInv, OpenInv, DataInv, Acked

\* A process without children has nothing to keep, unless it creates a file or waits for
\* the children.
LEMMA FileIdle ==
  ASSUME NEW w \in Writers, at'[w] \notin {"create", "close", "run"},
         \A s \in Streams : kid'[w][s] = "none"
  PROVE FileInv(w)'
BY DEF FileInv, CreatedInv, ClosedInv, RunInv, PathInv, OpenInv, DataInv, Acked

\* The file is removed, created and closed under the same name.
LEMMA FileCreation ==
  ASSUME TypeInv, NEW w \in Writers, FileInv(w), Creation(w) PROVE FileInv(w)'
<1>1. /\ at \in [Writers -> Places] /\ kid \in [Writers -> [Streams -> KidStates]]
      /\ names \in [Names -> Inodes \cup {NoFile}] /\ Path(w) \in Names
  BY TypeParts, PathIsName DEF TypeInv, ProcType, KidType, DiskType
<1>2. opts' = opts /\ tries' = tries /\ Own(w)' = Own(w) /\ Path(w)' = Path(w)
  BY DEF Creation, Remove, Create, CreateFails, Close, CloseFails, Own, Path, Tmp
<1>3. \A s \in Streams : kid[w][s] = "none"
  BY DEF Creation, Remove, Create, CreateFails, Close, CloseFails, TypeInv, KidsLater, Early
<1>4. CASE Remove(w)
  <2>1. at'[w] = "create" /\ names'[Path(w)] = NoFile /\ kid' = kid
    BY <1>1, <1>4 DEF Remove, Goto, Unlinked, kidVars
  <2> QED
    BY <1>2, <1>3, <2>1 DEF FileInv, CreatedInv, ClosedInv, RunInv, PathInv, OpenInv, DataInv, Acked
<1>5. CASE Create(w)
  <2>1. at'[w] = "close" /\ names'[Path(w)] = Own(w) /\ kid' = kid
    BY <1>1, <1>5 DEF Create, Goto, kidVars, FileInv, CreatedInv, Own
  <2> QED
    BY <1>2, <1>3, <2>1 DEF FileInv, CreatedInv, ClosedInv, RunInv, PathInv, OpenInv, DataInv, Acked
<1>6. CASE CreateFails(w) \/ CloseFails(w)
  <2>1. at'[w] = "idle" /\ kid' = kid
    BY <1>1, <1>6 DEF CreateFails, CloseFails, Ends, Goto, kidVars
  <2> QED
    BY <1>3, <2>1, FileIdle
<1>7. CASE Close(w)
  <2>1. /\ at'[w] = "run" /\ names'[Path(w)] = Own(w)
        /\ \A s \in Streams : kid'[w][s] = "started"
    BY <1>1, <1>7 DEF Close, Goto, diskVars, FileInv, ClosedInv
  <2> QED
    BY <1>2, <2>1 DEF FileInv, CreatedInv, ClosedInv, RunInv, PathInv, OpenInv, DataInv, Acked
<1> QED
  BY <1>4, <1>5, <1>6, <1>7 DEF Creation

\* What a child opens is the file of its father, and what it writes is in it.
LEMMA FileChild ==
  ASSUME TypeInv, NEW w \in Writers, FileInv(w), NEW s \in Streams, Child(w, s)
  PROVE FileInv(w)'
<1>1. /\ at \in [Writers -> Places] /\ kid \in [Writers -> [Streams -> KidStates]]
      /\ fd \in [Writers -> [Streams -> Inodes \cup {NoFile}]]
      /\ names \in [Names -> Inodes \cup {NoFile}] /\ Path(w) \in Names
      /\ data \in [Inodes -> [Streams -> Writers \cup {"hole"}]]
  BY TypeParts, PathIsName DEF TypeInv, ProcType, KidType, DiskType
<1>2. opts' = opts /\ tries' = tries /\ at' = at /\ Own(w)' = Own(w) /\ Path(w)' = Path(w)
  BY DEF Child, KidOpen, KidWrite, KidEnds, KidFails, KidUnlinks, Own, Path, Tmp, procVars
<1>3. kid[w][s] # "none" /\ at[w] \notin Early /\ Own(w) \in Inodes
  <2>1. kid[w][s] # "none"
    BY DEF Child, KidOpen, KidWrite, KidEnds, KidFails, KidUnlinks
  <2>2. at[w] \notin Early
    BY <2>1 DEF TypeInv, KidsLater
  <2> QED
    BY <2>1, <2>2, OwnType DEF Early
<1>4. names[Path(w)] \in {NoFile, Own(w)}
  BY <1>3 DEF FileInv, PathInv
<1>5. CreatedInv(w)' /\ ClosedInv(w)'
  BY <1>2, <1>3 DEF CreatedInv, ClosedInv, Early
<1>6. names'[Path(w)] = names[Path(w)] \/ names'[Path(w)] = NoFile
  BY <1>1 DEF Child, KidOpen, KidWrite, KidEnds, KidFails, KidUnlinks, Unlinked, diskVars
<1>7. PathInv(w)'
  BY <1>2, <1>4, <1>6 DEF PathInv
<1>8. \A r \in Streams \ {s} : kid'[w][r] = kid[w][r] /\ fd'[w][r] = fd[w][r]
  BY <1>1 DEF Child, KidOpen, KidWrite, KidEnds, KidFails, KidUnlinks, KidGoes, KidCloses
<1>9. RunInv(w)'
  <2>1. CASE names'[Path(w)] = names[Path(w)]
    <3>1. kid[w][s] \notin {"bad", "lost"}
      BY DEF Child, KidOpen, KidWrite, KidEnds, KidFails, KidUnlinks
    <3> QED
      BY <1>2, <1>8, <2>1, <3>1 DEF RunInv, FileInv
  <2>2. CASE names'[Path(w)] # names[Path(w)]
    <3>1. KidUnlinks(w, s)
      BY <2>2 DEF Child, KidOpen, KidWrite, KidEnds, KidFails, diskVars
    <3>2. kid'[w][s] \in {"bad", "lost"} /\ names'[Path(w)] = NoFile
      BY <1>1, <3>1 DEF KidUnlinks, KidGoes, Unlinked
    <3> QED
      BY <1>2, <3>2 DEF RunInv
  <2> QED
    BY <2>1, <2>2
<1>10. OpenInv(w)'
  <2>1. kid'[w][s] \in {"open", "done"} => fd'[w][s] = Own(w)
    <3>1. CASE KidOpen(w, s)
      BY <1>1, <1>4, <3>1 DEF KidOpen, KidGoes
    <3>2. CASE KidWrite(w, s)
      BY <1>1, <3>2 DEF KidWrite, KidGoes, KidCloses, FileInv, OpenInv
    <3>3. CASE KidEnds(w, s) \/ KidFails(w, s) \/ KidUnlinks(w, s)
      BY <1>1, <3>3 DEF KidEnds, KidFails, KidUnlinks, KidGoes
    <3> QED
      BY <3>1, <3>2, <3>3 DEF Child
  <2> QED
    BY <1>2, <1>8, <2>1 DEF FileInv, OpenInv
<1>11. DataInv(w)'
  <2>0. Simulated(w)' = Simulated(w)
    BY <1>2 DEF Simulated
  <2>1. CASE data' = Written(w, s) /\ kid[w][s] = "open"
    <3>1. data' = [data EXCEPT ![Own(w)][s] = w]
      BY <2>1 DEF Written, FileInv, OpenInv
    <3>2. data'[Own(w)][s] = w /\ \A r \in Streams \ {s} : data'[Own(w)][r] = data[Own(w)][r]
      BY <1>1, <1>3, <3>1
    <3> QED
      BY <1>2, <1>8, <2>0, <3>2 DEF FileInv, DataInv
  <2>2. CASE data' = data /\ (~Simulated(w) => ~KidWrite(w, s))
    <3>2. ~Simulated(w) /\ kid'[w][s] \in Acked => kid[w][s] \in Acked
      BY <1>1, <2>2 DEF Child, KidOpen, KidEnds, KidFails, KidUnlinks, KidGoes, Acked
    <3> QED
      BY <1>2, <1>8, <2>0, <2>2, <3>2 DEF FileInv, DataInv
  <2> QED
    BY <2>1, <2>2 DEF Child, KidOpen, KidWrite, KidEnds, KidFails, KidUnlinks, diskVars
<1> QED
  BY <1>5, <1>7, <1>9, <1>10, <1>11 DEF FileInv

\* A transfer that ends, or is killed, no longer waits for its file.
LEMMA FileEnd ==
  ASSUME TypeInv, NEW w \in Writers, FileInv(w), EndOfTransfer(w) \/ Crash(w) PROVE FileInv(w)'
<1>1. /\ at \in [Writers -> Places] /\ kid \in [Writers -> [Streams -> KidStates]]
      /\ names \in [Names -> Inodes \cup {NoFile}] /\ Path(w) \in Names
  BY TypeParts, PathIsName DEF TypeInv, ProcType, KidType, DiskType
<1>2. at'[w] \notin {"create", "close", "run"}
  BY <1>1 DEF EndOfTransfer, ServerDone, ClientDone, Drop, ClientReaps, Place, ServerFails, ServerKills, ServerInterrupted,
    ServerLeaves, ClientFails, ClientSweeps, Crash, Ends, Goto
<1>3. CASE NoKids(w)
  BY <1>1, <1>2, <1>3, FileIdle DEF NoKids
<1>4. CASE ClientDone(w) \/ Drop(w) \/ ServerFails(w) \/ ServerInterrupted(w) \/ ClientSweeps(w)
           \/ Crash(w)
  <2>1. /\ opts' = opts /\ tries' = tries /\ Own(w)' = Own(w) /\ Path(w)' = Path(w)
        /\ kid' = kid /\ fd' = fd /\ data' = data
    BY <1>4 DEF ClientDone, Drop, ServerFails, ServerInterrupted, ClientSweeps, Crash, Own, Path, Tmp,
                kidVars, diskVars
  <2>2. names'[Path(w)] = names[Path(w)] \/ names'[Path(w)] = NoFile
    <3>1. CASE ClientDone(w)
      <4>1. PICK how \in {"OK", "BAD"} : Place(w, how)
        BY <3>1 DEF ClientDone
      <4> QED
        BY <1>1, <4>1, PathNames, NamesDiffer DEF Place
    <3>2. CASE Drop(w)
      BY <1>1, <3>2, PathNames, NamesDiffer DEF Drop, Unlinked
    <3>3. CASE ~ClientDone(w) /\ ~Drop(w)
      BY <1>1, <1>4, <3>3 DEF ServerFails, ServerInterrupted, ClientSweeps, Crash, Unlinked, diskVars
    <3> QED
      BY <3>1, <3>2, <3>3
  <2>3. Simulated(w)' = Simulated(w)
    BY <2>1 DEF Simulated
  <2> QED
    BY <1>2, <2>1, <2>2, <2>3 DEF FileInv, CreatedInv, ClosedInv, RunInv, PathInv, OpenInv, DataInv
<1> QED
  BY <1>3, <1>4 DEF EndOfTransfer, ServerDone, ClientReaps, ServerKills, ServerLeaves, ClientFails

\* Every guarded process keeps the invariant of its file in every step.
LEMMA FileStep ==
  ASSUME PlaceInv, NEW w \in Writers, Act(w), NEW v \in Writers, Guarded(v)'
  PROVE FileInv(v)'
<1>1. CASE v # w
  BY <1>1, FileOthers
<1>2. CASE v = w /\ (Ask(w) \/ Directories(w))
  BY <1>2, FileAsk DEF PlaceInv
<1>3. CASE v = w /\ ~Ask(w) /\ ~Directories(w)
  <2>1. alone' = alone /\ opts' = opts
    BY <1>3, AtWorkToAct, OptsKept DEF PlaceInv
  <2>2. FileInv(w)
    BY <1>3, <2>1 DEF PlaceInv, Guarded, AllTmp
  <2> QED
    BY <1>3, <2>2, FileCreation, FileChild, FileEnd DEF PlaceInv, Act
<1> QED
  BY <1>1, <1>2, <1>3

\* When a guarded process reports OK of a real transfer, its own file is complete: if it is
\* still there under the path, which it is if no child has unlinked it.
LEMMA DoneIsWhole ==
  ASSUME TypeInv, NEW w \in Writers, FileInv(w), ServerDone(w) \/ ClientDone(w), ~Simulated(w)
  PROVE /\ Whole(Own(w), w) /\ Own(w) \in Inodes /\ Own(w) # NoFile
        /\ names[Path(w)] = Own(w) \/ (names[Path(w)] = NoFile /\ SomeLost(w))
        /\ data' = data /\ tries' = tries
        /\ \A s \in Streams : kid[w][s] \in Acked
<1>1. /\ at[w] = "run" /\ data' = data /\ tries' = tries
      /\ \A s \in Streams : kid[w][s] \in Acked
  BY DEF ServerDone, ClientDone, AllCollected, Acked
<1>2. Whole(Own(w), w)
  BY <1>1 DEF FileInv, DataInv, Whole
<1>3. Own(w) \in Inodes
  BY <1>1, OwnType
<1>4. names[Path(w)] = Own(w) \/ (names[Path(w)] = NoFile /\ SomeLost(w))
  BY <1>1 DEF FileInv, RunInv, SomeLost, Acked
<1> QED
  BY <1>1, <1>2, <1>3, <1>4, NoFileIsNoInode

\* A transfer that is over stays so until the process begins another one.
LEMMA EndedStays ==
  ASSUME TypeInv, NEW w \in Writers, Act(w), ~Ask(w), Ended(w) PROVE Ended(w)'
<1>1. at \in [Writers -> Places] /\ kid \in [Writers -> [Streams -> KidStates]]
  BY TypeParts DEF TypeInv, ProcType, KidType
<1>2. CASE ClientReaps(w)
  BY <1>1, <1>2 DEF ClientReaps, Goto, NoKids, Ended
<1>3. CASE Crash(w)
  BY <1>1, <1>3 DEF Crash, Goto, kidVars, Ended
<1>4. ASSUME NEW s \in Streams, Child(w, s) PROVE Ended(w)'
  <2>1. at' = at /\ \E k \in KidStates \ {"started", "open"} : kid' = [kid EXCEPT ![w][s] = k]
    BY <1>4 DEF Child, KidOpen, KidWrite, KidEnds, KidFails, KidUnlinks, KidGoes, KidStates, procVars,
                Ended
  <2> QED
    BY <1>1, <2>1 DEF Ended
<1> QED
  BY <1>2, <1>3, <1>4
  DEF Act, Directories, DirFound, DirMissing, MakeDir, MakeDirFails, StatDir, Creation, Remove, Create,
      CreateFails, Close, CloseFails, EndOfTransfer, ServerDone, ClientDone, Drop, ServerFails,
      ServerKills, ServerInterrupted, ServerLeaves, ClientFails, ClientSweeps, Ended

\* A target that has been placed is not written again.
LEMMA PlacedStays ==
  ASSUME PlaceInv, AllTmp, NEW w \in Writers, Act(w), NEW x \in Inodes, Placed(x)
  PROVE Placed(x)'
<1>1. PICK v \in Writers, t \in 1..MaxTries :
        /\ x = <<v, t>> /\ Whole(x, v) /\ t <= tries[v] /\ (t = tries[v] => Ended(v))
  BY DEF Placed
<1>2. TypeInv /\ FileInv(w) /\ tries \in [Writers -> 0..MaxTries] /\ at \in [Writers -> Places]
  BY TypeParts DEF PlaceInv, Guarded, TypeInv, ProcType
<1>3. Whole(x, v)'
  <2>1. data'[x] = data[x]
    <3>1. SUFFICES ASSUME data'[x] # data[x] PROVE FALSE
      OBVIOUS
    <3>2. x = Own(w) /\ (at[w] = "create" \/ \E s \in Streams : kid[w][s] = "open")
      BY <1>2, <3>1, DataStep
    <3> QED
      BY <1>1, <3>2 DEF Own, Ended
  <2> QED
    BY <1>1, <2>1 DEF Whole
<1>4. t <= tries'[v] /\ (t = tries'[v] => Ended(v)')
  <2>1. CASE v # w
    BY <1>1, <1>2, <2>1, OthersFrame, OthersNames DEF Ended
  <2>2. CASE v = w /\ Ask(w)
    <3>1. tries'[v] = tries[v] + 1
      BY <1>2, <2>2 DEF Ask
    <3>2. tries[v] \in Nat /\ t \in Nat
      BY <1>1, <1>2, SizesAssumption
    <3> QED
      BY <1>1, <3>1, <3>2
  <2>3. CASE v = w /\ ~Ask(w)
    <3>1. tries' = tries
      BY <2>3, OptsKept
    <3>2. Ended(w) => Ended(w)'
      BY <1>2, <2>3, EndedStays
    <3> QED
      BY <1>1, <2>3, <3>1, <3>2
  <2> QED
    BY <2>1, <2>2, <2>3
<1> QED
  BY <1>1, <1>3, <1>4 DEF Placed

\* At the start nothing is placed.
LEMMA PlaceInit == Init => PlaceInv
<1> SUFFICES ASSUME Init PROVE PlaceInv
  OBVIOUS
<1>1. TypeInv /\ AloneInv
  BY TypeInvInit DEF Init, AloneInv
<1>2. \A w \in Writers : FileInv(w)
  BY DEF Init, FileInv, CreatedInv, ClosedInv, RunInv, PathInv, OpenInv, DataInv, Acked
<1>3. names[Final] = NoFile
  BY NamesDiffer DEF Init
<1> QED
  BY <1>1, <1>2, <1>3 DEF PlaceInv

\* The step of a process leaves the files placed by the others, and places its own.
LEMMA PlaceStep == ASSUME PlaceInv, NEW w \in Writers, Act(w) PROVE PlaceInv'
<1>1. TypeInv'
  BY TypeAsk, TypeDirectories, TypeCreation, TypeChild, TypeEnd, TypeCrash, EarlyStep, DropStep
  DEF PlaceInv, Act, TypeInv
<1>2. AloneInv'
  BY AloneStep DEF PlaceInv
<1>3. \A v \in Writers : Guarded(v)' => FileInv(v)'
  BY FileStep
<1>4. ASSUME AllTmp', NoSimulation', names'[Final] # NoFile PROVE Placed(names[Final])'
  <2>1. /\ AllTmp /\ NoSimulation /\ TypeInv /\ FileInv(w)
        /\ names \in [Names -> Inodes \cup {NoFile}] /\ Final \in Names
    BY <1>4, OptsKept, TypeParts, NamesDiffer
    DEF PlaceInv, Guarded, TypeInv, DiskType, AllTmp, NoSimulation, Simulated
  <2>2. CASE names'[Final] = names[Final]
    <3>1. names[Final] \in Inodes /\ Placed(names[Final])
      BY <1>4, <2>1, <2>2 DEF PlaceInv
    <3> QED
      BY <2>1, <2>2, <3>1, PlacedStays
  <2>3. CASE names'[Final] # names[Final]
    <3>1. /\ names'[Final] = names[w] /\ names[w] # NoFile
          /\ (ServerDone(w) \/ ClientDone(w)) /\ ~Simulated(w) /\ Path(w) = w
      BY <2>1, <2>3, NamesStep, TmpPath DEF NoSimulation, TypeInv, DropInv, Drop
    <3>2. /\ Whole(Own(w), w) /\ names'[Final] = Own(w) /\ Own(w) \in Inodes
          /\ data' = data /\ tries' = tries /\ \A s \in Streams : kid[w][s] \in Acked
      BY <2>1, <3>1, DoneIsWhole
    <3>3. Ended(w)'
      <4>1. at \in [Writers -> Places] /\ kid \in [Writers -> [Streams -> KidStates]]
        BY <2>1, TypeParts DEF TypeInv, ProcType, KidType
      <4>2. at'[w] \in {"idle", "reap"}
        BY <3>1, <4>1 DEF ServerDone, ClientDone, Goto
      <4>3. \A s \in Streams : kid'[w][s] \in Acked \cup {"none"}
        BY <3>1, <3>2, <4>1 DEF ServerDone, ClientDone, NoKids, kidVars
      <4> QED
        BY <4>2, <4>3 DEF Ended, Acked
    <3>4. tries[w] \in 1..MaxTries /\ tries'[w] = tries[w]
      BY <3>2 DEF Own, Inodes
    <3>5. Whole(Own(w), w)'
      BY <3>2 DEF Whole, Own
    <3>6. Own(w)' = Own(w) /\ Own(w) = <<w, tries[w]>>
      BY <3>2 DEF Own
    <3>7. tries[w] <= tries'[w]
      BY <3>4, SizesAssumption
    <3> QED
      BY <3>2, <3>3, <3>4, <3>5, <3>6, <3>7 DEF Placed
  <2> QED
    BY <2>2, <2>3
<1> QED
  BY <1>1, <1>2, <1>3, <1>4 DEF PlaceInv

\* What is true of the placed files stays true in every step of the system.
LEMMA PlaceNext == PlaceInv /\ [Next]_vars => PlaceInv'
<1>1. ASSUME PlaceInv, UNCHANGED vars PROVE PlaceInv'
  BY <1>1, TypeInvStep
  DEF PlaceInv, vars, procVars, kidVars, diskVars, histVars, AloneInv, AtWork, KidsAlive, Guarded, AllTmp,
      NoSimulation, Simulated, FileInv, CreatedInv, ClosedInv, RunInv, PathInv, OpenInv, DataInv,
      Own, Path, Tmp, Placed, Ended, Whole
<1> QED
  BY <1>1, PlaceStep, NextIsAct

\* Where every process uses a temporary file and none simulates, the name of the target
\* leads to a complete file of one of them, whatever is interleaved, fails or is killed.
THEOREM FinalWholeHolds == Spec => []FinalWhole
<1>1. PlaceInv => FinalWhole
  BY DEF PlaceInv, FinalWhole, Placed
<1> QED
  BY <1>1, PlaceInit, PlaceNext, PTL DEF Spec

\* A process that reports OK of a real transfer has put its own, complete file at the target.
LEMMA OkStep ==
  ASSUME PlaceInv, NEW u \in Writers, Act(u), NEW w \in Writers,
         answer[w] = "none", answer'[w] = "OK", ~Simulated(w), AllTmp \/ (alone[w] /\ ~SomeLost(w))
  PROVE names'[Final] # NoFile /\ Whole(names'[Final], w)
<1>1. TypeInv /\ FileInv(w) /\ answer \in [Writers -> {"none", "OK", "BAD", "nodir"}]
  BY TypeParts DEF PlaceInv, Guarded, TypeInv, ProcType
<1>2. w = u /\ (ServerDone(w) \/ ClientDone(w)) /\ Place(w, "OK")
  <2>1. CASE ServerDone(u) \/ ClientDone(u)
    <3>1. PICK how \in {"OK", "BAD"} : Place(u, how)
      BY <2>1 DEF ServerDone, ClientDone
    <3>2. answer' = [answer EXCEPT ![u] = how]
      BY <3>1 DEF Place
    <3> QED
      BY <1>1, <2>1, <3>1, <3>2
  <2>2. CASE answer' = answer \/ \E how \in {"none", "BAD", "nodir"} : answer' = [answer EXCEPT ![u] = how]
    BY <1>1, <2>2
  <2>3. CASE Ask(u) \/ Directories(u) \/ Creation(u)
    BY <2>2, <2>3 DEF Ask, Directories, DirFound, DirMissing, MakeDir, MakeDirFails, StatDir,
      Creation, Remove, Create, CreateFails, Close, CloseFails, Ends
  <2>4. CASE (\E s \in Streams : Child(u, s)) \/ Crash(u)
    BY <2>2, <2>4 DEF Child, KidOpen, KidWrite, KidEnds, KidFails, KidUnlinks, Crash, procVars
  <2>5. CASE EndOfTransfer(u)
    BY <2>1, <2>2, <2>5 DEF EndOfTransfer, Drop, ClientReaps, ServerFails, ServerKills,
      ServerInterrupted, ServerLeaves, ClientFails, ClientSweeps, Ends
  <2> QED
    BY <2>3, <2>4, <2>5 DEF Act
<1>3. /\ Whole(Own(w), w) /\ Own(w) # NoFile /\ data' = data
      /\ names[Path(w)] = Own(w) \/ (names[Path(w)] = NoFile /\ SomeLost(w))
  BY <1>1, <1>2, DoneIsWhole
<1>4. names'[Final] = Own(w)
  <2>1. names \in [Names -> Inodes \cup {NoFile}] /\ Final # w
    BY <1>1, TypeParts, NamesDiffer DEF TypeInv, DiskType
  <2>2. CASE "tmp" \in opts[w]
    BY <1>1, <1>2, <1>3, <2>1, <2>2, PathNames DEF Place
  <2>3. CASE "tmp" \notin opts[w]
    BY <1>1, <1>2, <1>3, <2>3, PathNames DEF Place, AllTmp
  <2> QED
    BY <2>2, <2>3
<1>5. Whole(names'[Final], w)
  BY <1>3, <1>4
<1> QED
  BY <1>3, <1>4, <1>5

\* A real transfer that is reported OK is at its target, complete, if all processes use
\* temporary files; or if no other one was at work since it began and no child of the client
\* has failed to close the file after its MSG_ACK.
THEOREM OkMeansPlacedHolds == Spec => OkMeansPlaced
<1>1. ASSUME PlaceInv, [Next]_vars, NEW w \in Writers,
             answer[w] = "none", answer'[w] = "OK", ~Simulated(w), AllTmp \/ (alone[w] /\ ~SomeLost(w))
      PROVE names'[Final] # NoFile /\ Whole(names'[Final], w)
  <2>1. PICK u \in Writers : Act(u)
    BY <1>1, NextIsAct DEF vars, procVars
  <2> QED
    BY <1>1, <2>1, OkStep
<1>2. PlaceInv /\ [Next]_vars =>
        [\A w \in Writers :
           /\ answer[w] = "none" /\ answer'[w] = "OK" /\ ~Simulated(w)
           /\ AllTmp \/ (alone[w] /\ ~SomeLost(w))
           => names'[Final] # NoFile /\ Whole(names'[Final], w)]_vars
  BY <1>1
<1> QED
  BY <1>2, PlaceInit, PlaceNext, PTL DEF Spec, OkMeansPlaced

-----------------------------------------------------------------------------
(* Directories.                                                            *)

\* A process that looks for a directory which is not there had no room for it: one that
\* another process has made in between stays.
DirsInv ==
  /\ noRoom \in [Writers -> BOOLEAN]
  /\ \A w \in Writers : at[w] = "stat" /\ depth < level[w] => noRoom[w]
  /\ DirsAreShared

\* The steps that concern a directory.
LEMMA DirsDirectories ==
  ASSUME TypeInv, DirsInv, NEW w \in Writers, Directories(w) \/ Ask(w) PROVE DirsInv'
<1>0. ProcType /\ DiskType /\ opts' = opts /\ (\A v \in Writers : level[v] \in Nat) /\ depth \in Nat
  BY TypeParts, SizesAssumption
     DEF TypeInv, ProcType, DiskType, Directories, DirFound, DirMissing, MakeDir, MakeDirFails,
         StatDir, Ask
<1>1. CASE Ask(w)
  BY <1>0, <1>1 DEF Ask, Goto, diskVars, DirsInv, DirsAreShared, ProcType
<1>2. CASE DirFound(w)
  BY <1>0, <1>2 DEF DirFound, Goto, diskVars, histVars, DirsInv, DirsAreShared, ProcType
<1>3. CASE DirMissing(w)
  BY <1>0, <1>3 DEF DirMissing, Goto, Ends, diskVars, histVars, DirsInv, DirsAreShared, ProcType
<1>4. CASE MakeDir(w)
  <2>1. /\ depth' = level[w] /\ depth < level[w] /\ UNCHANGED <<noRoom, answer>>
        /\ \A v \in Writers \ {w} : at'[v] = at[v] /\ level'[v] = level[v]
        /\ at'[w] \in {"mkdir", "remove"}
    BY <1>0, <1>4 DEF MakeDir, Descend, Goto, histVars, ProcType
  <2>2. ASSUME NEW v \in Writers, at'[v] = "stat", depth' < level'[v] PROVE noRoom'[v]
    <3>1. v # w /\ at[v] = "stat" /\ level[v] = level'[v]
      BY <2>1, <2>2
    <3>2. depth < level[v]
      BY <1>0, <2>1, <2>2, <3>1
    <3> QED
      BY <2>1, <3>1, <3>2 DEF DirsInv
  <2> QED
    BY <1>0, <2>1, <2>2 DEF DirsInv, DirsAreShared
<1>5. CASE MakeDirFails(w)
  <2>1. /\ UNCHANGED <<opts, depth, level, answer>> /\ depth \in Nat
        /\ \A v \in Writers \ {w} : at'[v] = at[v]
    BY <1>0, <1>5 DEF MakeDirFails, Goto, diskVars, ProcType
  <2>2. CASE depth >= level[w] /\ UNCHANGED noRoom
    <3>1. ~(depth < level[w])
      BY <1>0, <2>2
    <3> QED
      BY <2>1, <2>2, <3>1 DEF DirsInv, DirsAreShared
  <2>3. CASE noRoom' = [noRoom EXCEPT ![w] = TRUE]
    <3>1. noRoom' \in [Writers -> BOOLEAN] /\ noRoom'[w] /\ \A v \in Writers \ {w} : noRoom'[v] = noRoom[v]
      BY <2>3 DEF DirsInv
    <3> QED
      BY <2>1, <3>1 DEF DirsInv, DirsAreShared
  <2> QED
    BY <1>5, <2>2, <2>3 DEF MakeDirFails
<1>6. CASE StatDir(w)
  <2>1. /\ UNCHANGED <<depth, noRoom>> /\ at[w] = "stat" /\ at'[w] # "stat"
        /\ \A v \in Writers \ {w} : at'[v] = at[v] /\ level'[v] = level[v] /\ answer'[v] = answer[v]
        /\ answer'[w] = answer[w] \/ depth < level[w]
    BY <1>0, <1>6 DEF StatDir, Descend, Ends, Goto, diskVars, histVars, ProcType
  <2> QED
    BY <1>0, <2>1 DEF DirsInv, DirsAreShared
<1> QED
  BY <1>1, <1>2, <1>3, <1>4, <1>5, <1>6 DEF Directories

\* No other step of a process concerns one.
LEMMA DirsOthers ==
  ASSUME TypeInv, DirsInv, NEW w \in Writers,
         \/ Creation(w) \/ Crash(w) \/ EndOfTransfer(w)
         \/ \E s \in Streams : Child(w, s)
  PROVE  DirsInv'
<1>0. ProcType
  BY TypeParts DEF TypeInv
<1>1. /\ UNCHANGED <<opts, level, depth, noRoom>>
      /\ \A v \in Writers : at'[v] = "stat" => at[v] = "stat"
      /\ \A v \in Writers : answer'[v] = "nodir" => answer[v] = "nodir"
  <2>1. CASE Creation(w)
    BY <1>0, <2>1 DEF Creation, Remove, Create, CreateFails, Close, CloseFails, Goto, Ends, diskVars,
                      histVars, ProcType
  <2>2. CASE Crash(w)
    BY <1>0, <2>2 DEF Crash, Goto, diskVars, histVars, ProcType
  <2>3. CASE \E s \in Streams : Child(w, s)
    BY <2>3 DEF Child, KidOpen, KidWrite, KidEnds, KidFails, KidUnlinks, procVars, diskVars, histVars
  <2>4. CASE ServerDone(w) \/ ClientDone(w)
    BY <1>0, <2>4 DEF ServerDone, ClientDone, Place, Goto, histVars, ProcType
  <2>5. CASE ServerFails(w) \/ ServerKills(w) \/ ServerInterrupted(w) \/ ServerLeaves(w)
    BY <1>0, <2>5 DEF ServerFails, ServerKills, ServerInterrupted, ServerLeaves, Ends, Goto, diskVars,
                      histVars, ProcType
  <2>6. CASE ClientFails(w) \/ ClientSweeps(w) \/ Drop(w) \/ ClientReaps(w)
    BY <1>0, <2>6 DEF ClientFails, ClientSweeps, Drop, ClientReaps, Ends, Goto, diskVars, histVars, ProcType
  <2> QED
    BY <2>1, <2>2, <2>3, <2>4, <2>5, <2>6 DEF EndOfTransfer
<1> QED
  BY <1>1 DEF DirsInv, DirsAreShared

LEMMA DirsInit == Init => DirsInv
BY DEF Init, DirsInv, DirsAreShared

LEMMA DirsNext == TypeInv /\ DirsInv /\ [Next]_vars => DirsInv'
<1>1. ASSUME TypeInv, DirsInv, NEW w \in Writers, Act(w) PROVE DirsInv'
  BY <1>1, DirsDirectories, DirsOthers DEF Act
<1>2. ASSUME DirsInv, UNCHANGED vars PROVE DirsInv'
  BY <1>2 DEF DirsInv, DirsAreShared, vars, procVars, diskVars, histVars
<1> QED
  BY <1>1, <1>2, NextIsAct

\* A process that may make directories is refused for want of one only if the disk had no
\* room for it, however many processes make the same directories at the same time.
THEOREM DirsAreSharedHolds == Spec => []DirsAreShared
<1>1. DirsInv => DirsAreShared
  BY DEF DirsInv
<1> QED
  BY <1>1, TypeInvInit, TypeInvStep, DirsInit, DirsNext, PTL DEF Spec
=============================================================================
