----------------------------- MODULE AtomicStore -----------------------------
(***************************************************************************)
(* What a bbftpd session promises the client of one destination file, seen *)
(* from the control connection: every request gets at most one final       *)
(* answer, the destination changes only from the file that was there to    *)
(* the complete new one, and it does so in the very step that answers      *)
(* MSG_OK.  A client that loses the connection before the answer does not  *)
(* know which of the two files it left behind.                             *)
(*                                                                         *)
(* Transfer implements this module when files are stored under a temporary *)
(* name (TROPT_TMP), see Transfer!AtomicStoreImplemented.                  *)
(***************************************************************************)
VARIABLES
  phase,    \* "idle", "asked", "answered", "closed"
  wanted,   \* the kind of the last request: "store", "retr" ("none" before)
  answer,   \* its final answer: "none", "OK", "BAD"
  dest      \* the destination: "absent", "old", or "new" (by this request)

vars == <<phase, wanted, answer, dest>>

Init ==
  /\ phase = "idle" /\ wanted = "none" /\ answer = "none"
  /\ dest \in {"absent", "old"}

Ask ==
  /\ phase \in {"idle", "answered"}
  /\ phase' = "asked" /\ answer' = "none" /\ wanted' \in {"store", "retr"}
  /\ dest' = IF dest = "new" THEN "old" ELSE dest

Deliver ==
  /\ phase = "asked"
  /\ phase' = "answered" /\ answer' = "OK"
  /\ dest' = IF wanted = "store" THEN "new" ELSE dest
  /\ UNCHANGED wanted

Refuse ==
  /\ phase = "asked"
  /\ phase' = "answered" /\ answer' = "BAD"
  /\ UNCHANGED <<wanted, dest>>

\* An aborted request, or the retrieval of an empty file.
Withdraw ==
  /\ phase = "asked" /\ phase' = "idle"
  /\ UNCHANGED <<wanted, answer, dest>>

\* The session ends; a store whose answer was lost may have taken effect.
Close ==
  /\ phase # "closed" /\ phase' = "closed"
  /\ dest' \in IF phase = "asked" /\ wanted = "store" THEN {dest, "new"} ELSE {dest}
  /\ UNCHANGED <<wanted, answer>>

Next == Ask \/ Deliver \/ Refuse \/ Withdraw \/ Close

Spec == Init /\ [][Next]_vars
=============================================================================
