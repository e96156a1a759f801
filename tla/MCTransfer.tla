----------------------------- MODULE MCTransfer -----------------------------
(* Model checking of Transfer: the fault sets of the runs, named for what   *)
(* goes wrong in them.                                                      *)
EXTENDS Transfer

Both == {"store", "retr"}
NoSimulation == {FALSE}
RealOrSimulated == BOOLEAN

\* Once all children are started a stream or a child may fail, the target
\* cannot be created, or its options cannot be applied.
StreamFaults == {"data", "kill", "options", "create"}

\* The client breaks the protocol, gives up, or goes away; a reply or the data
\* sockets fail.
SessionFaults == {"abort", "invalid", "disconnect", "idle", "reply", "listen"}

StreamAndSessionFaults == StreamFaults \cup SessionFaults

\* A start fails half-way as well, because a child cannot be forked.
StartAndSessionFaults == StreamAndSessionFaults \cup {"fork"}

\* All but those of the start itself, where children may end too early or not be recorded.
StartedFaults == StreamAndSessionFaults \cup {"malloc"}

\* All of them, but for a start that needs more than 20 s.
ManyFaults == AllFaults \ {"slow"}
=============================================================================
