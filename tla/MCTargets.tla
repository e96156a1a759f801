------------------------------ MODULE MCTargets ------------------------------
(* Two processes at one target: a session of the server and a client.       *)
EXTENDS Targets
CONSTANTS p, g

PutAndGet == [w \in {p, g} |-> IF w = p THEN "server" ELSE "client"]
TmpOrPlain == {{"tmp", "dir"}, {}}
RealOrSimulated == TmpOrPlain \cup {{"tmp", "dir", "sim"}}
=============================================================================
