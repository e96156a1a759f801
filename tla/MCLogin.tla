------------------------------ MODULE MCLogin ------------------------------
(* Instances of Login.tla: a host with two addresses, of which mostly only  *)
(* the second answers.                                                      *)
EXTENDS Login

Plain == [via |-> "password", ssl |-> TRUE, force |-> FALSE, pam |-> FALSE, cred |-> "good",
          ask |-> FALSE, gone |-> FALSE, cmin |-> 2, cmax |-> 3, smin |-> 1, smax |-> 3,
          alive |-> {2}]

ManySettings ==
  {Plain,
   [Plain EXCEPT !.ssl = FALSE], [Plain EXCEPT !.ssl = FALSE, !.force = TRUE],
   [Plain EXCEPT !.cred = "wrong"], [Plain EXCEPT !.cred = "wrong", !.pam = TRUE],
   [Plain EXCEPT !.cred = "unknown", !.ssl = FALSE],
   [Plain EXCEPT !.cmax = 2], [Plain EXCEPT !.smax = 2], [Plain EXCEPT !.smax = 1],
   [Plain EXCEPT !.cmax = 2, !.smin = 3],
   [Plain EXCEPT !.via = "ssh"], [Plain EXCEPT !.via = "ssh", !.ask = TRUE],
   [Plain EXCEPT !.alive = {}], [Plain EXCEPT !.via = "ssh", !.alive = {}],
   [Plain EXCEPT !.via = "status"], [Plain EXCEPT !.via = "status", !.alive = {1}]}

DirectoryGone == {[Plain EXCEPT !.gone = TRUE, !.alive = {1, 2}]}
JustLost == {"lost"}
=============================================================================
