------------------------------ MODULE MCClient ------------------------------
(* Model checking of Client: the fault sets of its runs.                    *)
EXTENDS Client

AllKinds == {"put", "get", "other"}

=============================================================================
