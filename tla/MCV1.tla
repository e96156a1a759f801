-------------------------------- MODULE MCV1 --------------------------------
(* Model checking of V1: everything may fail, but the start of the children *)
(* takes less than STARTCHILDTO and none is killed before it has been told  *)
(* to start.                                                                *)
EXTENDS V1

StartsWell == AllFaults \ {"slow", "earlykill"}
=============================================================================
