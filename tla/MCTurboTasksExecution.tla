------------------------ MODULE MCTurboTasksExecution ------------------------
(***************************************************************************)
(* A program of three tasks for TurboTasksExecution.  leaf returns the     *)
(* State, and fails when it is 2.  root resolves leaf and passes it to     *)
(* mid, which reads it as a ResolvedVc and returns it.  When mid gives 0,  *)
(* root reads leaf as well.                                                *)
(***************************************************************************)
EXTENDS TurboTasksExecution

CONSTANTS leaf, mid, root

MCTask == {leaf, mid, root}
MCValue == 0..2

access_to(h, t) == [how |-> h, task |-> t]

MCNextRead(t, values) ==
    LET n == Len(values)
    IN  IF t = leaf THEN access_to(IF n = 0 THEN "get" ELSE "return", leaf)
        ELSE IF t = mid THEN access_to(IF n = 0 THEN "read" ELSE "return", leaf)
        ELSE IF n = 0 THEN access_to("resolve", leaf)
        ELSE IF n = 1 THEN access_to("await", mid)
        ELSE access_to(IF n = 2 /\ values[2] = 0 THEN "await" ELSE "return", leaf)

MCCompute(t, values) ==
    IF values = <<>> \/ values[Len(values)] \in {Err, Ok} THEN Err
    ELSE IF t = leaf /\ values[1] = 2 THEN Err
    ELSE values[Len(values)]
=============================================================================
