------------------------ MODULE MCTelemetryPipeline ------------------------
(***************************************************************************)
(* The clients' half of the pipeline and the runner and the gate share the *)
(* deployment and the bound on faults only: a run takes one half at a time *)
(* and adds their states up instead of multiplying them.                   *)
(***************************************************************************)
EXTENDS TelemetryPipeline

\* main.py looks at fewer events of a request than telemetry.py
MCCap == [d \in {"main", "register"} |-> IF d = "main" THEN 1 ELSE 2]

VARIABLE half   \* the half that this behaviour is about

MCInit == Init /\ half \in {"clients", "server"}
MCNext ==
    /\ half' = half
    /\ \/ half = "clients" /\ AppNext
       \/ half = "server" /\ (RunnerNext \/ GateNext)
MCSpec == MCInit /\ [][MCNext]_<<vars, half>> /\ Fairness
=============================================================================
