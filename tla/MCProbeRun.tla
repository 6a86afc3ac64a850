----------------------------- MODULE MCProbeRun -----------------------------
EXTENDS ProbeRun

OnePrint == {"f"}
Shared == [m \in Members |-> "f"]
Netflix == <<"netflix">>
Claude == <<"claude">>
=============================================================================
