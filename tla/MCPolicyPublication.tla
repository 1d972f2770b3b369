------------------------ MODULE MCPolicyPublication ------------------------
(* Publication on a small instance: one group of faults in a run. *)
EXTENDS PolicyPublication

MCFaultSets ==
  {{"crash", "sensor"}, {"newest", "crash", "asleep"}, {"overlap", "asleep"},
   {"cipher", "statement", "disk", "audit"},
   {"cipher", "statement", "disk", "audit", "signal", "crash", "asleep"}}
=============================================================================
