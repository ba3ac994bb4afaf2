-------------------------- MODULE MCDemoWorkspace --------------------------
(* A small instance of DemoWorkspace for TLC: one process that serves, and *)
(* one of an older build that tries the same file.                         *)
EXTENDS DemoWorkspace
CONSTANTS current, older, m1, m2
MCPlan == [p \in Processes |-> IF p = older THEN <<m1>> ELSE <<m1, m2>>]
=============================================================================
