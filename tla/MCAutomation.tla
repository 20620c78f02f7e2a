----------------------------- MODULE MCAutomation -----------------------------
(* Instances of Automation: ids are model values.                              *)
EXTENDS Automation, TLC

CONSTANTS j1, x1, x2, x3, w1, e1

\* Steps that stop the workflow when they fail, and steps that do not, the last
\* one among them.
MCStopOn == [w \in Flows |-> <<FALSE, TRUE, FALSE>>]

RunSymmetry == Permutations(Runs)
===============================================================================
