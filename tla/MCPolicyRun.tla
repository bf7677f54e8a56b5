----------------------------- MODULE MCPolicyRun -----------------------------
(***************************************************************************)
(* PolicyRun on a small instance: a policy of three audits, two pollers.   *)
(***************************************************************************)
EXTENDS PolicyRun, TLC

CONSTANTS p1, p2

PollerSymmetry == Permutations({p1, p2})
=============================================================================
