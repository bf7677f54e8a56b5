------------------------------ MODULE MCAuditRun ------------------------------
(***************************************************************************)
(* AuditRun on small instances: two concurrent requests, an audit of two   *)
(* queries and one of one, and ids on either side of the int32 boundary    *)
(* (modulo 8, id 5 reads as -3 on the worker).                             *)
(***************************************************************************)
EXTENDS AuditRun, TLC

CONSTANTS c1, c2

MCNumQueries == [a \in Audits |-> 3 - a]

\* Requests are interchangeable: Init lets each name any audit.
RequestSymmetry == Permutations({c1, c2})
=============================================================================
