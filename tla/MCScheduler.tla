----------------------------- MODULE MCScheduler -----------------------------
(***************************************************************************)
(* Scheduler on small instances: a ticker of two units, and intervals that *)
(* are shorter than it, the default, and too long for a Duration: 4 * 2 is *)
(* negative as one of 16 values.                                           *)
(***************************************************************************)
EXTENDS Scheduler

MCAsked == {-1, 1, 4}
=============================================================================
