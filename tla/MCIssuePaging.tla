---------------------------- MODULE MCIssuePaging ----------------------------
(***************************************************************************)
(* IssuePaging on small instances: six issues, page sizes below, between   *)
(* and above what the service allows, and an int of 64 values.  Page 23 is *)
(* beyond the end with one row a page, at a negative offset with two (44), *)
(* and near the front of the list with three (66).                         *)
(***************************************************************************)
EXTENDS IssuePaging

MCFirstPages == {Absent, -1, 1, 2, 23}

MCSizes == {Absent, -1, 1, 2, 9}
=============================================================================
