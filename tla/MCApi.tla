--------------------------------- MODULE MCApi ---------------------------------
(***************************************************************************)
(* Api on a small instance: the two replicas and the worker of k8s/, which *)
(* all start on an empty database.                                         *)
(***************************************************************************)
EXTENDS Api
=============================================================================
