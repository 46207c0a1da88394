------------------------ MODULE MCProcessHostManager ------------------------
(***************************************************************************)
(* ProcessHostManager for TLC.  Two hosts and two timeouts are enough for  *)
(* the timer to be restarted for an earlier entry, for an entry to outlive *)
(* the timer, for the connected vector to grow while the watch thread      *)
(* holds an index into it, and for the destructor to find both lists       *)
(* non-empty.                                                              *)
(***************************************************************************)
EXTENDS ProcessHostManager
=============================================================================
