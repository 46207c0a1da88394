------------------------- MODULE MCToolkitLifecycle -------------------------
(***************************************************************************)
(* ToolkitLifecycle for TLC: this process and another one that connects to *)
(* it, a view each, and two browser contexts, which the two may share.     *)
(***************************************************************************)
EXTENDS ToolkitLifecycle
=============================================================================
