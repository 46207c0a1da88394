---------------------------- MODULE MCViewChannel ----------------------------
(***************************************************************************)
(* ViewChannel for TLC: a view of the application and one that its page    *)
(* may open, three rectangles so that one can be asked for again while     *)
(* another is held back, and a find request id that starts over: with two  *)
(* texts a reused id belongs to the same text again, so replies are not    *)
(* taken to be later than that.                                            *)
(***************************************************************************)
EXTENDS ViewChannel
=============================================================================
