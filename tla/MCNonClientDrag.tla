--------------------------- MODULE MCNonClientDrag ---------------------------
(***************************************************************************)
(* NonClientDrag for TLC.  Two positions and five inputs: enough to switch *)
(* hit testing on, begin a drag and let the cursor move on while a move is *)
(* unacknowledged; to begin a second drag that meets the unacknowledged    *)
(* end of the first; or to switch hit testing off and on again under a     *)
(* pending hit test.                                                       *)
(***************************************************************************)
EXTENDS NonClientDrag
=============================================================================
