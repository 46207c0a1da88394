---------------------- MODULE MCInProcessResourceLoader ----------------------
(***************************************************************************)
(* InProcessResourceLoader for TLC.  Two requests share the message loop,  *)
(* so that the tasks of one come between those of the other, and a peer    *)
(* can drop one request from inside a callback of the other.  Two chunks   *)
(* tell the first data, which sends the headers, from the next.            *)
(***************************************************************************)
EXTENDS InProcessResourceLoader
=============================================================================
