-------------------------- MODULE LastRectangleWins --------------------------
(***************************************************************************)
(* What an application may rely on when it calls WebView::move: the        *)
(* rectangles it asks for are applied in the order it asked for them, a    *)
(* superseded one may be skipped, and the last one never is.  Nothing is   *)
(* said of messages or acknowledgements.                                   *)
(***************************************************************************)
EXTENDS Naturals, Sequences

CONSTANTS Rects,      \* rectangles
          EmptyRect   \* the rectangle of a view that was never moved

VARIABLES wanted,     \* the rectangle asked for last
          queue,      \* rectangles asked for and not applied, in order
          applied,    \* the rectangle of the window
          open        \* FALSE once the application has given up the view

vars == <<wanted, queue, applied, open>>

Init ==
  /\ wanted = EmptyRect
  /\ queue = <<>>
  /\ applied = EmptyRect
  /\ open = TRUE

\* The application asks for r.  Rectangles at the end of the queue may be
\* skipped in its favour, and nothing has to be done if the window already
\* has it.
Request(r) ==
  /\ open
  /\ wanted' = r
  /\ \/ \E n \in 0 .. Len(queue) : queue' = Append(SubSeq(queue, 1, n), r)
     \/ r = applied /\ queue' = <<>>
  /\ UNCHANGED <<applied, open>>

Apply ==
  /\ queue # <<>>
  /\ applied' = Head(queue)
  /\ queue' = Tail(queue)
  /\ UNCHANGED <<wanted, open>>

\* The application gives up the view: what it asked for last may be lost.
Close ==
  /\ open
  /\ open' = FALSE
  /\ \E n \in 0 .. Len(queue) : queue' = SubSeq(queue, 1, n)
  /\ UNCHANGED <<wanted, applied>>

Discard ==
  /\ ~open
  /\ queue' = <<>>
  /\ UNCHANGED <<wanted, applied, open>>

Next ==
  \/ \E r \in Rects : Request(r)
  \/ Apply
  \/ Close
  \/ Discard

Spec == Init /\ [][Next]_vars

TypeOK ==
  /\ wanted \in Rects
  /\ queue \in Seq(Rects)
  /\ applied \in Rects
  /\ open \in BOOLEAN

\* While the view is in use, the rectangle asked for last is the one that the
\* window has or will have when nothing is left to apply.
LastIsKept ==
  open => wanted = IF queue = <<>> THEN applied ELSE queue[Len(queue)]
=============================================================================
