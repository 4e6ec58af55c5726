----------------------------- MODULE FrameStream -----------------------------
(***************************************************************************)
(* What enqueue_or_write_frame promises its callers: the frames broadcast   *)
(* to a client reach it in the order they were handed over, each one        *)
(* entire, none skipped and none twice, until the client is dropped.        *)
(*                                                                         *)
(* A frame is Size parts.  The stream is known by its last part: since a    *)
(* part may only follow its predecessor, the last part tells all the parts  *)
(* before it.                                                               *)
(***************************************************************************)
EXTENDS Naturals

CONSTANT Size   \* parts of a frame

VARIABLES
  asked,  \* frames handed over so far; the k-th one is frame k
  sent,   \* the last part sent: its frame and its place in it
  open    \* the client is not dropped

vars == <<asked, sent, open>>

Init ==
  /\ asked = 0
  /\ sent = [frame |-> 0, part |-> Size]
  /\ open = TRUE

\* The stream goes on with parts of one frame: the rest of the last frame, or,
\* if that one is entire, the beginning of the next.
Follows(from, to) ==
  /\ to.part \in 1..Size
  /\ \/ to.frame = from.frame /\ from.part < to.part
     \/ to.frame = from.frame + 1 /\ from.part = Size

\* A frame is handed over; some of it may be sent at once.
HandOver ==
  /\ open
  /\ asked' = asked + 1
  /\ sent' = sent \/ (sent'.frame <= asked' /\ Follows(sent, sent'))
  /\ UNCHANGED open

Send ==
  /\ open
  /\ sent'.frame <= asked
  /\ Follows(sent, sent')
  /\ UNCHANGED <<asked, open>>

Drop ==
  /\ open' = FALSE
  /\ UNCHANGED <<asked, sent>>

Next == HandOver \/ Send \/ Drop

Spec == Init /\ [][Next]_vars
=============================================================================
