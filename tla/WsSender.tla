------------------------------ MODULE WsSender ------------------------------
(***************************************************************************)
(* Everything that writes to the socket of one WebSocket client.            *)
(*                                                                         *)
(* Broadcast frames go through enqueue_or_write_frame and the               *)
(* client_write_loop of websocket.h.  The connection's own coroutine        *)
(* (pongs, the room_missing notice) and the send_history coroutines of      *)
(* chat_app.h write to the descriptor themselves.  All of them run on one   *)
(* Worker, so they change places only at a co_await; whom the Worker        *)
(* resumes, and when, is left open here (Worker.tla says it): a coroutine   *)
(* that waits for the socket may go on at any time or never.                *)
(*                                                                         *)
(* A frame is Size parts, known by its writer and its number.               *)
(***************************************************************************)
EXTENDS Naturals, Sequences

CONSTANTS
  Reader,    \* handle_http_connection, in its WebSocket message loop
  History,   \* send_history coroutines
  Loop,      \* client_write_loop; broadcast frames count as its frames
  Nobody,    \* no coroutine
  Size,      \* parts of a frame
  Room,      \* parts the socket's send buffer takes
  MaxFrame   \* bound: frames of one writer

Direct == History \cup {Reader}
Writer == Direct \cup {Loop}

ASSUME SenderAssumption ==
  /\ Reader \notin History /\ Loop \notin Direct /\ Nobody \notin Writer
  /\ Size \in Nat \ {0} /\ Room \in Nat \ {0} /\ MaxFrame \in Nat

VARIABLES
  \* the WSClient in t_local_clients
  registered, \* it is there
  queue,      \* send_queue: what is left of frames
  writing,    \* is_writing
  \* the coroutines
  running,    \* the coroutine that executes
  pc,         \* pc[w]: where the writer is
  frame,      \* frame[w]: the frame it writes; for Loop, one of the broadcast frames
  left,       \* left[w]: parts of it not yet written
  asked,      \* broadcast frames handed over so far; the k-th one is frame k
  \* the socket
  space,      \* parts the send buffer has room for
  cut,        \* reset by the peer, shut down or closed
  sent,       \* sent[w]: the last part of w's frames on the stream
  tail        \* who wrote the last part of the stream

clientVars == <<registered, queue, writing>>
vars == <<clientVars, running, pc, frame, left, asked, space, cut, sent, tail>>

\* What is left of a frame.
Rest == [frame : Nat, left : 1..Size]

\* A place in the frames of one writer: the last part written.
Position == [frame : Nat, part : 0..Size]

FlagsOK == registered \in BOOLEAN /\ writing \in BOOLEAN /\ cut \in BOOLEAN

CoroutineOK ==
  /\ running \in Writer \cup {Nobody}
  /\ pc \in [Writer -> {"idle", "pop", "write", "wait", "retry", "next", "done"}]
  /\ frame \in [Writer -> Nat]
  /\ left \in [Writer -> 0..Size]
  /\ asked \in Nat

SocketOK ==
  /\ space \in 0..Room
  /\ sent \in [Writer -> Position]
  /\ tail \in Writer

TypeOK ==
  /\ FlagsOK
  /\ queue \in Seq(Rest)
  /\ CoroutineOK
  /\ SocketOK

\* WSManager::add, after the handshake is written.
Init ==
  /\ registered = TRUE
  /\ queue = <<>>
  /\ writing = FALSE
  /\ running = Nobody
  /\ pc = [w \in Writer |-> "idle"]
  /\ frame = [w \in Writer |-> 0]
  /\ left = [w \in Writer |-> 0]
  /\ asked = 0
  /\ space \in 0..Room
  /\ cut = FALSE
  /\ sent = [w \in Writer |-> [frame |-> 0, part |-> Size]]
  /\ tail = Reader

Goto(w, p) == pc' = [pc EXCEPT ![w] = p]
Least(m, n) == IF m < n THEN m ELSE n

-----------------------------------------------------------------------------
(* The socket and the peer. *)

PeerReads ==
  /\ ~cut
  /\ space' \in (space + 1)..Room
  /\ UNCHANGED <<clientVars, running, pc, frame, left, asked, cut, sent, tail>>

PeerGone ==
  /\ ~cut
  /\ cut' = TRUE
  /\ UNCHANGED <<clientVars, running, pc, frame, left, asked, space, sent, tail>>

\* The entry of t_local_clients goes, its queue with it.
Erase == registered' = FALSE /\ queue' = <<>> /\ writing' = FALSE

\* write() takes n parts of frame k of w, of which l parts were left.
Put(w, k, l, n) ==
  /\ sent' = [sent EXCEPT ![w] = [frame |-> k, part |-> Size - l + n]]
  /\ tail' = w
  /\ space' = space - n

-----------------------------------------------------------------------------
(* Broadcasts. *)

\* enqueue_or_write_frame, is_writing: push.
BroadcastQueued ==
  /\ running = Nobody /\ registered /\ asked < MaxFrame /\ writing
  /\ asked' = asked + 1
  /\ queue' = Append(queue, [frame |-> asked + 1, left |-> Size])
  /\ UNCHANGED <<registered, writing, running, pc, frame, left, space, cut, sent, tail>>

\* enqueue_or_write_frame: write() takes the entire frame.
BroadcastWritten ==
  /\ running = Nobody /\ registered /\ asked < MaxFrame /\ ~writing /\ ~cut
  /\ space >= Size
  /\ asked' = asked + 1
  /\ Put(Loop, asked + 1, Size, Size)
  /\ UNCHANGED <<clientVars, running, pc, frame, left, cut>>

\* Mutant: no early return after an entire write.
BroadcastPartlyAlways ==
  /\ running = Nobody /\ registered /\ asked < MaxFrame /\ ~writing /\ ~cut
  /\ asked' = asked + 1
  /\ LET n == Least(space, Size) IN
       /\ IF n > 0 THEN Put(Loop, asked + 1, Size, n) ELSE UNCHANGED <<sent, tail, space>>
       /\ queue' = Append(queue, [frame |-> asked + 1, left |-> Size - n])
  /\ writing' = TRUE
  /\ Goto(Loop, "pop")
  /\ running' = Loop
  /\ UNCHANGED <<registered, frame, left, cut>>

\* enqueue_or_write_frame: write() takes a part or nothing (EAGAIN); the rest is
\* queued and client_write_loop starts.
BroadcastPartly ==
  /\ running = Nobody /\ registered /\ asked < MaxFrame /\ ~writing /\ ~cut
  /\ space < Size
  /\ asked' = asked + 1
  /\ IF space > 0 THEN Put(Loop, asked + 1, Size, space)
                  ELSE UNCHANGED <<sent, tail, space>>
  /\ queue' = Append(queue, [frame |-> asked + 1, left |-> Size - space])
  /\ writing' = TRUE
  /\ Goto(Loop, "pop")
  /\ running' = Loop
  /\ UNCHANGED <<registered, frame, left, cut>>

\* enqueue_or_write_frame: write() fails; the client is dropped.
BroadcastFails ==
  /\ running = Nobody /\ registered /\ ~writing /\ cut
  /\ Erase
  /\ UNCHANGED <<running, pc, frame, left, asked, space, cut, sent, tail>>

\* Mutant: the loop returns and leaves is_writing set.
LoopPopKeepsFlag ==
  /\ running = Loop /\ pc[Loop] = "pop"
  /\ \/ /\ queue = <<>>
        /\ running' = Nobody
        /\ Goto(Loop, "idle")
        /\ UNCHANGED <<queue, frame, left>>
     \/ /\ queue # <<>>
        /\ frame' = [frame EXCEPT ![Loop] = Head(queue).frame]
        /\ left' = [left EXCEPT ![Loop] = Head(queue).left]
        /\ queue' = Tail(queue)
        /\ Goto(Loop, "write")
        /\ UNCHANGED running
  /\ UNCHANGED <<registered, writing, asked, space, cut, sent, tail>>

\* client_write_loop, top of the loop: the client is gone, nothing is queued, or
\* the next frame is taken.
LoopPop ==
  /\ running = Loop /\ pc[Loop] = "pop"
  /\ \/ /\ ~registered \/ queue = <<>>
        /\ writing' = FALSE
        /\ running' = Nobody
        /\ Goto(Loop, "idle")
        /\ UNCHANGED <<queue, frame, left>>
     \/ /\ registered /\ queue # <<>>
        /\ frame' = [frame EXCEPT ![Loop] = Head(queue).frame]
        /\ left' = [left EXCEPT ![Loop] = Head(queue).left]
        /\ queue' = Tail(queue)
        /\ Goto(Loop, "write")
        /\ UNCHANGED <<writing, running>>
  /\ UNCHANGED <<registered, asked, space, cut, sent, tail>>

-----------------------------------------------------------------------------
(* co_await AsyncWrite, in the loop and in the direct writers. *)

\* Mutant: a partial write counts as the whole frame.
WriteOnce(w) ==
  /\ running = w /\ pc[w] \in {"write", "retry"}
  /\ ~cut /\ space > 0
  /\ LET n == Least(space, left[w]) IN
       /\ Put(w, frame[w], left[w], n)
       /\ left' = [left EXCEPT ![w] = 0]
       /\ Goto(w, IF w = Loop THEN "pop" ELSE "next")
  /\ UNCHANGED <<clientVars, running, frame, asked, cut>>

\* write() takes what there is room for; off += wn.
Write(w) ==
  /\ running = w /\ pc[w] \in {"write", "retry"}
  /\ ~cut /\ space > 0
  /\ LET n == Least(space, left[w]) IN
       /\ Put(w, frame[w], left[w], n)
       /\ left' = [left EXCEPT ![w] = @ - n]
       /\ Goto(w, IF left[w] > n THEN "write" ELSE IF w = Loop THEN "pop" ELSE "next")
  /\ UNCHANGED <<clientVars, running, frame, asked, cut>>

\* EAGAIN in await_ready: the coroutine is suspended.
WriteSuspend(w) ==
  /\ running = w /\ pc[w] = "write"
  /\ ~cut /\ space = 0
  /\ Goto(w, "wait")
  /\ running' = Nobody
  /\ UNCHANGED <<clientVars, frame, left, asked, space, cut, sent, tail>>

\* The Worker resumes it, whether there is room or not.
Resume(w) ==
  /\ running = Nobody /\ pc[w] = "wait"
  /\ w \in History => pc[Reader] # "done"
  /\ Goto(w, "retry")
  /\ running' = w
  /\ UNCHANGED <<clientVars, frame, left, asked, space, cut, sent, tail>>

\* AsyncWrite gives wn <= 0: the socket is dead, or await_resume met EAGAIN.
Fails(w) ==
  /\ running = w
  /\ \/ cut /\ pc[w] \in {"write", "retry"}
     \/ ~cut /\ space = 0 /\ pc[w] = "retry"

\* client_write_loop drops the client and shuts the socket down.
LoopFails ==
  /\ Fails(Loop)
  /\ Erase
  /\ cut' = TRUE
  /\ Goto(Loop, "idle")
  /\ running' = Nobody
  /\ UNCHANGED <<frame, left, asked, space, sent, tail>>

\* send_history returns, and the client stays.
HistoryFails(h) ==
  /\ Fails(h)
  /\ Goto(h, "done")
  /\ running' = Nobody
  /\ UNCHANGED <<clientVars, frame, left, asked, space, cut, sent, tail>>

-----------------------------------------------------------------------------
(* Direct writers. *)

\* A pong or a notice, or the next message of the history, is written.
BeginFrame(w) ==
  /\ \/ w = Reader /\ running = Nobody /\ pc[w] = "idle"
     \/ w \in History /\ running = Nobody /\ pc[w] = "idle" /\ pc[Reader] # "done"
     \/ w \in History /\ running = w /\ pc[w] = "next"
  /\ frame[w] < MaxFrame
  /\ frame' = [frame EXCEPT ![w] = @ + 1]
  /\ left' = [left EXCEPT ![w] = Size]
  /\ Goto(w, "write")
  /\ running' = w
  /\ UNCHANGED <<clientVars, asked, space, cut, sent, tail>>

\* The Reader goes on to AsyncRead, send_history returns.
EndFrame(w) ==
  /\ running = w /\ pc[w] = "next"
  /\ Goto(w, IF w = Reader THEN "idle" ELSE "done")
  /\ running' = Nobody
  /\ UNCHANGED <<clientVars, frame, left, asked, space, cut, sent, tail>>

\* ws_cleanup and cleanup, after a close frame, a read error, the end of the
\* input or a failed write: WSManager::remove, close.
ReaderEnds ==
  /\ \/ running = Nobody /\ pc[Reader] = "idle"
     \/ Fails(Reader)
  /\ Erase
  /\ cut' = TRUE
  /\ Goto(Reader, "done")
  /\ running' = Nobody
  /\ UNCHANGED <<frame, left, asked, space, sent, tail>>

-----------------------------------------------------------------------------
Next ==
  \/ PeerReads \/ PeerGone
  \/ BroadcastQueued \/ BroadcastWritten \/ BroadcastPartly \/ BroadcastFails
  \/ LoopPop \/ LoopFails
  \/ \E w \in Writer : Write(w) \/ WriteSuspend(w) \/ Resume(w)
  \/ \E w \in Direct : BeginFrame(w) \/ EndFrame(w)
  \/ \E h \in History : HistoryFails(h)
  \/ ReaderEnds

Spec == Init /\ [][Next]_vars

-----------------------------------------------------------------------------
(* Properties. *)

\* Frames in send_queue are being served: as long as the client is there,
\* is_writing is set exactly while a client_write_loop is at work, and nothing is
\* queued without one.  A flag left set would silence the client for good, a
\* flag reset too early would start a second loop.
QueueServed ==
  registered => /\ writing <=> pc[Loop] # "idle"
                /\ queue # <<>> => writing

\* Broadcast frames keep the promise of FrameStream, whatever the direct writers
\* put between them: in order, entire, none skipped, none twice.
Stream == INSTANCE FrameStream WITH open <- registered, sent <- sent[Loop]

KeepsStream == Stream!Spec

\* README.md:8: the protocol is RFC 6455.  A frame's bytes are contiguous: while
\* part of a frame is on the stream and the rest is not, nobody else writes.
FramesWhole ==
  \A w \in Writer : sent[w].part < Size => tail = w
=============================================================================
