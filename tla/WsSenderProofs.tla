--------------------------- MODULE WsSenderProofs ---------------------------
(* Theorems about WsSender, for every number of send_history coroutines,     *)
(* frame size and send buffer.                                               *)
EXTENDS WsSender, TLAPS

-----------------------------------------------------------------------------
(* Invariants. *)

Busy == {"pop", "write", "retry", "next"}
InFrame == {"write", "wait", "retry"}

\* One coroutine executes; where each writer can be.
Control ==
  /\ \A w \in Writer : running = w <=> pc[w] \in Busy
  /\ pc[Loop] \in {"idle", "pop", "write", "wait", "retry"}
  /\ \A w \in Direct : pc[w] # "pop"
  /\ \A w \in Writer : pc[w] \in InFrame => left[w] \in 1..Size

\* Where the stream stands when l parts of frame k are left.
Before(k, l) == IF l = Size THEN [frame |-> k - 1, part |-> Size]
                              ELSE [frame |-> k, part |-> Size - l]

\* The queue holds the last frames handed over, in order; only its first one may
\* have been begun, and then the loop is about to take it.
QueueOrder ==
  /\ Len(queue) <= asked
  /\ \A i \in 1..Len(queue) : queue[i].frame = asked - Len(queue) + i
  /\ \A i \in 1..Len(queue) : i > 1 \/ pc[Loop] # "pop" => queue[i].left = Size

\* The stream stands just before what is to be written next.
StreamPosition ==
  /\ pc[Loop] \in InFrame =>
       /\ frame[Loop] = asked - Len(queue)
       /\ sent[Loop] = Before(frame[Loop], left[Loop])
  /\ pc[Loop] = "pop" /\ queue # <<>> => sent[Loop] = Before(queue[1].frame, queue[1].left)
  /\ pc[Loop] = "idle" \/ (pc[Loop] = "pop" /\ queue = <<>>) => sent[Loop] = [frame |-> asked, part |-> Size]

\* Once the client is erased its socket is dead and its queue is gone.
StreamInv ==
  /\ registered \/ cut
  /\ ~registered => queue = <<>>
  /\ QueueServed
  /\ registered => QueueOrder /\ StreamPosition

SenderInv == TypeOK /\ Control /\ StreamInv

-----------------------------------------------------------------------------
(* Facts. *)

LEMMA Parties ==
  /\ Reader \in Writer /\ Loop \in Writer /\ Loop \notin Direct /\ Nobody \notin Writer
  /\ Reader \in Direct /\ Direct \subseteq Writer /\ History \subseteq Direct
  /\ Size \in Nat \ {0} /\ Room \in Nat \ {0}
BY SenderAssumption DEF SenderAssumption, Writer, Direct

\* What one write() takes.
LEMMA LeastOf ==
  ASSUME NEW m \in Nat, NEW n \in Nat
  PROVE  /\ Least(m, n) \in Nat /\ Least(m, n) <= m /\ Least(m, n) <= n
         /\ m > 0 /\ n > 0 => Least(m, n) > 0
BY DEF Least

\* The queue as a sequence of records.
LEMMA QueuePush ==
  ASSUME NEW S, NEW q \in Seq(S), NEW r \in S
  PROVE  /\ Append(q, r) \in Seq(S)
         /\ Len(Append(q, r)) = Len(q) + 1 /\ Len(q) \in Nat
         /\ Append(q, r) # <<>>
         /\ \A i \in 1..Len(q) : Append(q, r)[i] = q[i]
         /\ Append(q, r)[Len(q) + 1] = r
OBVIOUS

LEMMA QueuePop ==
  ASSUME NEW S, NEW q \in Seq(S), q # <<>>
  PROVE  /\ Tail(q) \in Seq(S)
         /\ Len(Tail(q)) = Len(q) - 1 /\ Len(q) \in Nat \ {0}
         /\ \A i \in 1..Len(Tail(q)) : Tail(q)[i] = q[i + 1]
         /\ Head(q) = q[1]
         /\ q[1] \in S
OBVIOUS

-----------------------------------------------------------------------------
(* Types and control. *)

LEMMA InitTypes == Init => TypeOK /\ Control
<1> SUFFICES ASSUME Init PROVE TypeOK /\ Control
  OBVIOUS
<1> USE Parties DEF Init
<1>1. FlagsOK
  BY DEF FlagsOK
<1>2. CoroutineOK /\ queue \in Seq(Rest)
  BY DEF CoroutineOK
<1>3. SocketOK
  BY DEF SocketOK, Position
<1>4. Control
  BY DEF Control, Busy, InFrame
<1>5. QED
  BY <1>1, <1>2, <1>3, <1>4 DEF TypeOK

LEMMA NextFlags == TypeOK /\ [Next]_vars => FlagsOK'
<1> SUFFICES ASSUME TypeOK, [Next]_vars PROVE FlagsOK'
  OBVIOUS
<1> USE DEF TypeOK, FlagsOK, clientVars, Erase
<1>1. CASE UNCHANGED <<registered, writing, cut>>
  BY <1>1
<1>2. CASE PeerGone \/ BroadcastPartly \/ BroadcastFails \/ LoopPop \/ LoopFails \/ ReaderEnds
  BY <1>2 DEF PeerGone, BroadcastPartly, BroadcastFails, LoopPop, LoopFails, ReaderEnds
<1>3. QED
  <2>1. PeerReads \/ BroadcastQueued \/ BroadcastWritten => UNCHANGED <<registered, writing, cut>>
    BY DEF PeerReads, BroadcastQueued, BroadcastWritten
  <2>2. \A w \in Writer : Write(w) \/ WriteSuspend(w) \/ Resume(w) => UNCHANGED <<registered, writing, cut>>
    BY DEF Write, WriteSuspend, Resume
  <2>3. \A w \in Direct : BeginFrame(w) \/ EndFrame(w) => UNCHANGED <<registered, writing, cut>>
    BY DEF BeginFrame, EndFrame
  <2>4. \A h \in History : HistoryFails(h) => UNCHANGED <<registered, writing, cut>>
    BY DEF HistoryFails
  <2>5. QED
    BY <1>1, <1>2, <2>1, <2>2, <2>3, <2>4 DEF Next, vars

LEMMA NextQueue == TypeOK /\ [Next]_vars => queue' \in Seq(Rest)
<1> SUFFICES ASSUME TypeOK, [Next]_vars PROVE queue' \in Seq(Rest)
  OBVIOUS
<1> USE Parties DEF TypeOK
<1>1. CASE UNCHANGED queue
  BY <1>1
<1>2. CASE BroadcastQueued
  <2>1. [frame |-> asked + 1, left |-> Size] \in Rest
    BY DEF Rest, CoroutineOK
  <2>2. QED
    BY <1>2, <2>1, QueuePush DEF BroadcastQueued
<1>3. CASE BroadcastPartly
  <2>1. [frame |-> asked + 1, left |-> Size - space] \in Rest
    BY <1>3 DEF BroadcastPartly, Rest, CoroutineOK, SocketOK
  <2>2. QED
    BY <1>3, <2>1, QueuePush DEF BroadcastPartly
<1>4. CASE LoopPop
  <2>1. \/ queue' = queue
        \/ queue # <<>> /\ queue' = Tail(queue)
    BY <1>4 DEF LoopPop
  <2>2. queue # <<>> => Tail(queue) \in Seq(Rest)
    BY QueuePop
  <2>3. QED
    BY <2>1, <2>2
<1>5. CASE BroadcastFails \/ LoopFails \/ ReaderEnds
  <2>1. queue' = <<>>
    BY <1>5 DEF BroadcastFails, LoopFails, ReaderEnds, Erase
  <2>2. QED
    BY <2>1
<1>6. QED
  <2>1. PeerReads \/ PeerGone \/ BroadcastWritten => UNCHANGED queue
    BY DEF PeerReads, PeerGone, BroadcastWritten, clientVars
  <2>2. \A w \in Writer : Write(w) \/ WriteSuspend(w) \/ Resume(w) => UNCHANGED queue
    BY DEF Write, WriteSuspend, Resume, clientVars
  <2>3. \A w \in Direct : BeginFrame(w) \/ EndFrame(w) => UNCHANGED queue
    BY DEF BeginFrame, EndFrame, clientVars
  <2>4. \A h \in History : HistoryFails(h) => UNCHANGED queue
    BY DEF HistoryFails, clientVars
  <2>5. QED
    BY <1>1, <1>2, <1>3, <1>4, <1>5, <2>1, <2>2, <2>3, <2>4 DEF Next, vars, clientVars

\* A write in any coroutine: it takes 1 to left[w] parts.
LEMMA WriteTakes ==
  ASSUME TypeOK, Control, NEW w \in Writer, Write(w)
  PROVE  \E n \in Nat \ {0} :
           /\ n <= space /\ n <= left[w] /\ left[w] \in 1..Size
           /\ n = space \/ n = left[w]
           /\ sent' = [sent EXCEPT ![w] = [frame |-> frame[w], part |-> Size - left[w] + n]]
           /\ tail' = w /\ space' = space - n
           /\ left' = [left EXCEPT ![w] = left[w] - n]
           /\ n < left[w] => pc' = [pc EXCEPT ![w] = "write"]
           /\ n = left[w] /\ w = Loop => pc' = [pc EXCEPT ![w] = "pop"]
           /\ n = left[w] /\ w # Loop => pc' = [pc EXCEPT ![w] = "next"]
<1> USE Parties
<1>1. left[w] \in 1..Size /\ space \in Nat /\ space > 0
  BY DEF Control, InFrame, TypeOK, SocketOK, Write
<1> DEFINE n == Least(space, left[w])
<1>2. n \in Nat \ {0} /\ n <= space /\ n <= left[w] /\ (n = space \/ n = left[w])
  BY <1>1 DEF Least
<1>3. /\ sent' = [sent EXCEPT ![w] = [frame |-> frame[w], part |-> Size - left[w] + n]]
      /\ tail' = w /\ space' = space - n
      /\ left' = [left EXCEPT ![w] = left[w] - n]
      /\ pc' = [pc EXCEPT ![w] = IF left[w] > n THEN "write" ELSE IF w = Loop THEN "pop" ELSE "next"]
  BY DEF Write, Put, Goto
<1> HIDE DEF n
<1>4. n < left[w] <=> left[w] > n
  BY <1>1, <1>2
<1>5. n = left[w] => ~(left[w] > n)
  BY <1>1, <1>2
<1>6. QED
  BY <1>1, <1>2, <1>3, <1>4, <1>5

LEMMA NextCoroutine == TypeOK /\ Control /\ [Next]_vars => CoroutineOK'
<1> SUFFICES ASSUME TypeOK, Control, [Next]_vars PROVE CoroutineOK'
  OBVIOUS
<1> USE Parties DEF TypeOK, CoroutineOK, Goto
<1>1. CASE PeerReads \/ PeerGone \/ BroadcastFails
  BY <1>1 DEF PeerReads, PeerGone, BroadcastFails
<1>2. CASE BroadcastQueued \/ BroadcastWritten
  BY <1>2 DEF BroadcastQueued, BroadcastWritten
<1>3. CASE BroadcastPartly
  BY <1>3 DEF BroadcastPartly
<1>4. CASE LoopPop
  <2>1. CASE ~registered \/ queue = <<>>
    BY <1>4, <2>1 DEF LoopPop
  <2>2. CASE registered /\ queue # <<>>
    <3>1. Head(queue) \in Rest
      BY <2>2, QueuePop
    <3>2. Head(queue).frame \in Nat /\ Head(queue).left \in 0..Size
      BY <3>1 DEF Rest
    <3>3. QED
      BY <1>4, <2>2, <3>2 DEF LoopPop
  <2>3. QED
    BY <2>1, <2>2
<1>5. CASE LoopFails \/ ReaderEnds
  BY <1>5 DEF LoopFails, ReaderEnds
<1>6. ASSUME NEW w \in Writer, Write(w) PROVE CoroutineOK'
  <2>1. PICK n \in Nat \ {0} :
          /\ n <= left[w] /\ left[w] \in 1..Size
          /\ left' = [left EXCEPT ![w] = left[w] - n]
          /\ n < left[w] => pc' = [pc EXCEPT ![w] = "write"]
          /\ n = left[w] /\ w = Loop => pc' = [pc EXCEPT ![w] = "pop"]
          /\ n = left[w] /\ w # Loop => pc' = [pc EXCEPT ![w] = "next"]
    BY <1>6, WriteTakes
  <2>2. left' \in [Writer -> 0..Size]
    BY <2>1
  <2>3. \E p \in {"write", "pop", "next"} : pc' = [pc EXCEPT ![w] = p]
    BY <2>1
  <2>4. QED
    BY <1>6, <2>2, <2>3 DEF Write
<1>7. ASSUME NEW w \in Writer, WriteSuspend(w) \/ Resume(w) PROVE CoroutineOK'
  BY <1>7 DEF WriteSuspend, Resume
<1>8. ASSUME NEW w \in Direct, BeginFrame(w) PROVE CoroutineOK'
  BY <1>8 DEF BeginFrame
<1>9. ASSUME NEW w \in Direct, EndFrame(w) PROVE CoroutineOK'
  BY <1>9 DEF EndFrame
<1>10. ASSUME NEW h \in History, HistoryFails(h) PROVE CoroutineOK'
  BY <1>10 DEF HistoryFails
<1>11. CASE UNCHANGED vars
  BY <1>11 DEF vars
<1>12. QED
  BY <1>1, <1>2, <1>3, <1>4, <1>5, <1>6, <1>7, <1>8, <1>9, <1>10, <1>11 DEF Next

LEMMA NextSocket == TypeOK /\ Control /\ [Next]_vars => SocketOK'
<1> SUFFICES ASSUME TypeOK, Control, [Next]_vars PROVE SocketOK'
  OBVIOUS
<1> USE Parties DEF TypeOK, SocketOK
<1>1. CASE PeerReads \/ PeerGone \/ BroadcastQueued \/ BroadcastFails \/ LoopPop
  BY <1>1 DEF PeerReads, PeerGone, BroadcastQueued, BroadcastFails, LoopPop
<1>2. CASE LoopFails \/ ReaderEnds
  BY <1>2 DEF LoopFails, ReaderEnds
<1>3. CASE BroadcastWritten
  <2>1. sent' \in [Writer -> Position]
    BY <1>3 DEF BroadcastWritten, Put, Position, CoroutineOK
  <2>2. QED
    BY <1>3, <2>1 DEF BroadcastWritten, Put
<1>4. CASE BroadcastPartly
  <2>1. [frame |-> asked + 1, part |-> Size - Size + space] \in Position
    BY <1>4 DEF BroadcastPartly, Position, CoroutineOK
  <2>2. CASE space > 0
    BY <1>4, <2>1, <2>2 DEF BroadcastPartly, Put
  <2>3. CASE ~(space > 0)
    BY <1>4, <2>3 DEF BroadcastPartly
  <2>4. QED
    BY <2>2, <2>3
<1>5. ASSUME NEW w \in Writer, Write(w) PROVE SocketOK'
  <2>1. PICK n \in Nat \ {0} :
          /\ n <= space /\ n <= left[w] /\ left[w] \in 1..Size
          /\ sent' = [sent EXCEPT ![w] = [frame |-> frame[w], part |-> Size - left[w] + n]]
          /\ tail' = w /\ space' = space - n
    BY <1>5, WriteTakes
  <2>2. frame[w] \in Nat /\ Size - left[w] + n \in 0..Size
    BY <2>1 DEF CoroutineOK
  <2>3. QED
    BY <1>5, <2>1, <2>2 DEF Write, Position
<1>6. ASSUME NEW w \in Writer, WriteSuspend(w) \/ Resume(w) PROVE SocketOK'
  BY <1>6 DEF WriteSuspend, Resume
<1>7. ASSUME NEW w \in Direct, BeginFrame(w) \/ EndFrame(w) PROVE SocketOK'
  BY <1>7 DEF BeginFrame, EndFrame
<1>8. ASSUME NEW h \in History, HistoryFails(h) PROVE SocketOK'
  BY <1>8 DEF HistoryFails
<1>9. CASE UNCHANGED vars
  BY <1>9 DEF vars
<1>10. QED
  BY <1>1, <1>2, <1>3, <1>4, <1>5, <1>6, <1>7, <1>8, <1>9 DEF Next

LEMMA NextControl == TypeOK /\ Control /\ [Next]_vars => Control'
<1> SUFFICES ASSUME TypeOK, Control, [Next]_vars PROVE Control'
  OBVIOUS
<1> USE Parties DEF TypeOK, CoroutineOK, Control, Busy, InFrame, Goto
<1>1. CASE UNCHANGED <<running, pc, left>>
  BY <1>1
<1>2. CASE BroadcastPartly
  BY <1>2 DEF BroadcastPartly
<1>3. CASE LoopPop
  <2>1. CASE ~registered \/ queue = <<>>
    BY <1>3, <2>1 DEF LoopPop
  <2>2. CASE registered /\ queue # <<>>
    <3>1. Head(queue) \in Rest
      BY <2>2, QueuePop
    <3>2. Head(queue).left \in 1..Size
      BY <3>1 DEF Rest
    <3>3. /\ running = Loop /\ running' = Loop
          /\ left' = [left EXCEPT ![Loop] = Head(queue).left]
          /\ pc' = [pc EXCEPT ![Loop] = "write"]
      BY <1>3, <2>2 DEF LoopPop
    <3>4. QED
      BY <3>2, <3>3
  <2>3. QED
    BY <2>1, <2>2
<1>4. CASE LoopFails
  BY <1>4 DEF LoopFails, Fails
<1>5. CASE ReaderEnds
  BY <1>5 DEF ReaderEnds, Fails
<1>6. ASSUME NEW w \in Writer, Write(w) PROVE Control'
  <2>1. PICK n \in Nat \ {0} :
          /\ n <= left[w] /\ left[w] \in 1..Size
          /\ left' = [left EXCEPT ![w] = left[w] - n]
          /\ n < left[w] => pc' = [pc EXCEPT ![w] = "write"]
          /\ n = left[w] /\ w = Loop => pc' = [pc EXCEPT ![w] = "pop"]
          /\ n = left[w] /\ w # Loop => pc' = [pc EXCEPT ![w] = "next"]
    BY <1>6, WriteTakes
  <2>2. running = w /\ running' = w
    BY <1>6 DEF Write
  <2>3. CASE n < left[w]
    BY <2>1, <2>2, <2>3
  <2>4. CASE n = left[w]
    BY <2>1, <2>2, <2>4
  <2>5. QED
    BY <2>1, <2>3, <2>4
<1>7. ASSUME NEW w \in Writer, WriteSuspend(w) PROVE Control'
  BY <1>7 DEF WriteSuspend
<1>8. ASSUME NEW w \in Writer, Resume(w) PROVE Control'
  BY <1>8 DEF Resume
<1>9. ASSUME NEW w \in Direct, BeginFrame(w) PROVE Control'
  BY <1>9 DEF BeginFrame
<1>10. ASSUME NEW w \in Direct, EndFrame(w) PROVE Control'
  BY <1>10 DEF EndFrame
<1>11. ASSUME NEW h \in History, HistoryFails(h) PROVE Control'
  BY <1>11 DEF HistoryFails, Fails
<1>12. QED
  <2>1. PeerReads \/ PeerGone \/ BroadcastQueued \/ BroadcastWritten \/ BroadcastFails =>
          UNCHANGED <<running, pc, left>>
    BY DEF PeerReads, PeerGone, BroadcastQueued, BroadcastWritten, BroadcastFails
  <2>2. QED
    BY <1>1, <1>2, <1>3, <1>4, <1>5, <1>6, <1>7, <1>8, <1>9, <1>10, <1>11, <2>1 DEF Next, vars

LEMMA NextTypes == TypeOK /\ Control /\ [Next]_vars => TypeOK' /\ Control'
BY NextFlags, NextQueue, NextCoroutine, NextSocket, NextControl DEF TypeOK

\* TypeOK holds for every set of coroutines: in particular no write is counted for
\* more than the frame or the send buffer holds, and no empty rest is queued.
THEOREM SenderTypes == Spec => []TypeOK
<1>1. Spec => [](TypeOK /\ Control)
  BY InitTypes, NextTypes, PTL DEF Spec
<1>2. QED
  BY <1>1, PTL

-----------------------------------------------------------------------------
(* Every step keeps the invariant and is a step of FrameStream or a stutter. *)

Simulates == StreamInv' /\ [Stream!Next]_Stream!vars

LEMMA InitStream == Init => StreamInv /\ Stream!Init
<1> SUFFICES ASSUME Init PROVE StreamInv /\ Stream!Init
  OBVIOUS
<1> USE Parties DEF Init
<1>1. sent[Loop] = [frame |-> 0, part |-> Size] /\ pc[Loop] = "idle" /\ Len(queue) = 0
  OBVIOUS
<1>2. QueueServed
  BY <1>1 DEF QueueServed
<1>3. QueueOrder /\ StreamPosition
  BY <1>1 DEF QueueOrder, StreamPosition, InFrame
<1>4. Stream!Init
  BY <1>1 DEF Stream!Init
<1>5. QED
  BY <1>2, <1>3, <1>4 DEF StreamInv

\* A step of another party.
LEMMA LoopUntouched ==
  ASSUME StreamInv, UNCHANGED <<registered, queue, writing, asked>>, cut => cut',
         pc'[Loop] = pc[Loop], frame'[Loop] = frame[Loop], left'[Loop] = left[Loop],
         sent'[Loop] = sent[Loop]
  PROVE  Simulates
BY DEF Simulates, StreamInv, QueueServed, QueueOrder, StreamPosition, Stream!vars

\* The loop is suspended or resumed within a frame.
LEMMA LoopWaits ==
  ASSUME StreamInv, UNCHANGED <<registered, queue, writing, asked, frame, left, sent, cut>>,
         pc[Loop] \in InFrame, pc'[Loop] \in InFrame
  PROVE  Simulates
BY DEF Simulates, StreamInv, QueueServed, QueueOrder, StreamPosition, InFrame, Stream!vars

\* The client is dropped.
LEMMA Dropped ==
  ASSUME Erase, cut', UNCHANGED <<asked, sent>>
  PROVE  Simulates
BY DEF Simulates, StreamInv, QueueServed, Erase, Stream!Next, Stream!Drop, Stream!vars

LEMMA IdleStream ==
  ASSUME StreamInv, registered, ~writing, TypeOK
  PROVE  /\ queue = <<>> /\ Len(queue) = 0 /\ pc[Loop] = "idle"
         /\ sent[Loop] = [frame |-> asked, part |-> Size]
         /\ asked \in Nat /\ space \in 0..Room
BY DEF StreamInv, QueueServed, StreamPosition, TypeOK, CoroutineOK, SocketOK

LEMMA QueuedSimulates ==
  ASSUME TypeOK, Control, StreamInv, BroadcastQueued PROVE Simulates
<1> USE Parties DEF BroadcastQueued
<1> DEFINE r == [frame |-> asked + 1, left |-> Size]
<1>1. r \in Rest /\ asked \in Nat /\ queue \in Seq(Rest)
  BY DEF Rest, TypeOK, CoroutineOK
<1>2. /\ queue' = Append(queue, r) /\ Len(queue') = Len(queue) + 1 /\ Len(queue) \in Nat
      /\ queue' # <<>>
      /\ \A i \in 1..Len(queue) : queue'[i] = queue[i]
      /\ queue'[Len(queue) + 1] = r
  BY <1>1, QueuePush
<1>3. r.frame = asked + 1 /\ r.left = Size
  OBVIOUS
<1> HIDE DEF r
<1>4. QueueOrder /\ StreamPosition /\ QueueServed
  BY DEF StreamInv
<1>5. pc[Loop] = "pop" => FALSE
  BY DEF Control, Busy
<1>6. QueueOrder'
  <2>1. Len(queue') <= asked'
    BY <1>1, <1>2, <1>4 DEF QueueOrder
  <2>2. ASSUME NEW i \in 1..Len(queue') PROVE queue'[i].frame = asked' - Len(queue') + i /\ queue'[i].left = Size
    <3>1. CASE i \in 1..Len(queue)
      BY <1>1, <1>2, <1>4, <1>5, <3>1 DEF QueueOrder
    <3>2. CASE i = Len(queue) + 1
      BY <1>1, <1>2, <1>3, <3>2
    <3>3. QED
      BY <1>2, <3>1, <3>2
  <2>3. QED
    BY <2>1, <2>2 DEF QueueOrder
<1>7. pc[Loop] \in InFrame
  BY <1>4, <1>5 DEF QueueServed, Control, InFrame
<1>8. StreamPosition'
  BY <1>1, <1>2, <1>4, <1>5, <1>7 DEF StreamPosition, InFrame
<1>9. QueueServed'
  BY <1>4 DEF QueueServed
<1>10. Stream!HandOver
  BY DEF Stream!HandOver
<1>11. QED
  BY <1>6, <1>8, <1>9, <1>10 DEF Simulates, StreamInv, Stream!Next

LEMMA WrittenSimulates ==
  ASSUME TypeOK, Control, StreamInv, BroadcastWritten PROVE Simulates
<1> USE Parties DEF BroadcastWritten
<1>1. /\ queue = <<>> /\ Len(queue) = 0 /\ pc[Loop] = "idle" /\ asked \in Nat
      /\ sent[Loop] = [frame |-> asked, part |-> Size]
  BY IdleStream
<1>2. sent'[Loop] = [frame |-> asked + 1, part |-> Size]
  <2>1. Size - Size + Size = Size
    OBVIOUS
  <2>2. QED
    BY <2>1 DEF Put, TypeOK, SocketOK
<1>3. QueueOrder' /\ StreamPosition' /\ QueueServed'
  BY <1>1, <1>2 DEF QueueOrder, StreamPosition, QueueServed, clientVars, InFrame
<1>4. Stream!HandOver
  BY <1>1, <1>2 DEF Stream!HandOver, Stream!Follows, clientVars
<1>5. QED
  BY <1>3, <1>4 DEF Simulates, StreamInv, Stream!Next, clientVars

LEMMA PartlySimulates ==
  ASSUME TypeOK, Control, StreamInv, BroadcastPartly PROVE Simulates
<1> USE Parties DEF BroadcastPartly
<1>1. /\ queue = <<>> /\ Len(queue) = 0 /\ pc[Loop] = "idle" /\ asked \in Nat
      /\ sent[Loop] = [frame |-> asked, part |-> Size] /\ space \in Nat /\ space < Size
  BY IdleStream
<1> DEFINE r == [frame |-> asked + 1, left |-> Size - space]
<1>2. /\ Len(queue') = 1 /\ queue'[1] = r /\ queue' # <<>>
      /\ r.frame = asked + 1 /\ r.left = Size - space
  <2>1. r \in Rest /\ queue \in Seq(Rest)
    BY <1>1 DEF Rest, TypeOK
  <2>2. queue' = Append(queue, r)
    OBVIOUS
  <2>3. Len(queue') = 1 /\ queue'[1] = r /\ queue' # <<>>
    BY <1>1, <2>1, <2>2, QueuePush
  <2>4. QED
    BY <2>3
<1> HIDE DEF r
<1>3. pc'[Loop] = "pop"
  BY DEF Goto, TypeOK, CoroutineOK
<1>4. sent'[Loop] = Before(asked + 1, Size - space)
  <2>1. CASE space > 0
    <3>1. sent'[Loop] = [frame |-> asked + 1, part |-> Size - Size + space]
      BY <2>1 DEF Put, TypeOK, SocketOK
    <3>2. Size - Size + space = Size - (Size - space) /\ Size - space # Size
      BY <1>1, <2>1
    <3>3. QED
      BY <3>1, <3>2 DEF Before
  <2>2. CASE space = 0
    <3>1. sent'[Loop] = [frame |-> asked, part |-> Size] /\ Size - space = Size /\ asked + 1 - 1 = asked
      BY <1>1, <2>2
    <3>2. QED
      BY <1>1, <3>1 DEF Before
  <2>3. QED
    BY <1>1, <2>1, <2>2
<1>5. QueueOrder'
  BY <1>1, <1>2, <1>3 DEF QueueOrder
<1>6. StreamPosition'
  BY <1>2, <1>3, <1>4 DEF StreamPosition, InFrame
<1>7. QueueServed'
  BY <1>3 DEF QueueServed
<1>8. Stream!HandOver
  <2>1. CASE space > 0
    <3>1. sent'[Loop] = [frame |-> asked + 1, part |-> space]
      BY <1>1, <1>4, <2>1 DEF Before
    <3>2. QED
      BY <1>1, <2>1, <3>1 DEF Stream!HandOver, Stream!Follows
  <2>2. CASE space = 0
    BY <1>1, <2>2 DEF Stream!HandOver
  <2>3. QED
    BY <1>1, <2>1, <2>2
<1>9. QED
  BY <1>5, <1>6, <1>7, <1>8 DEF Simulates, StreamInv, Stream!Next

LEMMA PopSimulates ==
  ASSUME TypeOK, Control, StreamInv, LoopPop PROVE Simulates
<1> USE Parties DEF LoopPop
<1>1. CASE ~registered
  BY <1>1 DEF Simulates, StreamInv, QueueServed, Stream!vars
<1>2. CASE registered /\ queue = <<>>
  <2>1. /\ pc'[Loop] = "idle" /\ queue' = <<>> /\ ~writing'
        /\ UNCHANGED <<registered, asked, sent>>
    BY <1>2 DEF Goto, TypeOK, CoroutineOK
  <2>2. sent[Loop] = [frame |-> asked, part |-> Size] /\ asked \in Nat
    BY <1>2 DEF StreamInv, StreamPosition, TypeOK, CoroutineOK
  <2>3. QueueOrder' /\ StreamPosition' /\ QueueServed'
    BY <2>1, <2>2 DEF QueueOrder, StreamPosition, QueueServed, InFrame
  <2>4. QED
    BY <1>2, <2>1, <2>3 DEF Simulates, StreamInv, Stream!vars
<1>3. CASE registered /\ queue # <<>>
  <2>1. /\ pc[Loop] = "pop" /\ pc'[Loop] = "write"
        /\ frame'[Loop] = queue[1].frame /\ left'[Loop] = queue[1].left
        /\ UNCHANGED <<registered, writing, asked, sent>>
    BY <1>3, QueuePop DEF Goto, TypeOK, CoroutineOK
  <2>2. /\ Len(queue') = Len(queue) - 1 /\ Len(queue) \in Nat \ {0}
        /\ \A i \in 1..Len(queue') : queue'[i] = queue[i + 1]
    BY <1>3, QueuePop DEF TypeOK
  <2>3. QueueOrder /\ StreamPosition /\ QueueServed /\ asked \in Nat
    BY <1>3 DEF StreamInv, TypeOK, CoroutineOK
  <2>4. QueueOrder'
    <3>1. Len(queue') <= asked'
      BY <2>1, <2>2, <2>3 DEF QueueOrder
    <3>2. ASSUME NEW i \in 1..Len(queue') PROVE queue'[i].frame = asked' - Len(queue') + i /\ queue'[i].left = Size
      <4>1. i + 1 \in 1..Len(queue) /\ i + 1 > 1
        BY <2>2
      <4>2. queue[i + 1].frame = asked - Len(queue) + (i + 1) /\ queue[i + 1].left = Size
        BY <2>3, <4>1 DEF QueueOrder
      <4>3. QED
        BY <2>1, <2>2, <2>3, <4>2
    <3>3. QED
      BY <3>1, <3>2 DEF QueueOrder
  <2>5. StreamPosition'
    <3>1. queue[1].frame = asked - Len(queue) + 1
      BY <2>2, <2>3 DEF QueueOrder
    <3>2. frame'[Loop] = asked' - Len(queue')
      BY <2>1, <2>2, <2>3, <3>1
    <3>3. sent'[Loop] = Before(frame'[Loop], left'[Loop])
      BY <1>3, <2>1, <2>3 DEF StreamPosition
    <3>4. QED
      BY <2>1, <3>2, <3>3 DEF StreamPosition
  <2>6. QueueServed'
    BY <1>3, <2>1, <2>3 DEF QueueServed
  <2>7. QED
    BY <1>3, <2>1, <2>4, <2>5, <2>6 DEF Simulates, StreamInv, Stream!vars
<1>4. QED
  BY <1>1, <1>2, <1>3

LEMMA LoopWriteSimulates ==
  ASSUME TypeOK, Control, StreamInv, Write(Loop) PROVE Simulates
<1> USE Parties
<1>1. PICK n \in Nat \ {0} :
        /\ n <= left[Loop] /\ left[Loop] \in 1..Size
        /\ sent' = [sent EXCEPT ![Loop] = [frame |-> frame[Loop], part |-> Size - left[Loop] + n]]
        /\ left' = [left EXCEPT ![Loop] = left[Loop] - n]
        /\ n < left[Loop] => pc' = [pc EXCEPT ![Loop] = "write"]
        /\ n = left[Loop] => pc' = [pc EXCEPT ![Loop] = "pop"]
  BY WriteTakes
<1>2. UNCHANGED <<registered, queue, writing, frame, asked, cut>> /\ pc[Loop] \in InFrame /\ registered
  BY DEF Write, clientVars, InFrame, StreamInv
<1>3. /\ QueueOrder /\ StreamPosition /\ QueueServed
      /\ asked \in Nat /\ frame[Loop] \in Nat /\ queue \in Seq(Rest) /\ Len(queue) \in Nat
  BY <1>2 DEF StreamInv, TypeOK, CoroutineOK
<1>4. frame[Loop] = asked - Len(queue) /\ sent[Loop] = Before(frame[Loop], left[Loop])
  BY <1>2, <1>3 DEF StreamPosition
<1>5. \A i \in 1..Len(queue) : queue[i].frame = frame[Loop] + i /\ queue[i].left = Size
  BY <1>2, <1>3, <1>4 DEF QueueOrder, InFrame
<1>6. /\ sent'[Loop] = [frame |-> frame[Loop], part |-> Size - left[Loop] + n]
      /\ left'[Loop] = left[Loop] - n
      /\ n < left[Loop] => pc'[Loop] = "write"
      /\ n = left[Loop] => pc'[Loop] = "pop"
  BY <1>1 DEF TypeOK, CoroutineOK, SocketOK
<1>7. n < left[Loop] \/ n = left[Loop]
  BY <1>1
<1>8. QueueOrder'
  BY <1>2, <1>3, <1>4, <1>5 DEF QueueOrder
<1>9. QueueServed'
  BY <1>2, <1>3, <1>6, <1>7 DEF QueueServed, InFrame
<1>10. StreamPosition'
  <2>1. CASE n < left[Loop]
    <3>1. /\ left'[Loop] # Size
          /\ Size - left'[Loop] = Size - left[Loop] + n
      BY <1>1, <1>6, <2>1
    <3>2. sent'[Loop] = Before(frame'[Loop], left'[Loop])
      BY <1>2, <1>6, <3>1 DEF Before
    <3>3. QED
      BY <1>2, <1>4, <1>6, <2>1, <3>2 DEF StreamPosition
  <2>2. CASE n = left[Loop]
    <3>1. sent'[Loop] = [frame |-> frame[Loop], part |-> Size]
      BY <1>1, <1>6, <2>2
    <3>2. CASE queue = <<>>
      BY <1>2, <1>3, <1>4, <1>6, <2>2, <3>1, <3>2 DEF StreamPosition, InFrame
    <3>3. CASE queue # <<>>
      <4>1. 1 \in 1..Len(queue)
        BY <1>3, <3>3
      <4>2. queue[1].frame - 1 = frame[Loop] /\ queue[1].left = Size
        BY <1>3, <1>5, <4>1
      <4>3. sent'[Loop] = Before(queue'[1].frame, queue'[1].left)
        BY <1>2, <3>1, <4>2 DEF Before
      <4>4. QED
        BY <1>2, <1>6, <2>2, <3>3, <4>3 DEF StreamPosition, InFrame
    <3>4. QED
      BY <3>2, <3>3
  <2>3. QED
    BY <1>7, <2>1, <2>2
<1>11. Stream!Send
  <2>1. frame[Loop] <= asked
    BY <1>3, <1>4
  <2>2. Stream!Follows(sent[Loop], sent'[Loop])
    <3>1. Size - left[Loop] + n \in 1..Size
      BY <1>1
    <3>2. CASE left[Loop] = Size
      <4>1. sent[Loop] = [frame |-> frame[Loop] - 1, part |-> Size]
        BY <1>4, <3>2 DEF Before
      <4>2. QED
        BY <1>3, <1>6, <3>1, <4>1 DEF Stream!Follows
    <3>3. CASE left[Loop] # Size
      <4>1. sent[Loop] = [frame |-> frame[Loop], part |-> Size - left[Loop]]
        BY <1>4, <3>3 DEF Before
      <4>2. Size - left[Loop] < Size - left[Loop] + n
        BY <1>1
      <4>3. QED
        BY <1>6, <3>1, <4>1, <4>2 DEF Stream!Follows
    <3>4. QED
      BY <3>2, <3>3
  <2>3. QED
    BY <1>2, <1>6, <2>1, <2>2 DEF Stream!Send
<1>12. QED
  BY <1>2, <1>8, <1>9, <1>10, <1>11 DEF Simulates, StreamInv, Stream!Next

LEMMA NextSimulates ==
  ASSUME TypeOK, Control, StreamInv, [Next]_vars PROVE Simulates
<1> USE Parties DEF clientVars
<1>1. CASE PeerReads \/ PeerGone
  BY <1>1, LoopUntouched DEF PeerReads, PeerGone
<1>2. CASE BroadcastQueued \/ BroadcastWritten \/ BroadcastPartly \/ LoopPop
  BY <1>2, QueuedSimulates, WrittenSimulates, PartlySimulates, PopSimulates
<1>3. CASE BroadcastFails \/ LoopFails \/ ReaderEnds
  BY <1>3, Dropped DEF BroadcastFails, LoopFails, ReaderEnds
<1>4. ASSUME NEW w \in Writer, Write(w) \/ WriteSuspend(w) \/ Resume(w) PROVE Simulates
  <2>1. CASE w # Loop
    <3>1. UNCHANGED <<registered, queue, writing, asked, cut>>
      BY <1>4 DEF Write, WriteSuspend, Resume
    <3>2. /\ pc'[Loop] = pc[Loop] /\ frame'[Loop] = frame[Loop] /\ left'[Loop] = left[Loop]
          /\ sent'[Loop] = sent[Loop]
      BY <1>4, <2>1 DEF Write, WriteSuspend, Resume, Put, Goto, TypeOK, CoroutineOK, SocketOK
    <3>3. QED
      BY <3>1, <3>2, LoopUntouched
  <2>2. CASE Write(Loop)
    BY <2>2, LoopWriteSimulates
  <2>3. CASE WriteSuspend(Loop) \/ Resume(Loop)
    <3>1. /\ pc[Loop] \in InFrame /\ pc'[Loop] \in InFrame
          /\ UNCHANGED <<registered, queue, writing, asked, frame, left, sent, cut>>
      BY <2>3 DEF WriteSuspend, Resume, Goto, InFrame, TypeOK, CoroutineOK
    <3>2. QED
      BY <3>1, LoopWaits
  <2>4. QED
    BY <1>4, <2>1, <2>2, <2>3
<1>5. ASSUME NEW w \in Direct, BeginFrame(w) \/ EndFrame(w) PROVE Simulates
  <2>1. UNCHANGED <<registered, queue, writing, asked, cut, sent>>
    BY <1>5 DEF BeginFrame, EndFrame
  <2>2. pc'[Loop] = pc[Loop] /\ frame'[Loop] = frame[Loop] /\ left'[Loop] = left[Loop]
    BY <1>5 DEF BeginFrame, EndFrame, Goto, TypeOK, CoroutineOK
  <2>3. QED
    BY <2>1, <2>2, LoopUntouched
<1>6. ASSUME NEW h \in History, HistoryFails(h) PROVE Simulates
  BY <1>6, LoopUntouched DEF HistoryFails, Goto
<1>7. CASE UNCHANGED vars
  BY <1>7, LoopUntouched DEF vars
<1>8. QED
  BY <1>1, <1>2, <1>3, <1>4, <1>5, <1>6, <1>7 DEF Next

-----------------------------------------------------------------------------
LEMMA SenderInvariant == Spec => []SenderInv
<1>1. Init => SenderInv
  BY InitTypes, InitStream DEF SenderInv
<1>2. SenderInv /\ [Next]_vars => SenderInv'
  BY NextTypes, NextSimulates DEF SenderInv, Simulates
<1>3. QED
  BY <1>1, <1>2, PTL DEF Spec

\* send_queue never holds frames that no client_write_loop will write.
THEOREM QueueAlwaysServed == Spec => []QueueServed
<1>1. SenderInv => QueueServed
  BY DEF SenderInv, StreamInv
<1>2. QED
  BY <1>1, SenderInvariant, PTL

\* enqueue_or_write_frame and client_write_loop implement FrameStream: whatever
\* the direct writers and the peer do, broadcast frames reach the client entire,
\* in order, none skipped and none twice, until the client is dropped.
THEOREM StreamKept == Spec => KeepsStream
<1>1. Init => Stream!Init
  BY InitStream
<1>2. SenderInv /\ [Next]_vars => [Stream!Next]_Stream!vars
  BY NextSimulates DEF SenderInv, Simulates
<1>3. QED
  BY <1>1, <1>2, SenderInvariant, PTL DEF Spec, KeepsStream, Stream!Spec
=============================================================================
