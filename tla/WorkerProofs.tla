---------------------------- MODULE WorkerProofs ----------------------------
(* Theorems about Worker, for every set of connections, write loops,         *)
(* descriptors and threads.                                                  *)
EXTENDS Worker, TLAPS

-----------------------------------------------------------------------------
(* Facts about the constant sets, so that proofs need not expand them. *)

LEMMA Places ==
  /\ "unborn" \in Pc /\ "startWait" \in Pc /\ "read" \in Pc /\ "readEagain" \in Pc
  /\ "readWait" \in Pc /\ "readRetry" \in Pc /\ "serve" \in Pc /\ "serveWait" \in Pc
  /\ "write" \in Pc /\ "writeEagain" \in Pc /\ "writeWait" \in Pc /\ "writeRetry" \in Pc
  /\ "cleanup" \in Pc /\ "done" \in Pc
BY DEF Pc

LEMMA Parties ==
  /\ Conn \subseteq Coro /\ WriteLoop \subseteq Coro /\ Conn \cap WriteLoop = {}
  /\ NoCoro \notin Coro /\ NoFd \notin Fd
  /\ "IN" \in Event /\ "OUT" \in Event
  /\ Pool \subseteq Thread /\ Main \in Thread
BY WorkerAssumption DEF Coro, Event, Thread

\* Where a resumed coroutine continues is a place where it runs.
LEMMA ResumedRuns ==
  ASSUME NEW p \in Pc
  PROVE  /\ Resumed(p) \in Pc
         /\ Resumed(p) \notin Suspended
         /\ p \in {"unborn", "done"} <=> Resumed(p) \in {"unborn", "done"}
         /\ p \in Suspended => Resumed(p) \in {"read", "readRetry", "serve", "writeRetry"}
BY DEF Resumed, Pc, Suspended, OnFd, OnOther

-----------------------------------------------------------------------------
(* Types. *)

\* A coroutine that has started and not ended works on a descriptor.
FdKnown == \A c \in Coro : pc[c] \notin {"unborn", "done"} => fdOf[c] \in Fd

TypeInv == TypeOK /\ FdKnown

LEMMA ResumeKeepsFdKnown ==
  ASSUME NEW h \in Coro, pc \in [Coro -> Pc], FdKnown,
         pc' = [pc EXCEPT ![h] = Resumed(@)], UNCHANGED fdOf
  PROVE  pc' \in [Coro -> Pc] /\ FdKnown'
<1>1. /\ Resumed(pc[h]) \in Pc
      /\ pc[h] \in {"unborn", "done"} <=> Resumed(pc[h]) \in {"unborn", "done"}
  BY ResumedRuns
<1>2. pc' \in [Coro -> Pc]
  BY <1>1
<1>3. ASSUME NEW d \in Coro, pc'[d] \notin {"unborn", "done"} PROVE fdOf'[d] \in Fd
  <2>1. CASE d = h
    BY <1>1, <1>3, <2>1 DEF FdKnown
  <2>2. CASE d # h
    BY <1>3, <2>2 DEF FdKnown
  <2>3. QED
    BY <2>1, <2>2
<1>4. QED
  BY <1>2, <1>3 DEF FdKnown

LEMMA SetClientHandleTypes ==
  ASSUME NEW c \in Coro, NEW f \in Fd, SetClientHandle(c, f),
         handles \in [Fd -> Coro \cup {NoCoro}], readyEv \in [Fd -> SUBSET Event],
         pending \in Seq(Coro)
  PROVE  /\ handles' \in [Fd -> Coro \cup {NoCoro}] /\ readyEv' \in [Fd -> SUBSET Event]
         /\ pending' \in Seq(Coro)
<1>1. CASE readyEv[f] = {}
  BY <1>1 DEF SetClientHandle
<1>2. CASE readyEv[f] # {}
  BY <1>2 DEF SetClientHandle
<1>3. QED
  BY <1>1, <1>2

LEMMA EnvironmentKeepsTypes == TypeInv /\ Environment => TypeInv'
<1> SUFFICES ASSUME TypeInv, Environment PROVE TypeInv'
  OBVIOUS
<1> USE Parties, Places DEF TypeInv, TypeOK, FdKnown, kernelVars, loopVars, frameVars, Goto, Raise
<1>1. ASSUME NEW f \in Fd, PeerSend(f) PROVE TypeInv'
  BY <1>1 DEF PeerSend
<1>2. ASSUME NEW f \in Fd, PeerRead(f) PROVE TypeInv'
  BY <1>2 DEF PeerRead
<1>3. ASSUME NEW f \in Fd, PeerClose(f) PROVE TypeInv'
  BY <1>3 DEF PeerClose
<1>4. ASSUME NEW c \in Conn, NEW f \in Fd, Accept(c, f) PROVE TypeInv'
  BY <1>4, WorkerAssumption DEF Accept, WorkerAssumption
<1>5. ASSUME NEW t \in Thread, NEW c \in Coro, SchedulePush(t, c) PROVE TypeInv'
  BY <1>5 DEF SchedulePush
<1>6. ASSUME NEW t \in Thread, ScheduleWakeup(t) PROVE TypeInv'
  BY <1>6 DEF ScheduleWakeup
<1>7. ASSUME NEW c \in Coro, RedisAnswer(c) PROVE TypeInv'
  BY <1>7 DEF RedisAnswer
<1>8. QED
  BY <1>1, <1>2, <1>3, <1>4, <1>5, <1>6, <1>7 DEF Environment

LEMMA LoopKeepsTypes == TypeInv /\ Loop => TypeInv'
<1> SUFFICES ASSUME TypeInv, Loop PROVE TypeInv'
  OBVIOUS
<1> USE Parties, Places DEF TypeInv, TypeOK, FdKnown, kernelVars, loopVars, frameVars
<1>1. CASE EpollWait
  BY <1>1 DEF EpollWait, Poll, ReportedSpecial
<1>2. CASE DispatchWake
  BY <1>2 DEF DispatchWake
<1>3. ASSUME NEW c \in Coro, RedisCallback(c) PROVE TypeInv'
  BY <1>3 DEF RedisCallback
<1>4. CASE RedisHandlerReturn
  BY <1>4 DEF RedisHandlerReturn
<1>5. ASSUME NEW f \in Fd, DispatchFd(f) PROVE TypeInv'
  <2>1. CASE handles[f] # NoCoro
    <3>1. /\ handles[f] \in Coro
          /\ pc' = [pc EXCEPT ![handles[f]] = Resumed(@)]
          /\ running' = handles[f] /\ handles' = [handles EXCEPT ![f] = NoCoro]
          /\ batch' = [batch EXCEPT ![f] = {}]
          /\ UNCHANGED <<kernelVars, evfd, readyEv, pending, resuming, wpc, special, caller,
                         frameVars, ext, posting>>
      BY <1>5, <2>1 DEF DispatchFd
    <3>2. pc' \in [Coro -> Pc] /\ FdKnown'
      BY <3>1, ResumeKeepsFdKnown
    <3>3. QED
      BY <3>1, <3>2
  <2>2. CASE handles[f] = NoCoro
    <3>1. /\ readyEv' = [readyEv EXCEPT ![f] = @ \cup batch[f]]
          /\ batch' = [batch EXCEPT ![f] = {}]
          /\ UNCHANGED <<kernelVars, evfd, handles, running, pc, pending, resuming, wpc, special,
                         caller, frameVars, ext, posting>>
      BY <1>5, <2>2 DEF DispatchFd
    <3>2. readyEv' \in [Fd -> SUBSET Event]
      BY <3>1
    <3>3. QED
      BY <3>1, <3>2
  <2>3. QED
    BY <2>1, <2>2
<1>6. CASE SwapPending
  BY <1>6 DEF SwapPending
<1>7. CASE ResumeNext
  <2>1. /\ Head(resuming) \in Coro /\ Tail(resuming) \in Seq(Coro)
        /\ running' = Head(resuming)
        /\ pc' = [pc EXCEPT ![Head(resuming)] = Resumed(@)]
        /\ resuming' = Tail(resuming)
        /\ UNCHANGED <<kernelVars, evfd, handles, readyEv, pending, loopVars, caller, frameVars,
                       ext, posting>>
    BY <1>7 DEF ResumeNext
  <2>2. pc' \in [Coro -> Pc] /\ FdKnown'
    BY <2>1, ResumeKeepsFdKnown
  <2>3. QED
    BY <2>1, <2>2
<1>8. CASE DrainReturn
  BY <1>8 DEF DrainReturn
<1>9. QED
  BY <1>1, <1>2, <1>3, <1>4, <1>5, <1>6, <1>7, <1>8 DEF Loop

LEMMA CoroutineKeepsTypes ==
  ASSUME TypeInv, NEW c \in Coro, Coroutine(c)
  PROVE  TypeInv'
<1> USE Parties, Places DEF TypeInv, TypeOK, FdKnown, kernelVars, loopVars, frameVars
<1>1. CASE ReadData(c)
  <2>1. PICK p \in {"read", "serve"} : Goto(c, p)
    BY <1>1 DEF ReadData
  <2>2. /\ fdOf[c] \in Fd /\ rx[fdOf[c]] > 0 /\ rx' = [rx EXCEPT ![fdOf[c]] = @ - 1]
        /\ ClearIfFirst(c, "read")
        /\ UNCHANGED <<toSend, gone, space, interest, armed, evfd, handles, pending, resuming,
                       loopVars, running, caller, frameVars, ext, posting>>
    BY <1>1 DEF ReadData
  <2>3. rx' \in [Fd -> Nat]
    BY <2>2
  <2>4. QED
    BY <2>1, <2>2, <2>3 DEF Goto, ClearIfFirst
<1>2. CASE ReadEnd(c)
  BY <1>2 DEF ReadEnd, Goto, Yield, ClearIfFirst
<1>3. CASE ReadEagain(c)
  <2>1. PICK p \in {"readEagain", "read", "cleanup"} : Goto(c, p)
    BY <1>3 DEF ReadEagain
  <2>2. /\ fdOf[c] \in Fd
        /\ UNCHANGED <<kernelVars, evfd, handles, readyEv, pending, resuming, loopVars,
                       running, caller, frameVars, ext, posting>>
    BY <1>3 DEF ReadEagain
  <2>3. QED
    BY <2>1, <2>2 DEF Goto
<1>4. CASE WritePart(c)
  BY <1>4 DEF WritePart, Goto, Yield, ClearIfFirst
<1>5. CASE WriteRest(c)
  <2>1. PICK p \in {"read", "cleanup"} : Goto(c, p)
    BY <1>5 DEF WriteRest
  <2>2. client' = client \/ \E s \in {"none", "idle"} : client' = [client EXCEPT ![fdOf[c]] = s]
    BY <1>5 DEF WriteRest, WriteLoopIdle
  <2>3. /\ fdOf[c] \in Fd
        /\ ClearIfFirst(c, "write")
        /\ left' = [left EXCEPT ![c] = 0]
        /\ space' \in {space, space \ {fdOf[c]}}
        /\ UNCHANGED <<rx, toSend, gone, interest, armed, evfd, handles, pending, resuming,
                       loopVars, running, caller, fdOf, awaits, ext, posting>>
    BY <1>5 DEF WriteRest
  <2>4. client' \in [Fd -> {"none", "idle", "writing"}]
    BY <2>2
  <2>5. QED
    BY <2>1, <2>3, <2>4 DEF Goto, ClearIfFirst
<1>6. CASE WriteError(c)
  BY <1>6 DEF WriteError, WriteLoopDrop, Goto, Yield, ClearIfFirst
<1>7. CASE WriteEagain(c)
  <2>1. PICK p \in {"writeEagain", "write", "cleanup"} : Goto(c, p)
    BY <1>7 DEF WriteEagain
  <2>2. /\ fdOf[c] \in Fd
        /\ client' = client \/ client' = [client EXCEPT ![fdOf[c]] = "none"]
        /\ gone' = gone \/ gone' = gone \cup {fdOf[c]}
        /\ armed' = armed \/ armed' = armed \cup {fdOf[c]}
        /\ UNCHANGED <<rx, toSend, space, interest, evfd, handles, readyEv, pending, resuming,
                       loopVars, running, caller, fdOf, awaits, left, ext, posting>>
    BY <1>7 DEF WriteEagain, WriteLoopDrop
  <2>3. client' \in [Fd -> {"none", "idle", "writing"}]
    BY <2>2
  <2>4. gone' \subseteq Fd /\ armed' \subseteq Fd
    BY <2>2
  <2>5. pc' \in [Coro -> Pc] /\ FdKnown'
    BY <2>1, <2>2 DEF Goto
  <2>6. QED
    BY <2>2, <2>3, <2>4, <2>5
<1>8. CASE AwaitSuspend(c)
  <2>1. PICK p \in {"readWait", "writeWait"}, e \in Event : Goto(c, p) /\ ModClientFd(fdOf[c], e)
    BY <1>8 DEF AwaitSuspend, Want
  <2>2. /\ fdOf[c] \in Fd
        /\ SetClientHandle(c, fdOf[c])
        /\ Yield
        /\ UNCHANGED <<rx, toSend, gone, space, evfd, resuming, loopVars, frameVars, ext, posting>>
    BY <1>8 DEF AwaitSuspend
  <2>3. /\ handles' \in [Fd -> Coro \cup {NoCoro}] /\ readyEv' \in [Fd -> SUBSET Event]
        /\ pending' \in Seq(Coro)
    BY <2>2, SetClientHandleTypes
  <2>4. interest' \in [Fd -> SUBSET Event] /\ armed' \subseteq Fd
    BY <2>1, <2>2 DEF ModClientFd
  <2>5. QED
    BY <2>1, <2>2, <2>3, <2>4 DEF Goto, Yield
<1>9. CASE AwaitRedis(c)
  <2>1. /\ pc[c] = "serve" /\ Goto(c, "serveWait") /\ Yield
        /\ awaits' = [awaits EXCEPT ![c] = @ + 1]
        /\ UNCHANGED <<kernelVars, handles, readyEv, resuming, loopVars, fdOf, left, client,
                       posting>>
    BY <1>9 DEF AwaitRedis
  <2>2. /\ ext' = ext \/ ext' = [ext EXCEPT ![c] = "redis"]
        /\ pending' = pending \/ pending' = Append(pending, c)
        /\ evfd' = evfd \/ evfd' = 1
    BY <1>9 DEF AwaitRedis
  <2>3. ext' \in [Coro -> {"none", "main", "pool", "redis", "reply"}]
    BY <2>2
  <2>4. Append(pending, c) \in Seq(Coro)
    OBVIOUS
  <2>5. pending' \in Seq(Coro)
    BY <2>2, <2>4
  <2>6. awaits' \in [Coro -> Nat]
    BY <2>1
  <2>7. QED
    BY <2>1, <2>2, <2>3, <2>5, <2>6 DEF Goto, Yield
<1>10. CASE AwaitMySQL(c)
  BY <1>10 DEF AwaitMySQL, Goto, Yield, ClearIfFirst
<1>11. CASE Respond(c)
  <2>1. PICK p \in {"write", "read"} : Goto(c, p)
    BY <1>11 DEF Respond
  <2>2. /\ pc[c] = "serve"
        /\ awaits' = [awaits EXCEPT ![c] = 0]
        /\ left' = left \/ \E n \in Nat : left' = [left EXCEPT ![c] = n]
        /\ UNCHANGED <<kernelVars, evfd, handles, readyEv, pending, resuming, loopVars, running,
                       caller, fdOf, client, ext, posting>>
    BY <1>11, WorkerAssumption DEF Respond, WorkerAssumption
  <2>3. CASE left' = left
    BY <2>1, <2>2, <2>3 DEF Goto
  <2>4. ASSUME NEW n \in Nat, left' = [left EXCEPT ![c] = n] PROVE TypeInv'
    BY <2>1, <2>2, <2>4 DEF Goto
  <2>5. QED
    BY <2>2, <2>3, <2>4
<1>12. ASSUME NEW w \in WriteLoop, NEW f \in Fd, StartWriteLoop(c, w, f) PROVE TypeInv'
  BY <1>12 DEF StartWriteLoop, Goto, Yield, ClearIfFirst
<1>13. ASSUME NEW f \in Fd, BroadcastError(c, f) PROVE TypeInv'
  BY <1>13 DEF BroadcastError, Goto, Yield, ClearIfFirst
<1>14. CASE CloseConn(c)
  BY <1>14 DEF CloseConn, Goto, Yield, ClearIfFirst
<1>15. CASE EndWriteLoop(c)
  BY <1>15 DEF EndWriteLoop, Goto, Yield, ClearIfFirst
<1>16. QED
  BY <1>1, <1>2, <1>3, <1>4, <1>5, <1>6, <1>7, <1>8, <1>9, <1>10, <1>11, <1>12, <1>13, <1>14, <1>15 DEF Coroutine

LEMMA TypeInvariant == Spec => []TypeInv
<1>1. Init => TypeInv
  BY Parties, Places DEF Init, TypeInv, TypeOK, FdKnown
<1>2. TypeInv /\ [Next]_vars => TypeInv'
  <2>1. CASE UNCHANGED vars
    BY <2>1 DEF vars, TypeInv, TypeOK, FdKnown, kernelVars, loopVars, frameVars
  <2>2. CASE Next
    BY <2>2, EnvironmentKeepsTypes, LoopKeepsTypes, CoroutineKeepsTypes DEF Next, WorkerStep
  <2>3. QED
    BY <2>1, <2>2
<1>3. QED
  BY <1>1, <1>2, PTL DEF Spec

\* Every variable keeps its type: no step of the Worker, of a coroutine, of
\* another thread or of a peer leaves the values coro_net.h gives its fields.
THEOREM TypeCorrect == Spec => []TypeOK
<1>1. TypeInv => TypeOK
  BY DEF TypeInv
<1>2. QED
  BY <1>1, TypeInvariant, PTL

-----------------------------------------------------------------------------
(* Queues of handles. *)

LEMMA InAppend ==
  ASSUME NEW c \in Coro, NEW d \in Coro, NEW q \in Seq(Coro)
  PROVE  InQueue(d, Append(q, c)) <=> InQueue(d, q) \/ d = c
<1>1. Len(Append(q, c)) = Len(q) + 1 /\ Append(q, c)[Len(q) + 1] = c
  OBVIOUS
<1>2. \A i \in 1..Len(q) : Append(q, c)[i] = q[i]
  OBVIOUS
<1>3. Len(q) \in Nat
  OBVIOUS
<1>4. QED
  BY <1>1, <1>2, <1>3 DEF InQueue

LEMMA DistinctAppend ==
  ASSUME NEW c \in Coro, NEW q \in Seq(Coro), Distinct(q), ~InQueue(c, q)
  PROVE  Distinct(Append(q, c))
<1>1. Len(Append(q, c)) = Len(q) + 1 /\ Append(q, c)[Len(q) + 1] = c
  OBVIOUS
<1>2. \A i \in 1..Len(q) : Append(q, c)[i] = q[i]
  OBVIOUS
<1>3. Len(q) \in Nat
  OBVIOUS
<1>4. QED
  BY <1>1, <1>2, <1>3 DEF InQueue, Distinct

LEMMA TakeHead ==
  ASSUME NEW q \in Seq(Coro), q # <<>>, Distinct(q)
  PROVE  /\ Head(q) \in Coro /\ Tail(q) \in Seq(Coro)
         /\ InQueue(Head(q), q)
         /\ Distinct(Tail(q))
         /\ \A d \in Coro : InQueue(d, Tail(q)) <=> InQueue(d, q) /\ d # Head(q)
<1>1. Len(q) \in Nat /\ Len(q) > 0 /\ Head(q) = q[1]
  OBVIOUS
<1>2. Len(Tail(q)) = Len(q) - 1 /\ Tail(q) \in Seq(Coro) /\ Head(q) \in Coro
  OBVIOUS
<1>3. \A i \in 1..Len(Tail(q)) : Tail(q)[i] = q[i + 1]
  OBVIOUS
<1>4. InQueue(Head(q), q)
  BY <1>1 DEF InQueue
<1>5. Distinct(Tail(q))
  <2> SUFFICES ASSUME NEW i \in 1..Len(Tail(q)), NEW j \in 1..Len(Tail(q)),
                      Tail(q)[i] = Tail(q)[j]
               PROVE  i = j
    BY DEF Distinct
  <2>1. i + 1 \in 1..Len(q) /\ j + 1 \in 1..Len(q) /\ q[i + 1] = q[j + 1]
    BY <1>1, <1>2, <1>3
  <2>2. i + 1 = j + 1
    BY <2>1 DEF Distinct
  <2>3. QED
    BY <2>2, <1>1, <1>2
<1>6. ASSUME NEW d \in Coro, InQueue(d, Tail(q)) PROVE InQueue(d, q) /\ d # Head(q)
  <2>1. PICK i \in 1..Len(Tail(q)) : Tail(q)[i] = d
    BY <1>6 DEF InQueue
  <2>2. i + 1 \in 1..Len(q) /\ q[i + 1] = d /\ i + 1 # 1 /\ 1 \in 1..Len(q)
    BY <2>1, <1>1, <1>2, <1>3
  <2>3. d # q[1]
    BY <2>2 DEF Distinct
  <2>4. QED
    BY <2>2, <2>3, <1>1 DEF InQueue
<1>7. ASSUME NEW d \in Coro, InQueue(d, q), d # Head(q) PROVE InQueue(d, Tail(q))
  <2>1. PICK i \in 1..Len(q) : q[i] = d
    BY <1>7 DEF InQueue
  <2>2. i - 1 \in 1..Len(Tail(q)) /\ (i - 1) + 1 = i
    BY <2>1, <1>7, <1>1, <1>2
  <2>3. QED
    BY <2>1, <2>2, <1>3 DEF InQueue
<1>8. QED
  BY <1>2, <1>4, <1>5, <1>6, <1>7

LEMMA InEmpty == Distinct(<<>>) /\ \A d \in Coro : ~InQueue(d, <<>>)
BY DEF Distinct, InQueue

-----------------------------------------------------------------------------
(* Each step keeps every handle where it is, or moves one handle: the lemmas *)
(* say what a move does to HandleOnce, and the steps are sorted by their     *)
(* move.                                                                     *)

\* No handle moves, and no coroutine that was suspended goes on.
LEMMA NoMove ==
  ASSUME HandleOnce, UNCHANGED <<handles, pending, resuming>>,
         \A d \in Coro : ext'[d] # "none" <=> ext[d] # "none",
         \A d \in Coro : pc[d] \in Suspended => pc'[d] \in Suspended
  PROVE  HandleOnce'
<1>1. \A d \in Coro : Held(d)' <=> Held(d)
  BY DEF Held, WaitsForFd
<1>2. \A d \in Coro : WaitsForFd(d)' <=> WaitsForFd(d)
  BY DEF WaitsForFd
<1>3. QED
  BY <1>1, <1>2 DEF HandleOnce

\* A coroutine that runs gives its handle to another thread or to Redis.
LEMMA GiveAway ==
  ASSUME HandleOnce, NEW c \in Coro, ~Held(c), UNCHANGED <<handles, pending, resuming>>,
         NEW x, x # "none", ext \in [Coro -> {"none", "main", "pool", "redis", "reply"}],
         ext' = [ext EXCEPT ![c] = x], pc'[c] \in Suspended,
         \A d \in Coro : d # c => pc'[d] = pc[d]
  PROVE  HandleOnce'
<1>1. ext'[c] = x /\ \A d \in Coro : d # c => ext'[d] = ext[d]
  OBVIOUS
<1>2. \A d \in Coro : WaitsForFd(d)' <=> WaitsForFd(d)
  BY DEF WaitsForFd
<1>3. \A d \in Coro : d # c => (Held(d)' <=> Held(d))
  BY <1>1, <1>2 DEF Held
<1>4. QED
  BY <1>1, <1>2, <1>3 DEF HandleOnce, Held

\* Another thread or the Redis callback pushes the handle it held.
LEMMA PushBack ==
  ASSUME TypeOK, HandleOnce, NEW c \in Coro, ext[c] # "none",
         UNCHANGED <<handles, resuming, pc>>,
         ext' = [ext EXCEPT ![c] = "none"], pending' = Append(pending, c)
  PROVE  HandleOnce'
<1>1. ext'[c] = "none" /\ \A d \in Coro : d # c => ext'[d] = ext[d]
  BY DEF TypeOK
<1>2. \A d \in Coro : WaitsForFd(d)' <=> WaitsForFd(d)
  BY DEF WaitsForFd
<1>3. ~WaitsForFd(c) /\ ~InQueue(c, pending) /\ ~InQueue(c, resuming) /\ Held(c)
  BY DEF HandleOnce, Held
<1>4. pending \in Seq(Coro)
  BY DEF TypeOK
<1>5. Distinct(pending')
  BY <1>3, <1>4, DistinctAppend DEF HandleOnce
<1>6. \A d \in Coro : InQueue(d, pending') <=> InQueue(d, pending) \/ d = c
  BY <1>4, InAppend
<1>7. \A d \in Coro : Held(d)' <=> Held(d)
  BY <1>1, <1>2, <1>3, <1>6 DEF Held
<1>8. QED
  BY <1>1, <1>2, <1>3, <1>5, <1>6, <1>7 DEF HandleOnce

\* A coroutine that runs is pushed at once: its event came early, or its
\* command was refused.
LEMMA PushSelf ==
  ASSUME TypeOK, HandleOnce, NEW c \in Coro, ~Held(c), UNCHANGED <<resuming, ext>>,
         NEW f \in Fd, handles' = handles \/ handles' = [handles EXCEPT ![f] = NoCoro],
         pending' = Append(pending, c), pc'[c] \in Suspended,
         \A d \in Coro : d # c => pc'[d] = pc[d]
  PROVE  HandleOnce'
<1>1. \A g \in Fd : handles'[g] = handles[g] \/ handles'[g] = NoCoro
  BY DEF TypeOK
<1>2. \A d \in Coro : WaitsForFd(d)' => WaitsForFd(d)
  BY <1>1, Parties DEF WaitsForFd
<1>3. ~WaitsForFd(c) /\ ~InQueue(c, pending) /\ ~InQueue(c, resuming) /\ ext[c] = "none"
  BY DEF Held
<1>4. pending \in Seq(Coro)
  BY DEF TypeOK
<1>5. Distinct(pending')
  BY <1>3, <1>4, DistinctAppend DEF HandleOnce
<1>6. \A d \in Coro : InQueue(d, pending') <=> InQueue(d, pending) \/ d = c
  BY <1>4, InAppend
<1>7. \A d \in Coro : d # c /\ Held(d)' => Held(d)
  BY <1>2, <1>6 DEF Held
<1>8. \A g, h \in Fd : handles'[g] = handles'[h] /\ g # h => handles'[g] = NoCoro
  BY <1>1 DEF HandleOnce
<1>9. QED
  BY <1>2, <1>3, <1>5, <1>6, <1>7, <1>8 DEF HandleOnce

\* A coroutine that runs registers for a descriptor.
LEMMA Register ==
  ASSUME TypeOK, HandleOnce, NEW c \in Coro, ~Held(c), UNCHANGED <<pending, resuming, ext>>,
         NEW f \in Fd, handles' = [handles EXCEPT ![f] = c], pc'[c] \in Suspended,
         \A d \in Coro : d # c => pc'[d] = pc[d]
  PROVE  HandleOnce'
<1>1. handles'[f] = c /\ \A g \in Fd : g # f => handles'[g] = handles[g]
  BY DEF TypeOK
<1>2. \A d \in Coro : d # c /\ WaitsForFd(d)' => WaitsForFd(d)
  BY <1>1 DEF WaitsForFd
<1>3. ~WaitsForFd(c) /\ ~InQueue(c, pending) /\ ~InQueue(c, resuming) /\ ext[c] = "none"
  BY DEF Held
<1>4. \A g, h \in Fd : handles'[g] = handles'[h] /\ g # h => handles'[g] = NoCoro
  BY <1>1, <1>3 DEF HandleOnce, WaitsForFd
<1>5. \A d \in Coro : d # c /\ Held(d)' => Held(d)
  BY <1>2 DEF Held
<1>6. QED
  BY <1>2, <1>3, <1>4, <1>5 DEF HandleOnce

\* A registered handle is taken out, by the loop that resumes it or by
\* del_client_fd.  If its coroutine goes on, it was in no other place.
LEMMA Unregister ==
  ASSUME TypeOK, HandleOnce, NEW f \in Fd, UNCHANGED <<pending, resuming, ext>>,
         handles' = [handles EXCEPT ![f] = NoCoro],
         \A d \in Coro : pc[d] \in Suspended /\ d # handles[f] => pc'[d] \in Suspended
  PROVE  HandleOnce'
<1>1. handles'[f] = NoCoro /\ \A g \in Fd : g # f => handles'[g] = handles[g]
  BY DEF TypeOK
<1>2. \A d \in Coro : WaitsForFd(d)' => WaitsForFd(d) /\ d # handles[f]
  BY <1>1, Parties DEF WaitsForFd, HandleOnce
<1>3. \A d \in Coro : Held(d)' => Held(d) /\ d # handles[f]
  BY <1>2 DEF Held, HandleOnce, WaitsForFd
<1>4. \A g, h \in Fd : handles'[g] = handles'[h] /\ g # h => handles'[g] = NoCoro
  BY <1>1 DEF HandleOnce
<1>5. QED
  BY <1>2, <1>3, <1>4 DEF HandleOnce

LEMMA EnvironmentKeepsHandleOnce == TypeInv /\ HandleOnce /\ Environment => HandleOnce'
<1> SUFFICES ASSUME TypeInv, HandleOnce, Environment PROVE HandleOnce'
  OBVIOUS
<1> USE Parties
<1>0. TypeOK
  BY DEF TypeInv
<1>1. ASSUME NEW f \in Fd, PeerSend(f) \/ PeerRead(f) \/ PeerClose(f) PROVE HandleOnce'
  <2>1. UNCHANGED <<handles, pending, resuming, ext, pc>>
    BY <1>1 DEF PeerSend, PeerRead, PeerClose
  <2>2. QED
    BY <2>1, NoMove
<1>2. ASSUME NEW c \in Conn, NEW f \in Fd, Accept(c, f) PROVE HandleOnce'
  <2>1. /\ pc[c] = "unborn" /\ pc' = [pc EXCEPT ![c] = "startWait"]
        /\ ext' = [ext EXCEPT ![c] = "main"]
        /\ UNCHANGED <<handles, pending, resuming>>
    BY <1>2 DEF Accept
  <2>2. c \in Coro /\ pc'[c] \in Suspended /\ \A d \in Coro : d # c => pc'[d] = pc[d]
    BY <1>0, <2>1 DEF TypeOK, Suspended, OnOther
  <2>3. ~Held(c)
    BY <2>1, <2>2 DEF HandleOnce, Suspended, OnOther, OnFd
  <2>4. ext \in [Coro -> {"none", "main", "pool", "redis", "reply"}]
    BY <1>0 DEF TypeOK
  <2>5. QED
    BY <2>1, <2>2, <2>3, <2>4, GiveAway
<1>3. ASSUME NEW t \in Thread, NEW c \in Coro, SchedulePush(t, c) PROVE HandleOnce'
  <2>1. /\ ext[c] # "none" /\ ext' = [ext EXCEPT ![c] = "none"]
        /\ pending' = Append(pending, c)
        /\ UNCHANGED <<handles, resuming, pc>>
    BY <1>3 DEF SchedulePush
  <2>2. QED
    BY <1>0, <2>1, PushBack
<1>4. ASSUME NEW t \in Thread, ScheduleWakeup(t) PROVE HandleOnce'
  <2>1. UNCHANGED <<handles, pending, resuming, ext, pc>>
    BY <1>4 DEF ScheduleWakeup
  <2>2. QED
    BY <2>1, NoMove
<1>5. ASSUME NEW c \in Coro, RedisAnswer(c) PROVE HandleOnce'
  <2>1. /\ ext[c] = "redis" /\ ext' = [ext EXCEPT ![c] = "reply"]
        /\ UNCHANGED <<handles, pending, resuming, pc>>
    BY <1>5 DEF RedisAnswer
  <2>2. \A d \in Coro : ext'[d] # "none" <=> ext[d] # "none"
    BY <1>0, <2>1 DEF TypeOK
  <2>3. QED
    BY <2>1, <2>2, NoMove
<1>6. QED
  BY <1>1, <1>2, <1>3, <1>4, <1>5 DEF Environment

LEMMA ResumeKeepsOthers ==
  ASSUME TypeOK, NEW h \in Coro, pc' = [pc EXCEPT ![h] = Resumed(@)]
  PROVE  /\ pc'[h] \notin Suspended
         /\ \A d \in Coro : d # h => pc'[d] = pc[d]
<1>1. pc[h] \in Pc /\ pc'[h] = Resumed(pc[h])
  BY DEF TypeOK
<1>2. pc'[h] \notin Suspended
  BY <1>1, ResumedRuns
<1>3. QED
  BY <1>2 DEF TypeOK

LEMMA LoopKeepsHandleOnce == TypeInv /\ HandleOnce /\ Loop => HandleOnce'
<1> SUFFICES ASSUME TypeInv, HandleOnce, Loop PROVE HandleOnce'
  OBVIOUS
<1>0. TypeOK
  BY DEF TypeInv
<1>1. CASE EpollWait \/ DispatchWake \/ RedisHandlerReturn \/ DrainReturn
  <2>1. UNCHANGED <<handles, pending, resuming, ext, pc>>
    BY <1>1 DEF EpollWait, DispatchWake, RedisHandlerReturn, DrainReturn
  <2>2. QED
    BY <2>1, NoMove
<1>2. ASSUME NEW c \in Coro, RedisCallback(c) PROVE HandleOnce'
  <2>1. /\ ext[c] # "none" /\ ext' = [ext EXCEPT ![c] = "none"]
        /\ pending' = Append(pending, c)
        /\ UNCHANGED <<handles, resuming, pc>>
    BY <1>2 DEF RedisCallback
  <2>2. QED
    BY <1>0, <2>1, PushBack
<1>3. ASSUME NEW f \in Fd, DispatchFd(f) PROVE HandleOnce'
  <2>1. CASE handles[f] # NoCoro
    <3>1. /\ handles[f] \in Coro
          /\ pc' = [pc EXCEPT ![handles[f]] = Resumed(@)]
          /\ handles' = [handles EXCEPT ![f] = NoCoro]
          /\ UNCHANGED <<pending, resuming, ext>>
      BY <1>0, <1>3, <2>1 DEF DispatchFd, TypeOK
    <3>2. \A d \in Coro : d # handles[f] => pc'[d] = pc[d]
      BY <1>0, <3>1, ResumeKeepsOthers
    <3>3. QED
      BY <1>0, <3>1, <3>2, Unregister
  <2>2. CASE handles[f] = NoCoro
    <3>1. UNCHANGED <<handles, pending, resuming, ext, pc>>
      BY <1>3, <2>2 DEF DispatchFd
    <3>2. QED
      BY <3>1, NoMove
  <2>3. QED
    BY <2>1, <2>2
<1>4. CASE SwapPending
  <2>1. /\ resuming' = pending /\ pending' = <<>>
        /\ UNCHANGED <<handles, ext, pc>>
    BY <1>4 DEF SwapPending
  <2>2. Distinct(pending') /\ \A d \in Coro : ~InQueue(d, pending')
    BY <2>1, InEmpty
  <2>3. \A d \in Coro : WaitsForFd(d)' <=> WaitsForFd(d)
    BY <2>1 DEF WaitsForFd
  <2>4. \A d \in Coro : InQueue(d, resuming') <=> InQueue(d, pending)
    BY <2>1
  <2>5. \A d \in Coro : Held(d)' => Held(d)
    BY <2>1, <2>2, <2>3, <2>4 DEF Held
  <2>6. QED
    BY <2>1, <2>2, <2>3, <2>4, <2>5 DEF HandleOnce
<1>5. CASE ResumeNext
  <2>1. /\ resuming # <<>> /\ resuming' = Tail(resuming)
        /\ pc' = [pc EXCEPT ![Head(resuming)] = Resumed(@)]
        /\ UNCHANGED <<handles, pending, ext>>
    BY <1>5 DEF ResumeNext
  <2>2. resuming \in Seq(Coro) /\ Distinct(resuming)
    BY <1>0 DEF TypeOK, HandleOnce
  <2>3. /\ Head(resuming) \in Coro
        /\ InQueue(Head(resuming), resuming)
        /\ Distinct(resuming')
        /\ \A d \in Coro : InQueue(d, resuming') <=> InQueue(d, resuming) /\ d # Head(resuming)
    BY <2>1, <2>2, TakeHead
  <2>4. \A d \in Coro : WaitsForFd(d)' <=> WaitsForFd(d)
    BY <2>1 DEF WaitsForFd
  <2>5. \A d \in Coro : d # Head(resuming) => pc'[d] = pc[d]
    BY <1>0, <2>1, <2>3, ResumeKeepsOthers
  <2>6. \A d \in Coro : Held(d)' => Held(d) /\ d # Head(resuming)
    BY <2>1, <2>3, <2>4 DEF Held, HandleOnce
  <2>7. QED
    BY <2>1, <2>3, <2>4, <2>5, <2>6 DEF HandleOnce
<1>6. QED
  BY <1>1, <1>2, <1>3, <1>4, <1>5 DEF Loop

LEMMA CoroutineKeepsHandleOnce ==
  ASSUME TypeInv, HandleOnce, NEW c \in Coro, Coroutine(c)
  PROVE  HandleOnce'
<1> USE Parties
<1>0. TypeOK /\ pc \in [Coro -> Pc]
  BY DEF TypeInv, TypeOK
<1>1. CASE \/ ReadData(c) \/ ReadEnd(c) \/ ReadEagain(c) \/ WritePart(c) \/ WriteRest(c)
           \/ WriteError(c) \/ WriteEagain(c) \/ Respond(c) \/ EndWriteLoop(c)
  <2>1. /\ UNCHANGED <<handles, pending, resuming, ext>>
        /\ pc[c] \notin Suspended
        /\ \E p \in Pc : Goto(c, p)
    <3>1. CASE ReadData(c) \/ ReadEnd(c) \/ ReadEagain(c)
      BY <3>1, Places DEF ReadData, ReadEnd, ReadEagain, Suspended, OnFd, OnOther
    <3>2. CASE WritePart(c) \/ WriteRest(c) \/ WriteError(c) \/ WriteEagain(c)
      BY <3>2, Places DEF WritePart, WriteRest, WriteError, WriteEagain, Suspended, OnFd, OnOther
    <3>3. CASE Respond(c) \/ EndWriteLoop(c)
      BY <3>3, Places DEF Respond, EndWriteLoop, Suspended, OnFd, OnOther
    <3>4. QED
      BY <1>1, <3>1, <3>2, <3>3
  <2>2. \A d \in Coro : pc[d] \in Suspended => pc'[d] \in Suspended
    BY <1>0, <2>1 DEF Goto
  <2>3. QED
    BY <2>1, <2>2, NoMove
<1>2. CASE AwaitSuspend(c)
  <2>1. /\ pc[c] \in {"readEagain", "writeEagain"}
        /\ SetClientHandle(c, fdOf[c])
        /\ Goto(c, IF pc[c] = "readEagain" THEN "readWait" ELSE "writeWait")
        /\ UNCHANGED <<resuming, ext>>
    BY <1>2 DEF AwaitSuspend
  <2>2. fdOf[c] \in Fd /\ ~Held(c)
    BY <2>1 DEF TypeInv, FdKnown, HandleOnce, Suspended, OnFd, OnOther
  <2>3. pc'[c] \in Suspended /\ \A d \in Coro : d # c => pc'[d] = pc[d]
    BY <1>0, <2>1 DEF Goto, Suspended, OnFd
  <2>4. CASE readyEv[fdOf[c]] # {}
    <3>1. pending' = Append(pending, c) /\ handles' = [handles EXCEPT ![fdOf[c]] = NoCoro]
      BY <2>1, <2>4 DEF SetClientHandle
    <3>2. QED
      BY <1>0, <2>1, <2>2, <2>3, <3>1, PushSelf
  <2>5. CASE readyEv[fdOf[c]] = {}
    <3>1. UNCHANGED pending /\ handles' = [handles EXCEPT ![fdOf[c]] = c]
      BY <2>1, <2>5 DEF SetClientHandle
    <3>2. QED
      BY <1>0, <2>1, <2>2, <2>3, <3>1, Register
  <2>6. QED
    BY <2>4, <2>5
<1>3. CASE AwaitRedis(c) \/ AwaitMySQL(c)
  <2>1. /\ pc[c] = "serve" /\ Goto(c, "serveWait")
        /\ UNCHANGED <<handles, resuming>>
    BY <1>3 DEF AwaitRedis, AwaitMySQL
  <2>2. ~Held(c)
    BY <2>1 DEF HandleOnce, Suspended, OnFd, OnOther
  <2>3. pc'[c] \in Suspended /\ \A d \in Coro : d # c => pc'[d] = pc[d]
    BY <1>0, <2>1 DEF Goto, Suspended, OnOther
  <2>4. \/ pending' = Append(pending, c) /\ UNCHANGED ext
        \/ UNCHANGED pending /\ \E x \in {"redis", "pool"} : ext' = [ext EXCEPT ![c] = x]
    BY <1>3 DEF AwaitRedis, AwaitMySQL
  <2>5. CASE pending' = Append(pending, c) /\ UNCHANGED ext
    BY <1>0, <2>1, <2>2, <2>3, <2>5, PushSelf DEF TypeInv, FdKnown
  <2>6. ASSUME UNCHANGED pending, NEW x \in {"redis", "pool"}, ext' = [ext EXCEPT ![c] = x]
        PROVE  HandleOnce'
    <3>1. x # "none" /\ ext \in [Coro -> {"none", "main", "pool", "redis", "reply"}]
      BY <1>0 DEF TypeOK
    <3>2. QED
      BY <2>1, <2>2, <2>3, <2>6, <3>1, GiveAway
  <2>7. QED
    BY <2>4, <2>5, <2>6
<1>4. ASSUME NEW w \in WriteLoop, NEW f \in Fd, StartWriteLoop(c, w, f) PROVE HandleOnce'
  <2>1. /\ pc[w] = "unborn" /\ Goto(w, "write")
        /\ UNCHANGED <<handles, pending, resuming, ext>>
    BY <1>4 DEF StartWriteLoop
  <2>2. \A d \in Coro : pc[d] \in Suspended => pc'[d] \in Suspended
    BY <1>0, <2>1 DEF Goto, Suspended, OnFd, OnOther
  <2>3. QED
    BY <2>1, <2>2, NoMove
<1>5. ASSUME NEW f \in Fd, BroadcastError(c, f) PROVE HandleOnce'
  <2>1. UNCHANGED <<handles, pending, resuming, ext, pc>>
    BY <1>5 DEF BroadcastError
  <2>2. QED
    BY <2>1, NoMove
<1>6. CASE CloseConn(c)
  <2>1. /\ pc[c] = "cleanup" /\ Goto(c, "done")
        /\ handles' = [handles EXCEPT ![fdOf[c]] = NoCoro]
        /\ UNCHANGED <<pending, resuming, ext>>
    BY <1>6 DEF CloseConn
  <2>2. fdOf[c] \in Fd
    BY <2>1 DEF TypeInv, FdKnown
  <2>3. \A d \in Coro : pc[d] \in Suspended => pc'[d] \in Suspended
    BY <1>0, <2>1 DEF Goto, Suspended, OnFd, OnOther
  <2>4. QED
    BY <1>0, <2>1, <2>2, <2>3, Unregister
<1>7. QED
  BY <1>1, <1>2, <1>3, <1>4, <1>5, <1>6 DEF Coroutine

\* The handle of a suspended coroutine is held by one party only (handles_,
\* pending_resumes_, to_resume, another thread or Redis), and nobody holds the
\* handle of a coroutine that runs or whose frame is gone: no schedule(),
\* set_client_handle() or Redis callback ever makes coro_net.h resume twice.
THEOREM HandledOnce == Spec => []HandleOnce
<1>1. Init => HandleOnce
  <2> SUFFICES ASSUME Init PROVE HandleOnce
    OBVIOUS
  <2>1. /\ pending = <<>> /\ resuming = <<>>
        /\ \A f \in Fd : handles[f] = NoCoro
        /\ \A c \in Coro : ext[c] = "none"
    BY DEF Init
  <2>2. \A c \in Coro : ~WaitsForFd(c) /\ ~Held(c)
    BY <2>1, InEmpty, Parties DEF WaitsForFd, Held
  <2>3. QED
    BY <2>1, <2>2, InEmpty DEF HandleOnce
<1>2. TypeInv /\ HandleOnce /\ [Next]_vars => HandleOnce'
  <2> SUFFICES ASSUME TypeInv, HandleOnce, [Next]_vars PROVE HandleOnce'
    OBVIOUS
  <2>1. CASE UNCHANGED vars
    <3>1. UNCHANGED <<handles, pending, resuming, ext, pc>>
      BY <2>1 DEF vars
    <3>2. QED
      BY <3>1, NoMove
  <2>2. CASE Next
    BY <2>2, EnvironmentKeepsHandleOnce, LoopKeepsHandleOnce, CoroutineKeepsHandleOnce
    DEF Next, WorkerStep
  <2>3. QED
    BY <2>1, <2>2
<1>3. QED
  BY <1>1, <1>2, TypeInvariant, PTL DEF Spec

-----------------------------------------------------------------------------
(* The edge-triggered protocol: why no coroutine waits for an event that has   *)
(* been reported and lost.  First, what the other invariants rest on.          *)

Runs(c) == pc[c] \notin {"unborn", "done"} \cup Suspended

\* Only the coroutine that executes, and the one that called it, are between
\* two suspension points; only a write loop has a caller.
StackKnown ==
  /\ \A c \in Coro : Runs(c) => c \in {running, caller}
  /\ running \notin WriteLoop => caller = NoCoro

UnbornNoFd == \A c \in Coro : pc[c] = "unborn" => fdOf[c] = NoFd

\* A descriptor that is not open is watched by nobody.
ClosedFd == \A f \in Fd : ~Open(f) => f \in gone /\ handles[f] = NoCoro

\* await_suspend works on a descriptor that is still open.
SuspendsOnOpenFd ==
  \A c \in Coro : pc[c] \in {"readEagain", "writeEagain"} => Open(fdOf[c])

\* epoll_wait is called when the last batch has been dispatched.
BatchDone == wpc \in {"wait", "drainEnd"} => \A f \in Fd : batch[f] = {}

EdgeInv == StackKnown /\ UnbornNoFd /\ ClosedFd /\ SuspendsOnOpenFd /\ BatchDone

-----------------------------------------------------------------------------
(* The shape of the steps: what each does to pc, running and caller. *)

\* A step of the thread of the Worker in which a coroutine executes.
LEMMA CoroutineShape ==
  ASSUME TypeInv, NEW c \in Coro, Coroutine(c)
  PROVE  /\ running = c /\ Runs(c)
         /\ UNCHANGED <<wpc, batch, resuming>>
         /\ \/ UNCHANGED <<running, caller>> /\ \E p \in Pc \ {"unborn"} : Goto(c, p)
            \/ Yield /\ \E p \in Suspended \cup {"done"} : Goto(c, p)
            \/ UNCHANGED <<running, caller, pc>>
            \/ \E w \in WriteLoop, f \in Fd : StartWriteLoop(c, w, f)
<1> USE Places DEF Runs, Suspended, OnFd, OnOther, loopVars
<1>1. CASE ReadData(c) \/ ReadEnd(c) \/ ReadEagain(c)
  BY <1>1 DEF ReadData, ReadEnd, ReadEagain
<1>2. CASE WritePart(c) \/ WriteRest(c)
  BY <1>2 DEF WritePart, WriteRest
<1>3. CASE WriteError(c) \/ WriteEagain(c)
  BY <1>3 DEF WriteError, WriteEagain
<1>4. CASE AwaitSuspend(c)
  BY <1>4 DEF AwaitSuspend
<1>5. CASE AwaitRedis(c) \/ AwaitMySQL(c)
  BY <1>5 DEF AwaitRedis, AwaitMySQL
<1>6. CASE Respond(c)
  BY <1>6 DEF Respond
<1>7. ASSUME NEW w \in WriteLoop, NEW f \in Fd, StartWriteLoop(c, w, f)
      PROVE  running = c /\ Runs(c) /\ UNCHANGED <<wpc, batch, resuming>>
  BY <1>7 DEF StartWriteLoop
<1>8. ASSUME NEW f \in Fd, BroadcastError(c, f)
      PROVE  running = c /\ Runs(c) /\ UNCHANGED <<wpc, batch, resuming, running, caller, pc>>
  BY <1>8 DEF BroadcastError
<1>9. CASE CloseConn(c) \/ EndWriteLoop(c)
  BY <1>9 DEF CloseConn, EndWriteLoop
<1>10. QED
  BY <1>1, <1>2, <1>3, <1>4, <1>5, <1>6, <1>7, <1>8, <1>9 DEF Coroutine

\* A step of the loop: it resumes a coroutine h, or none.
LEMMA LoopShape ==
  ASSUME TypeInv, HandleOnce, Loop
  PROVE  /\ UNCHANGED <<caller, fdOf, gone, interest, rx, space>>
         /\ \/ UNCHANGED <<running, pc>>
            \/ \E h \in Coro : /\ running = NoCoro /\ running' = h
                               /\ Held(h) /\ pc[h] \in Suspended
                               /\ pc' = [pc EXCEPT ![h] = Resumed(@)]
<1> USE Parties DEF TypeInv, TypeOK, kernelVars, frameVars, loopVars
<1>1. CASE EpollWait \/ DispatchWake \/ RedisHandlerReturn \/ DrainReturn \/ SwapPending
  BY <1>1 DEF EpollWait, DispatchWake, RedisHandlerReturn, DrainReturn, SwapPending
<1>2. ASSUME NEW c \in Coro, RedisCallback(c)
      PROVE  UNCHANGED <<caller, fdOf, gone, interest, rx, space, running, pc>>
  BY <1>2 DEF RedisCallback
<1>3. ASSUME NEW f \in Fd, DispatchFd(f)
      PROVE  /\ UNCHANGED <<caller, fdOf, gone, interest, rx, space>>
             /\ \/ UNCHANGED <<running, pc>>
                \/ \E h \in Coro : /\ running = NoCoro /\ running' = h
                                   /\ Held(h)
                                   /\ pc' = [pc EXCEPT ![h] = Resumed(@)]
  BY <1>3 DEF DispatchFd, Held, WaitsForFd
<1>4. CASE ResumeNext
  <2>1. Head(resuming) \in Coro /\ Held(Head(resuming))
    BY <1>4, TakeHead DEF ResumeNext, HandleOnce, Held
  <2>2. QED
    BY <1>4, <2>1 DEF ResumeNext, HandleOnce
<1>5. QED
  BY <1>1, <1>2, <1>3, <1>4 DEF Loop, HandleOnce

\* The loop takes handles out of handles_ and puts none in.
LEMMA LoopHandles ==
  ASSUME TypeInv, Loop
  PROVE  \A f \in Fd : handles'[f] \in {handles[f], NoCoro}
<1>0. handles \in [Fd -> Coro \cup {NoCoro}]
  BY DEF TypeInv, TypeOK
<1>1. CASE EpollWait \/ DispatchWake \/ RedisHandlerReturn \/ SwapPending \/ ResumeNext \/ DrainReturn
  BY <1>1 DEF EpollWait, DispatchWake, RedisHandlerReturn, SwapPending, ResumeNext, DrainReturn
<1>2. ASSUME NEW c \in Coro, RedisCallback(c) PROVE UNCHANGED handles
  BY <1>2 DEF RedisCallback
<1>3. ASSUME NEW f \in Fd, DispatchFd(f)
      PROVE  UNCHANGED handles \/ handles' = [handles EXCEPT ![f] = NoCoro]
  BY <1>3 DEF DispatchFd
<1>4. QED
  BY <1>0, <1>1, <1>2, <1>3 DEF Loop

\* The steps of the other threads and of the peers.
LEMMA EnvironmentShape ==
  ASSUME TypeInv, Environment
  PROVE  /\ UNCHANGED <<running, caller, wpc, batch, resuming, handles>>
         /\ \/ UNCHANGED <<pc, fdOf, interest, space>> /\ gone \subseteq gone'
            \/ \E f \in Fd : PeerRead(f)
            \/ \E c \in Conn, f \in Fd : Accept(c, f)
<1> USE DEF kernelVars, frameVars, loopVars
<1>1. ASSUME NEW f \in Fd, PeerSend(f) \/ PeerRead(f) \/ PeerClose(f)
      PROVE  /\ UNCHANGED <<running, caller, wpc, batch, resuming, handles>>
             /\ \/ UNCHANGED <<pc, fdOf, interest, space>> /\ gone \subseteq gone'
                \/ PeerRead(f)
  BY <1>1 DEF PeerSend, PeerRead, PeerClose
<1>2. ASSUME NEW c \in Conn, NEW f \in Fd, Accept(c, f)
      PROVE  UNCHANGED <<running, caller, wpc, batch, resuming, handles>>
  BY <1>2 DEF Accept
<1>3. ASSUME NEW t \in Thread, NEW c \in Coro, SchedulePush(t, c)
      PROVE  UNCHANGED <<running, caller, wpc, batch, resuming, handles, pc, fdOf, interest, space, gone>>
  BY <1>3 DEF SchedulePush
<1>4. ASSUME NEW t \in Thread, ScheduleWakeup(t)
      PROVE  UNCHANGED <<running, caller, wpc, batch, resuming, handles, pc, fdOf, interest, space, gone>>
  BY <1>4 DEF ScheduleWakeup
<1>5. ASSUME NEW c \in Coro, RedisAnswer(c)
      PROVE  UNCHANGED <<running, caller, wpc, batch, resuming, handles, pc, fdOf, interest, space, gone>>
  BY <1>5 DEF RedisAnswer
<1>6. QED
  BY <1>1, <1>2, <1>3, <1>4, <1>5 DEF Environment

-----------------------------------------------------------------------------
(* Each part of EdgeInv is kept. *)

LEMMA KeepsStackKnown ==
  ASSUME TypeInv, HandleOnce, StackKnown, Next
  PROVE  StackKnown'
<1> USE Parties
<1>0. pc \in [Coro -> Pc] /\ caller \in Conn \cup {NoCoro}
  BY DEF TypeInv, TypeOK
<1>1. ASSUME UNCHANGED <<running, caller>>,
             \A d \in Coro : Runs(d)' => Runs(d) \/ d = running
      PROVE  StackKnown'
  BY <1>1 DEF StackKnown
<1>2. CASE Environment
  <2>1. \A d \in Coro : Runs(d)' => Runs(d)
    BY <1>0, <1>2, EnvironmentShape DEF Accept, PeerRead, Runs, Suspended, OnOther, frameVars
  <2>2. QED
    BY <1>1, <1>2, <2>1, EnvironmentShape
<1>3. CASE Loop
  <2>1. CASE UNCHANGED <<running, pc>>
    BY <1>1, <1>3, <2>1, LoopShape DEF Runs
  <2>2. ASSUME NEW h \in Coro, running = NoCoro, running' = h, pc' = [pc EXCEPT ![h] = Resumed(@)]
        PROVE  StackKnown'
    <3>1. caller' = NoCoro /\ \A d \in Coro : ~Runs(d)
      BY <1>3, <2>2, LoopShape DEF StackKnown
    <3>2. \A d \in Coro : d # h => ~Runs(d)'
      BY <1>0, <2>2, <3>1 DEF Runs
    <3>3. QED
      BY <2>2, <3>1, <3>2 DEF StackKnown
  <2>3. QED
    BY <1>3, <2>1, <2>2, LoopShape
<1>4. ASSUME NEW c \in Coro, Coroutine(c) PROVE StackKnown'
  <2>0. running = c /\ Runs(c)
    BY <1>4, CoroutineShape
  <2>1. CASE UNCHANGED <<running, caller>> /\ \E p \in Pc \ {"unborn"} : Goto(c, p)
    <3>1. \A d \in Coro : Runs(d)' => Runs(d) \/ d = c
      BY <1>0, <2>1 DEF Goto, Runs
    <3>2. QED
      BY <1>1, <2>0, <2>1, <3>1
  <2>2. CASE Yield /\ \E p \in Suspended \cup {"done"} : Goto(c, p)
    <3>1. \A d \in Coro : Runs(d)' => Runs(d) /\ d # c
      BY <1>0, <2>2 DEF Goto, Runs
    <3>2. QED
      BY <2>0, <2>2, <3>1 DEF StackKnown, Yield
  <2>3. CASE UNCHANGED <<running, caller, pc>>
    BY <1>1, <2>3 DEF Runs
  <2>4. ASSUME NEW w \in WriteLoop, NEW f \in Fd, StartWriteLoop(c, w, f) PROVE StackKnown'
    <3>1. c \in Conn /\ running' = w /\ caller' = c /\ Goto(w, "write")
      BY <2>4 DEF StartWriteLoop
    <3>2. \A d \in Coro : Runs(d) => d = c
      BY <2>0, <3>1 DEF StackKnown
    <3>3. \A d \in Coro : Runs(d)' => Runs(d) \/ d = w
      BY <1>0, <3>1 DEF Goto, Runs
    <3>4. QED
      BY <3>1, <3>2, <3>3 DEF StackKnown
  <2>5. QED
    BY <1>4, <2>1, <2>2, <2>3, <2>4, CoroutineShape
<1>5. QED
  BY <1>2, <1>3, <1>4 DEF Next, WorkerStep

\* Only two steps of a coroutine change handles_.
LEMMA HandlesShape ==
  ASSUME NEW c \in Coro, Coroutine(c)
  PROVE  UNCHANGED handles \/ AwaitSuspend(c) \/ CloseConn(c)
<1>1. CASE ReadData(c) \/ ReadEnd(c) \/ ReadEagain(c)
  BY <1>1 DEF ReadData, ReadEnd, ReadEagain
<1>2. CASE WritePart(c) \/ WriteRest(c) \/ WriteError(c) \/ WriteEagain(c)
  BY <1>2 DEF WritePart, WriteRest, WriteError, WriteEagain
<1>3. CASE AwaitRedis(c) \/ AwaitMySQL(c) \/ Respond(c) \/ EndWriteLoop(c)
  BY <1>3 DEF AwaitRedis, AwaitMySQL, Respond, EndWriteLoop
<1>4. ASSUME NEW f \in Fd, BroadcastError(c, f) PROVE UNCHANGED handles
  BY <1>4 DEF BroadcastError
<1>5. ASSUME NEW w \in WriteLoop, NEW f \in Fd, StartWriteLoop(c, w, f) PROVE UNCHANGED handles
  BY <1>5 DEF StartWriteLoop
<1>6. QED
  BY <1>1, <1>2, <1>3, <1>4, <1>5 DEF Coroutine

\* Only two steps give a coroutine a descriptor, and only two take it back.
LEMMA FdShape ==
  ASSUME TypeInv, NEW c \in Coro, Coroutine(c)
  PROVE  \/ UNCHANGED <<fdOf, interest, space, gone>>
         \/ UNCHANGED <<fdOf, interest>> /\ gone \subseteq gone' /\ space' \subseteq space
         \/ AwaitSuspend(c)
         \/ \E w \in WriteLoop, f \in Fd : StartWriteLoop(c, w, f)
         \/ CloseConn(c) \/ EndWriteLoop(c)
<1> USE DEF kernelVars, frameVars
<1>1. CASE ReadData(c) \/ ReadEnd(c) \/ ReadEagain(c)
  BY <1>1 DEF ReadData, ReadEnd, ReadEagain
<1>2. CASE WritePart(c) \/ WriteRest(c)
  BY <1>2 DEF WritePart, WriteRest
<1>3. CASE WriteError(c) \/ WriteEagain(c)
  BY <1>3 DEF WriteError, WriteEagain
<1>5. CASE AwaitRedis(c) \/ AwaitMySQL(c)
  BY <1>5 DEF AwaitRedis, AwaitMySQL
<1>6. CASE Respond(c)
  BY <1>6 DEF Respond
<1>8. ASSUME NEW f \in Fd, BroadcastError(c, f) PROVE UNCHANGED <<fdOf, interest, space, gone>>
  BY <1>8 DEF BroadcastError
<1>10. QED
  BY <1>1, <1>2, <1>3, <1>5, <1>6, <1>8 DEF Coroutine

LEMMA KeepsUnbornNoFd ==
  ASSUME TypeInv, HandleOnce, UnbornNoFd, Next
  PROVE  UnbornNoFd'
<1> USE Parties
<1>0. pc \in [Coro -> Pc] /\ fdOf \in [Coro -> Fd \cup {NoFd}]
  BY DEF TypeInv, TypeOK
<1>1. CASE Environment
  <2>1. CASE UNCHANGED <<pc, fdOf>>
    BY <2>1 DEF UnbornNoFd
  <2>2. ASSUME NEW c \in Conn, NEW f \in Fd, Accept(c, f) PROVE UnbornNoFd'
    BY <1>0, <2>2 DEF Accept, UnbornNoFd
  <2>3. QED
    BY <1>1, <2>1, <2>2, EnvironmentShape DEF PeerRead, frameVars
<1>2. CASE Loop
  <2>1. CASE UNCHANGED <<running, pc>>
    BY <1>2, <2>1, LoopShape DEF UnbornNoFd
  <2>2. ASSUME NEW h \in Coro, pc[h] \in Suspended, pc' = [pc EXCEPT ![h] = Resumed(@)]
        PROVE  UnbornNoFd'
    <3>1. pc'[h] # "unborn"
      BY <1>0, <2>2, ResumedRuns
    <3>2. QED
      BY <1>0, <1>2, <2>2, <3>1, LoopShape DEF UnbornNoFd
  <2>3. QED
    BY <1>2, <2>1, <2>2, LoopShape
<1>3. ASSUME NEW c \in Coro, Coroutine(c) PROVE UnbornNoFd'
  <2>1. \A d \in Coro : pc'[d] = "unborn" => pc[d] = "unborn" /\ d # c
    <3>1. CASE \E p \in (Pc \ {"unborn"}) \cup Suspended \cup {"done"} : Goto(c, p)
      BY <1>0, <3>1 DEF Goto, Suspended, OnFd, OnOther
    <3>2. CASE UNCHANGED pc
      BY <1>3, <3>2, CoroutineShape DEF Runs
    <3>3. ASSUME NEW w \in WriteLoop, NEW f \in Fd, StartWriteLoop(c, w, f)
          PROVE  \A d \in Coro : pc'[d] = "unborn" => pc[d] = "unborn" /\ d # c
      BY <1>0, <3>3 DEF StartWriteLoop, Goto
    <3>4. QED
      BY <1>3, <3>1, <3>2, <3>3, CoroutineShape
  <2>2. \A d \in Coro : pc'[d] = "unborn" => fdOf'[d] = fdOf[d]
    <3>1. CASE UNCHANGED fdOf
      BY <3>1
    <3>2. CASE AwaitSuspend(c)
      BY <3>2 DEF AwaitSuspend, frameVars
    <3>3. ASSUME NEW w \in WriteLoop, NEW f \in Fd, StartWriteLoop(c, w, f)
          PROVE  \A d \in Coro : pc'[d] = "unborn" => fdOf'[d] = fdOf[d]
      BY <1>0, <3>3 DEF StartWriteLoop, Goto
    <3>4. CASE CloseConn(c) \/ EndWriteLoop(c)
      BY <1>0, <2>1, <3>4 DEF CloseConn, EndWriteLoop
    <3>5. QED
      BY <1>3, <3>1, <3>2, <3>3, <3>4, FdShape
  <2>3. QED
    BY <2>1, <2>2 DEF UnbornNoFd
<1>4. QED
  BY <1>1, <1>2, <1>3 DEF Next, WorkerStep

LEMMA KeepsClosedFd ==
  ASSUME TypeInv, HandleOnce, UnbornNoFd, ClosedFd, SuspendsOnOpenFd, Next
  PROVE  ClosedFd'
<1> USE Parties
<1>0. /\ handles \in [Fd -> Coro \cup {NoCoro}] /\ fdOf \in [Coro -> Fd \cup {NoFd}]
      /\ gone \subseteq Fd
  BY DEF TypeInv, TypeOK
<1>1. ASSUME UNCHANGED fdOf, gone \subseteq gone',
             \A f \in Fd : handles'[f] \in {handles[f], NoCoro} \/ Open(f)
      PROVE  ClosedFd'
  BY <1>1 DEF ClosedFd, Open
<1>2. CASE Environment
  <2>1. CASE UNCHANGED <<pc, fdOf, interest, space>> /\ gone \subseteq gone'
    BY <1>1, <1>2, <2>1, EnvironmentShape
  <2>2. ASSUME NEW f \in Fd, PeerRead(f) PROVE ClosedFd'
    <3>1. UNCHANGED <<fdOf, gone, handles>>
      BY <2>2 DEF PeerRead, frameVars
    <3>2. QED
      BY <1>1, <3>1
  <2>3. ASSUME NEW c \in Conn, NEW f \in Fd, Accept(c, f) PROVE ClosedFd'
    <3>1. /\ fdOf[c] = NoFd /\ fdOf' = [fdOf EXCEPT ![c] = f]
          /\ gone' = gone \ {f} /\ UNCHANGED handles
      BY <2>3 DEF Accept, UnbornNoFd
    <3>2. \A g \in Fd : Open(g)' <=> Open(g) \/ g = f
      BY <1>0, <3>1 DEF Open
    <3>3. QED
      BY <3>1, <3>2 DEF ClosedFd
  <2>4. QED
    BY <1>2, <2>1, <2>2, <2>3, EnvironmentShape
<1>3. CASE Loop
  BY <1>1, <1>3, LoopShape, LoopHandles
<1>4. ASSUME NEW c \in Coro, Coroutine(c) PROVE ClosedFd'
  <2>1. CASE AwaitSuspend(c)
    <3>1. Open(fdOf[c]) /\ fdOf[c] \in Fd /\ SetClientHandle(c, fdOf[c]) /\ UNCHANGED <<fdOf, gone>>
      BY <2>1 DEF AwaitSuspend, SuspendsOnOpenFd, TypeInv, FdKnown, frameVars
    <3>2. \A f \in Fd : f # fdOf[c] => handles'[f] = handles[f]
      BY <1>0, <3>1 DEF SetClientHandle
    <3>3. QED
      BY <1>1, <3>1, <3>2
  <2>2. CASE CloseConn(c)
    <3>1. /\ fdOf[c] \in Fd
          /\ fdOf' = [fdOf EXCEPT ![c] = NoFd] /\ gone' = gone \cup {fdOf[c]}
          /\ handles' = [handles EXCEPT ![fdOf[c]] = NoCoro]
      BY <2>2 DEF CloseConn, TypeInv, FdKnown
    <3>2. \A f \in Fd : f # fdOf[c] /\ Open(f) => Open(f)'
      BY <1>0, <3>1 DEF Open
    <3>3. QED
      BY <1>0, <3>1, <3>2 DEF ClosedFd
  <2>3. CASE ~AwaitSuspend(c) /\ ~CloseConn(c)
    <3>1. UNCHANGED handles
      BY <1>4, <2>3, HandlesShape
    <3>2. gone \subseteq gone' /\ \A d \in Conn : fdOf'[d] = fdOf[d]
      <4>1. ASSUME NEW w \in WriteLoop, NEW f \in Fd, StartWriteLoop(c, w, f)
            PROVE  gone \subseteq gone' /\ \A d \in Conn : fdOf'[d] = fdOf[d]
        BY <1>0, <4>1 DEF StartWriteLoop
      <4>2. CASE EndWriteLoop(c)
        BY <1>0, <4>2 DEF EndWriteLoop, kernelVars
      <4>3. QED
        BY <1>4, <2>3, <4>1, <4>2, FdShape
    <3>3. QED
      BY <3>1, <3>2 DEF ClosedFd, Open
  <2>4. QED
    BY <2>1, <2>2, <2>3
<1>5. QED
  BY <1>2, <1>3, <1>4 DEF Next, WorkerStep

\* Only a read or a write that would block goes on to await_suspend.
LEMMA EagainShape ==
  ASSUME TypeInv, NEW c \in Coro, Coroutine(c), pc'[c] \in {"readEagain", "writeEagain"}
  PROVE  fdOf[c] \notin gone /\ UNCHANGED fdOf
<1> USE Parties
<1>0. pc \in [Coro -> Pc]
  BY DEF TypeInv, TypeOK
<1>1. CASE ReadData(c) \/ ReadEnd(c)
  BY <1>0, <1>1 DEF ReadData, ReadEnd, Goto
<1>2. CASE ReadEagain(c) \/ WriteEagain(c)
  BY <1>0, <1>2 DEF ReadEagain, WriteEagain, Readable, Writable, Goto, frameVars
<1>3. CASE WritePart(c) \/ WriteRest(c) \/ WriteError(c)
  BY <1>0, <1>3 DEF WritePart, WriteRest, WriteError, Goto
<1>4. CASE AwaitSuspend(c)
  BY <1>0, <1>4 DEF AwaitSuspend, Goto
<1>5. CASE AwaitRedis(c) \/ AwaitMySQL(c)
  BY <1>0, <1>5 DEF AwaitRedis, AwaitMySQL, Goto
<1>6. CASE Respond(c)
  BY <1>0, <1>6 DEF Respond, Goto
<1>7. ASSUME NEW f \in Fd, BroadcastError(c, f) PROVE FALSE
  BY <1>7 DEF BroadcastError
<1>8. ASSUME NEW w \in WriteLoop, NEW f \in Fd, StartWriteLoop(c, w, f) PROVE FALSE
  BY <1>0, <1>8 DEF StartWriteLoop, Goto
<1>9. CASE CloseConn(c) \/ EndWriteLoop(c)
  BY <1>0, <1>9 DEF CloseConn, EndWriteLoop, Goto
<1>10. QED
  BY <1>1, <1>2, <1>3, <1>4, <1>5, <1>6, <1>7, <1>8, <1>9 DEF Coroutine

LEMMA KeepsSuspendsOnOpenFd ==
  ASSUME TypeInv, TypeInv', HandleOnce, StackKnown, UnbornNoFd, ClosedFd, SuspendsOnOpenFd, Next
  PROVE  SuspendsOnOpenFd'
<1> USE Parties
<1>0. /\ pc \in [Coro -> Pc] /\ fdOf \in [Coro -> Fd \cup {NoFd}]
      /\ caller \in Conn \cup {NoCoro}
  BY DEF TypeInv, TypeOK
<1>1. ASSUME NEW d \in Conn, pc'[d] \in {"readEagain", "writeEagain"} PROVE Open(fdOf[d])'
  BY <1>1 DEF TypeInv, FdKnown, Open
<1>2. ASSUME NEW d \in WriteLoop, pc'[d] \in {"readEagain", "writeEagain"} PROVE Open(fdOf[d])'
  <2>1. CASE Environment
    <3>1. pc'[d] = pc[d] /\ fdOf'[d] = fdOf[d]
      BY <1>0, <2>1, EnvironmentShape DEF Accept, PeerRead, frameVars
    <3>2. \A e \in Conn : fdOf[e] # NoFd => fdOf'[e] = fdOf[e]
      BY <1>0, <2>1, EnvironmentShape DEF Accept, PeerRead, frameVars, UnbornNoFd
    <3>3. Open(fdOf[d]) /\ fdOf[d] \in Fd
      BY <1>2, <3>1 DEF SuspendsOnOpenFd, TypeInv, FdKnown
    <3>4. QED
      BY <3>1, <3>2, <3>3 DEF Open
  <2>2. CASE Loop
    <3>1. pc'[d] = pc[d]
      BY <1>0, <1>2, <2>2, LoopShape, ResumedRuns
    <3>2. QED
      BY <1>2, <2>2, <3>1, LoopShape DEF SuspendsOnOpenFd, Open
  <2>3. ASSUME NEW c \in Coro, Coroutine(c) PROVE Open(fdOf[d])'
    <3>1. CASE d = c
      <4>1. fdOf[d] \notin gone /\ UNCHANGED fdOf
        BY <1>2, <2>3, <3>1, EagainShape
      <4>2. fdOf'[d] \in Fd
        BY <1>2 DEF TypeInv, FdKnown
      <4>3. QED
        BY <4>1, <4>2 DEF ClosedFd, Open
    <3>2. CASE d # c
      <4>1. pc'[d] = pc[d]
        BY <1>0, <1>2, <2>3, <3>2, CoroutineShape DEF Goto, StartWriteLoop
      <4>2. Runs(d) /\ d # running /\ d # caller
        BY <1>0, <1>2, <2>3, <3>2, <4>1, CoroutineShape DEF Runs, Suspended, OnFd, OnOther
      <4>3. QED
        BY <4>2 DEF StackKnown
    <3>3. QED
      BY <3>1, <3>2
  <2>4. QED
    BY <2>1, <2>2, <2>3 DEF Next, WorkerStep
<1>3. QED
  BY <1>1, <1>2 DEF SuspendsOnOpenFd, Coro

LEMMA KeepsBatchDone ==
  ASSUME TypeInv, BatchDone, Next
  PROVE  BatchDone'
<1>1. CASE Environment
  BY <1>1, EnvironmentShape DEF BatchDone
<1>2. CASE Loop
  <2>1. CASE EpollWait \/ DispatchWake \/ RedisHandlerReturn
    BY <2>1 DEF EpollWait, DispatchWake, RedisHandlerReturn, BatchDone
  <2>2. ASSUME NEW c \in Coro, RedisCallback(c) PROVE BatchDone'
    BY <2>2 DEF RedisCallback, BatchDone, loopVars
  <2>3. ASSUME NEW f \in Fd, DispatchFd(f) PROVE BatchDone'
    BY <2>3 DEF DispatchFd, BatchDone
  <2>4. CASE SwapPending
    BY <2>4 DEF SwapPending, BatchDone
  <2>5. CASE ResumeNext
    BY <2>5 DEF ResumeNext, BatchDone, loopVars
  <2>6. CASE DrainReturn
    BY <2>6 DEF DrainReturn, BatchDone
  <2>7. QED
    BY <1>2, <2>1, <2>2, <2>3, <2>4, <2>5, <2>6 DEF Loop
<1>3. ASSUME NEW c \in Coro, Coroutine(c) PROVE BatchDone'
  BY <1>3, CoroutineShape DEF BatchDone
<1>4. QED
  BY <1>1, <1>2, <1>3 DEF Next, WorkerStep

LEMMA EdgeInvariant == Spec => [](TypeInv /\ HandleOnce /\ EdgeInv)
<1>1. Init => EdgeInv
  BY Parties DEF Init, EdgeInv, StackKnown, UnbornNoFd, ClosedFd, SuspendsOnOpenFd, BatchDone, Runs
<1>2. TypeInv /\ TypeInv' /\ HandleOnce /\ EdgeInv /\ [Next]_vars => EdgeInv'
  <2> SUFFICES ASSUME TypeInv, TypeInv', HandleOnce, EdgeInv, [Next]_vars PROVE EdgeInv'
    OBVIOUS
  <2>1. CASE UNCHANGED vars
    BY <2>1 DEF vars, kernelVars, loopVars, frameVars, EdgeInv, StackKnown, UnbornNoFd, ClosedFd,
                SuspendsOnOpenFd, BatchDone, Runs, Open
  <2>2. CASE Next
    BY <2>2, KeepsStackKnown, KeepsUnbornNoFd, KeepsClosedFd, KeepsSuspendsOnOpenFd, KeepsBatchDone
    DEF EdgeInv
  <2>3. QED
    BY <2>1, <2>2
<1>3. QED
  BY <1>1, <1>2, TypeInvariant, HandledOnce, PTL DEF Spec

-----------------------------------------------------------------------------
(* The edges. *)

\* NoMissedEdge for one descriptor.
EdgeAt(f) ==
  handles[f] # NoCoro =>
    /\ interest[f] = {Want(pc[handles[f]])}
    /\ interest[f] \subseteq Poll(f) => f \in armed \/ batch[f] # {}

\* A step that leaves f alone, except that f may stop being ready.
LEMMA EdgeStays ==
  ASSUME NEW f \in Fd, EdgeAt(f), UNCHANGED <<handles[f], interest[f]>>,
         handles[f] # NoCoro => pc'[handles[f]] = pc[handles[f]],
         rx[f] = 0 => rx'[f] = 0, f \notin gone => f \notin gone', f \notin space => f \notin space',
         rx[f] \in Nat,
         f \in armed \/ batch[f] # {} => f \in armed' \/ batch'[f] # {}
  PROVE  EdgeAt(f)'
<1>1. Poll(f)' \subseteq Poll(f)
  BY DEF Poll, Readable, Writable
<1>2. QED
  BY <1>1 DEF EdgeAt

\* A registered coroutine is suspended.
LEMMA RegisteredWaits ==
  ASSUME TypeInv, HandleOnce, NEW f \in Fd, handles[f] # NoCoro
  PROVE  handles[f] \in Coro /\ pc[handles[f]] \in Suspended
BY DEF TypeInv, TypeOK, HandleOnce, Held, WaitsForFd

LEMMA EnvironmentKeepsEdges ==
  ASSUME TypeInv, TypeInv', HandleOnce, EdgeInv, NEW f \in Fd, EdgeAt(f), Environment
  PROVE  EdgeAt(f)'
<1> USE Parties DEF kernelVars, frameVars, loopVars
<1>0. /\ rx \in [Fd -> Nat] /\ pc \in [Coro -> Pc] /\ handles \in [Fd -> Coro \cup {NoCoro}]
      /\ interest \in [Fd -> SUBSET Event]
  BY DEF TypeInv, TypeOK
<1>1. ASSUME NEW g \in Fd, PeerSend(g) PROVE EdgeAt(f)'
  <2>1. /\ rx' = [rx EXCEPT ![g] = @ + 1] /\ Raise(g, "IN")
        /\ UNCHANGED <<gone, space, interest, handles, pc, batch>>
    BY <1>1 DEF PeerSend
  <2>2. CASE f = g /\ "IN" \in interest[f]
    BY <2>1, <2>2 DEF Raise, EdgeAt
  <2>3. CASE f = g /\ "IN" \notin interest[f]
    <3>1. interest[f] \subseteq Poll(f)' => interest[f] \subseteq Poll(f)
      BY <2>1, <2>3 DEF Poll, Writable, Event
    <3>2. QED
      BY <2>1, <2>3, <3>1 DEF EdgeAt, Raise
  <2>4. CASE f # g
    BY <1>0, <2>1, <2>4, EdgeStays DEF Raise
  <2>5. QED
    BY <2>2, <2>3, <2>4
<1>2. ASSUME NEW g \in Fd, PeerRead(g) PROVE EdgeAt(f)'
  <2>1. /\ space' = space \cup {g} /\ Raise(g, "OUT")
        /\ UNCHANGED <<gone, rx, interest, handles, pc, batch>>
    BY <1>2 DEF PeerRead
  <2>2. CASE f = g /\ "OUT" \in interest[f]
    BY <2>1, <2>2 DEF Raise, EdgeAt
  <2>3. CASE f = g /\ "OUT" \notin interest[f]
    <3>1. interest[f] \subseteq Poll(f)' => interest[f] \subseteq Poll(f)
      BY <2>1, <2>3 DEF Poll, Readable, Event
    <3>2. QED
      BY <2>1, <2>3, <3>1 DEF EdgeAt, Raise
  <2>4. CASE f # g
    BY <1>0, <2>1, <2>4, EdgeStays DEF Raise
  <2>5. QED
    BY <2>2, <2>3, <2>4
<1>3. ASSUME NEW g \in Fd, PeerClose(g) PROVE EdgeAt(f)'
  <2>1. /\ gone' = gone \cup {g} /\ armed' = armed \cup {g}
        /\ UNCHANGED <<space, rx, interest, handles, pc, batch>>
    BY <1>3 DEF PeerClose
  <2>2. CASE f = g
    BY <2>1, <2>2 DEF EdgeAt
  <2>3. CASE f # g
    BY <1>0, <2>1, <2>3, EdgeStays
  <2>4. QED
    BY <2>2, <2>3
<1>4. ASSUME NEW c \in Conn, NEW g \in Fd, Accept(c, g) PROVE EdgeAt(f)'
  <2>1. CASE f = g
    BY <1>4, <2>1 DEF Accept, EdgeInv, ClosedFd, EdgeAt
  <2>2. CASE f # g
    <3>1. /\ UNCHANGED <<handles[f], interest[f], armed, batch, rx[f]>>
          /\ f \in gone' <=> f \in gone
          /\ f \in space' <=> f \in space
      BY <1>0, <1>4, <2>2 DEF Accept
    <3>2. handles[f] # NoCoro => pc'[handles[f]] = pc[handles[f]]
      BY <1>0, <1>4, RegisteredWaits DEF Accept, Suspended, OnFd, OnOther
    <3>3. QED
      BY <1>0, <3>1, <3>2, EdgeStays
  <2>3. QED
    BY <2>1, <2>2
<1>5. ASSUME UNCHANGED <<kernelVars, handles, pc, batch>> PROVE EdgeAt(f)'
  BY <1>5 DEF EdgeAt, Poll, Readable, Writable
<1>6. ASSUME NEW t \in Thread, NEW c \in Coro, SchedulePush(t, c) PROVE EdgeAt(f)'
  BY <1>5, <1>6 DEF SchedulePush
<1>7. ASSUME NEW t \in Thread, ScheduleWakeup(t) PROVE EdgeAt(f)'
  BY <1>5, <1>7 DEF ScheduleWakeup
<1>8. ASSUME NEW c \in Coro, RedisAnswer(c) PROVE EdgeAt(f)'
  BY <1>5, <1>8 DEF RedisAnswer
<1>9. QED
  BY <1>1, <1>2, <1>3, <1>4, <1>6, <1>7, <1>8 DEF Environment

LEMMA LoopKeepsEdges ==
  ASSUME TypeInv, HandleOnce, EdgeInv, NEW f \in Fd, EdgeAt(f), Loop
  PROVE  EdgeAt(f)'
<1> USE Parties DEF kernelVars, frameVars, loopVars
<1>0. /\ rx \in [Fd -> Nat] /\ pc \in [Coro -> Pc] /\ handles \in [Fd -> Coro \cup {NoCoro}]
      /\ batch \in [Fd -> SUBSET Event] /\ resuming \in Seq(Coro)
  BY DEF TypeInv, TypeOK
<1>1. CASE EpollWait
  <2>1. /\ batch[f] = {}
        /\ batch'[f] = IF f \in armed THEN Poll(f) \cap interest[f] ELSE {}
        /\ UNCHANGED <<rx, gone, space, interest, handles, pc>>
    BY <1>1 DEF EpollWait, EdgeInv, BatchDone
  <2>2. Poll(f)' = Poll(f)
    BY <2>1 DEF Poll, Readable, Writable
  <2>3. QED
    BY <2>1, <2>2 DEF EdgeAt
<1>2. ASSUME NEW g \in Fd, DispatchFd(g) PROVE EdgeAt(f)'
  <2>1. batch' = [batch EXCEPT ![g] = {}] /\ UNCHANGED kernelVars
    BY <1>2 DEF DispatchFd
  <2>2. CASE handles[g] # NoCoro
    <3>1. handles' = [handles EXCEPT ![g] = NoCoro] /\ pc' = [pc EXCEPT ![handles[g]] = Resumed(@)]
      BY <1>2, <2>2 DEF DispatchFd
    <3>2. CASE f = g
      BY <1>0, <3>1, <3>2 DEF EdgeAt
    <3>3. CASE f # g
      <4>1. handles[f] # NoCoro => handles[f] \in Coro /\ handles[f] # handles[g]
        BY <1>0, <2>2, <3>3 DEF HandleOnce
      <4>2. handles[f] # NoCoro => pc'[handles[f]] = pc[handles[f]]
        BY <1>0, <3>1, <4>1
      <4>3. QED
        BY <1>0, <2>1, <3>1, <3>3, <4>2, EdgeStays
    <3>4. QED
      BY <3>2, <3>3
  <2>3. CASE handles[g] = NoCoro
    <3>1. UNCHANGED <<handles, pc>>
      BY <1>2, <2>3 DEF DispatchFd
    <3>2. CASE f = g
      BY <2>3, <3>1, <3>2 DEF EdgeAt
    <3>3. CASE f # g
      BY <1>0, <2>1, <3>1, <3>3, EdgeStays
    <3>4. QED
      BY <3>2, <3>3
  <2>4. QED
    BY <2>2, <2>3
<1>3. CASE ResumeNext
  <2>1. /\ resuming # <<>> /\ UNCHANGED <<kernelVars, handles, batch>>
        /\ pc' = [pc EXCEPT ![Head(resuming)] = Resumed(@)]
    BY <1>3 DEF ResumeNext
  <2>2. Head(resuming) \in Coro /\ InQueue(Head(resuming), resuming)
    BY <1>0, <2>1, TakeHead DEF HandleOnce
  <2>3. handles[f] # NoCoro => handles[f] # Head(resuming) /\ handles[f] \in Coro
    BY <1>0, <2>2 DEF HandleOnce, WaitsForFd
  <2>4. handles[f] # NoCoro => pc'[handles[f]] = pc[handles[f]]
    BY <1>0, <2>1, <2>2, <2>3
  <2>5. QED
    BY <1>0, <2>1, <2>4, EdgeStays
<1>4. ASSUME UNCHANGED <<kernelVars, handles, pc, batch>> PROVE EdgeAt(f)'
  BY <1>4 DEF EdgeAt, Poll, Readable, Writable
<1>5. CASE DispatchWake \/ RedisHandlerReturn \/ SwapPending \/ DrainReturn
  BY <1>4, <1>5 DEF DispatchWake, RedisHandlerReturn, SwapPending, DrainReturn
<1>6. ASSUME NEW c \in Coro, RedisCallback(c) PROVE EdgeAt(f)'
  BY <1>4, <1>6 DEF RedisCallback
<1>7. QED
  BY <1>1, <1>2, <1>3, <1>5, <1>6 DEF Loop

\* The sockets: data is taken, room is used, and a descriptor that is shut down
\* is in the ready list.
LEMMA SocketShape ==
  ASSUME TypeInv, NEW c \in Coro, Coroutine(c), ~AwaitSuspend(c), ~CloseConn(c), NEW f \in Fd
  PROVE  /\ UNCHANGED <<handles, interest, batch>>
         /\ \/ f \in armed'
            \/ /\ rx[f] = 0 => rx'[f] = 0
               /\ gone' = gone \/ (f \in gone' => f \in gone)
               /\ f \notin space => f \notin space'
               /\ armed \subseteq armed'
<1> USE DEF kernelVars, loopVars
<1>0. rx \in [Fd -> Nat] /\ space \subseteq Fd
  BY DEF TypeInv, TypeOK
<1>1. CASE ReadData(c)
  BY <1>0, <1>1 DEF ReadData
<1>2. CASE ReadEnd(c) \/ ReadEagain(c)
  BY <1>2 DEF ReadEnd, ReadEagain
<1>3. CASE WritePart(c) \/ WriteRest(c)
  BY <1>3 DEF WritePart, WriteRest
<1>4. CASE WriteError(c)
  BY <1>4 DEF WriteError
<1>5. CASE WriteEagain(c)
  BY <1>5 DEF WriteEagain
<1>6. CASE AwaitRedis(c) \/ AwaitMySQL(c)
  BY <1>6 DEF AwaitRedis, AwaitMySQL
<1>7. CASE Respond(c)
  BY <1>7 DEF Respond
<1>8. ASSUME NEW g \in Fd, BroadcastError(c, g)
      PROVE  UNCHANGED <<kernelVars, handles, batch>>
  BY <1>8 DEF BroadcastError
<1>9. ASSUME NEW w \in WriteLoop, NEW g \in Fd, StartWriteLoop(c, w, g)
      PROVE  UNCHANGED <<rx, gone, interest, armed, handles, batch>> /\ space' \subseteq space
  BY <1>9 DEF StartWriteLoop
<1>10. CASE EndWriteLoop(c)
  BY <1>10 DEF EndWriteLoop
<1>11. QED
  BY <1>1, <1>2, <1>3, <1>4, <1>5, <1>6, <1>7, <1>8, <1>9, <1>10 DEF Coroutine

LEMMA CoroutineKeepsEdges ==
  ASSUME TypeInv, HandleOnce, EdgeInv, NEW f \in Fd, EdgeAt(f), NEW c \in Coro, Coroutine(c)
  PROVE  EdgeAt(f)'
<1> USE Parties
<1>0. /\ rx \in [Fd -> Nat] /\ pc \in [Coro -> Pc] /\ handles \in [Fd -> Coro \cup {NoCoro}]
      /\ interest \in [Fd -> SUBSET Event]
  BY DEF TypeInv, TypeOK
<1>1. handles[f] # NoCoro => handles[f] # c /\ pc'[handles[f]] = pc[handles[f]]
  <2> SUFFICES ASSUME handles[f] # NoCoro PROVE handles[f] # c /\ pc'[handles[f]] = pc[handles[f]]
    OBVIOUS
  <2>1. handles[f] \in Coro /\ pc[handles[f]] \in Suspended
    BY RegisteredWaits
  <2>2. handles[f] # c
    BY <2>1, CoroutineShape DEF Runs
  <2>3. ASSUME NEW w \in WriteLoop, NEW g \in Fd, StartWriteLoop(c, w, g)
        PROVE  pc'[handles[f]] = pc[handles[f]]
    <3>1. pc[w] = "unborn" /\ Goto(w, "write")
      BY <2>3 DEF StartWriteLoop
    <3>2. handles[f] # w
      BY <2>1, <3>1 DEF Suspended, OnFd, OnOther
    <3>3. QED
      BY <1>0, <2>1, <3>1, <3>2 DEF Goto
  <2>4. ASSUME NEW p, Goto(c, p) PROVE pc'[handles[f]] = pc[handles[f]]
    BY <1>0, <2>1, <2>2, <2>4 DEF Goto
  <2>5. QED
    BY <2>2, <2>3, <2>4, CoroutineShape
<1>2. CASE AwaitSuspend(c)
  <2>1. /\ pc[c] \in {"readEagain", "writeEagain"}
        /\ Goto(c, IF pc[c] = "readEagain" THEN "readWait" ELSE "writeWait")
        /\ SetClientHandle(c, fdOf[c]) /\ ModClientFd(fdOf[c], Want(pc[c]))
        /\ UNCHANGED <<rx, gone, space, batch>>
    BY <1>2 DEF AwaitSuspend, loopVars
  <2>2. fdOf[c] \in Fd
    BY <2>1 DEF TypeInv, FdKnown
  <2>3. CASE f = fdOf[c] /\ readyEv[f] # {}
    <3>1. handles'[f] = NoCoro
      BY <1>0, <2>1, <2>3 DEF SetClientHandle
    <3>2. QED
      BY <3>1 DEF EdgeAt
  <2>4. CASE f = fdOf[c] /\ readyEv[f] = {}
    <3>1. handles'[f] = c
      BY <1>0, <2>1, <2>4 DEF SetClientHandle
    <3>2. Want(pc'[c]) = Want(pc[c])
      BY <1>0, <2>1 DEF Goto, Want
    <3>3. interest'[f] = {Want(pc[c])} /\ (Want(pc[c]) \in Poll(f) => f \in armed')
      BY <1>0, <2>1, <2>4 DEF ModClientFd
    <3>4. Poll(f)' = Poll(f)
      BY <2>1 DEF Poll, Readable, Writable
    <3>5. QED
      BY <3>1, <3>2, <3>3, <3>4 DEF EdgeAt
  <2>5. CASE f # fdOf[c]
    <3>1. UNCHANGED <<handles[f], interest[f]>> /\ armed \subseteq armed'
      BY <1>0, <2>1, <2>2, <2>5 DEF SetClientHandle, ModClientFd
    <3>2. QED
      BY <1>0, <1>1, <2>1, <3>1, EdgeStays
  <2>6. QED
    BY <2>3, <2>4, <2>5
<1>3. CASE CloseConn(c)
  <2>1. /\ fdOf[c] \in Fd
        /\ handles' = [handles EXCEPT ![fdOf[c]] = NoCoro]
        /\ interest' = [interest EXCEPT ![fdOf[c]] = {}]
        /\ rx' = [rx EXCEPT ![fdOf[c]] = 0]
        /\ armed' = armed \ {fdOf[c]} /\ gone' = gone \cup {fdOf[c]} /\ space' = space \ {fdOf[c]}
        /\ UNCHANGED batch
    BY <1>3 DEF CloseConn, TypeInv, FdKnown, loopVars
  <2>2. CASE f = fdOf[c]
    BY <1>0, <2>1, <2>2 DEF EdgeAt
  <2>3. CASE f # fdOf[c]
    BY <1>0, <1>1, <2>1, <2>3, EdgeStays
  <2>4. QED
    BY <2>2, <2>3
<1>4. CASE ~AwaitSuspend(c) /\ ~CloseConn(c)
  <2>1. CASE f \in armed'
    BY <1>1, <1>4, <2>1, SocketShape DEF EdgeAt
  <2>2. CASE f \notin armed'
    BY <1>0, <1>1, <1>4, <2>2, SocketShape, EdgeStays
  <2>3. QED
    BY <2>1, <2>2
<1>5. QED
  BY <1>2, <1>3, <1>4

\* A coroutine in handles_ is watched by epoll for the event it waits for, and an
\* edge that occurred is still to be dispatched: the order clear_ready_events,
\* set_client_handle, mod_client_fd of coro_net.h loses none, whatever the peers
\* and the other threads do meanwhile.
THEOREM EdgesKept == Spec => []NoMissedEdge
<1>0. NoMissedEdge <=> \A f \in Fd : EdgeAt(f)
  BY DEF NoMissedEdge, EdgeAt
<1>1. Init => NoMissedEdge
  BY DEF Init, NoMissedEdge
<1>2. TypeInv /\ TypeInv' /\ HandleOnce /\ EdgeInv /\ NoMissedEdge /\ [Next]_vars => NoMissedEdge'
  <2> SUFFICES ASSUME TypeInv, TypeInv', HandleOnce, EdgeInv, NoMissedEdge, [Next]_vars,
                      NEW f \in Fd
               PROVE  EdgeAt(f)'
    BY DEF NoMissedEdge, EdgeAt
  <2>1. EdgeAt(f)
    BY <1>0
  <2>2. CASE UNCHANGED vars
    BY <2>1, <2>2 DEF vars, kernelVars, loopVars, EdgeAt, Poll, Readable, Writable
  <2>3. CASE Next
    BY <2>1, <2>3, EnvironmentKeepsEdges, LoopKeepsEdges, CoroutineKeepsEdges DEF Next, WorkerStep
  <2>4. QED
    BY <2>2, <2>3
<1>3. QED
  BY <1>1, <1>2, EdgeInvariant, PTL DEF Spec

-----------------------------------------------------------------------------
(* Until a client_write_loop starts: no coroutine is lost.                     *)

\* One connection per descriptor, and it is registered under its own.
OwnFd ==
  /\ \A c, d \in Conn : fdOf[c] = fdOf[d] /\ fdOf[c] # NoFd => c = d
  /\ \A f \in Fd : handles[f] # NoCoro => fdOf[handles[f]] = f

\* to_resume exists while process_pending_resumes runs.
ResumingDrained == wpc \notin {"drainWake", "drainEnd"} => resuming = <<>>

LEMMA KeepsOwnFd ==
  ASSUME TypeInv, HandleOnce, EdgeInv, OwnFd, Next
  PROVE  OwnFd'
<1> USE Parties
<1>0. /\ fdOf \in [Coro -> Fd \cup {NoFd}] /\ handles \in [Fd -> Coro \cup {NoCoro}]
  BY DEF TypeInv, TypeOK
<1>1. ASSUME UNCHANGED fdOf, \A f \in Fd : handles'[f] \in {handles[f], NoCoro}
      PROVE  OwnFd'
  BY <1>1 DEF OwnFd
<1>2. CASE Environment
  <2>1. CASE UNCHANGED <<pc, fdOf, interest, space>> \/ \E f \in Fd : PeerRead(f)
    BY <1>1, <1>2, <2>1, EnvironmentShape DEF PeerRead, frameVars
  <2>2. ASSUME NEW c \in Conn, NEW f \in Fd, Accept(c, f) PROVE OwnFd'
    <3>1. fdOf' = [fdOf EXCEPT ![c] = f] /\ pc[c] = "unborn" /\ ~Open(f) /\ UNCHANGED handles
      BY <2>2 DEF Accept
    <3>2. \A d \in Conn : d # c => fdOf'[d] = fdOf[d] /\ fdOf[d] # f
      BY <1>0, <3>1 DEF Open
    <3>3. \A g \in Fd : handles[g] # NoCoro => handles[g] \in Coro /\ handles[g] # c
      BY <3>1, RegisteredWaits DEF Suspended, OnFd, OnOther
    <3>4. QED
      BY <1>0, <3>1, <3>2, <3>3 DEF OwnFd
  <2>3. QED
    BY <1>2, <2>1, <2>2, EnvironmentShape
<1>3. CASE Loop
  BY <1>1, <1>3, LoopShape, LoopHandles
<1>4. ASSUME NEW c \in Coro, Coroutine(c) PROVE OwnFd'
  <2>0. fdOf[c] \in Fd /\ \A g \in Fd : handles[g] # NoCoro => handles[g] \in Coro /\ handles[g] # c
    BY <1>4, CoroutineShape, RegisteredWaits DEF Runs, TypeInv, FdKnown
  <2>1. CASE AwaitSuspend(c)
    <3>1. SetClientHandle(c, fdOf[c]) /\ UNCHANGED fdOf
      BY <2>1 DEF AwaitSuspend, frameVars
    <3>2. \A f \in Fd : handles'[f] \in {handles[f], NoCoro} \/ (f = fdOf[c] /\ handles'[f] = c)
      BY <1>0, <2>0, <3>1 DEF SetClientHandle
    <3>3. QED
      BY <3>1, <3>2 DEF OwnFd
  <2>2. CASE CloseConn(c) \/ EndWriteLoop(c)
    <3>1. /\ fdOf' = [fdOf EXCEPT ![c] = NoFd]
          /\ \A f \in Fd : handles'[f] \in {handles[f], NoCoro}
      BY <1>0, <2>0, <2>2 DEF CloseConn, EndWriteLoop
    <3>2. QED
      BY <1>0, <2>0, <3>1 DEF OwnFd
  <2>3. ASSUME NEW w \in WriteLoop, NEW f \in Fd, StartWriteLoop(c, w, f) PROVE OwnFd'
    <3>1. fdOf' = [fdOf EXCEPT ![w] = f] /\ pc[w] = "unborn" /\ UNCHANGED handles
      BY <2>3 DEF StartWriteLoop
    <3>2. \A g \in Fd : handles[g] # NoCoro => handles[g] \in Coro /\ handles[g] # w
      BY <3>1, RegisteredWaits DEF Suspended, OnFd, OnOther
    <3>3. QED
      BY <1>0, <3>1, <3>2 DEF OwnFd
  <2>4. CASE UNCHANGED <<handles, fdOf>>
    BY <1>1, <2>4
  <2>5. QED
    BY <1>4, <2>1, <2>2, <2>3, <2>4, HandlesShape, FdShape
<1>5. QED
  BY <1>2, <1>3, <1>4 DEF Next, WorkerStep

LEMMA KeepsResumingDrained ==
  ASSUME TypeInv, HandleOnce, ResumingDrained, Next
  PROVE  ResumingDrained'
<1>1. CASE Environment
  BY <1>1, EnvironmentShape DEF ResumingDrained
<1>2. CASE Loop
  <2>1. CASE EpollWait \/ DispatchWake \/ RedisHandlerReturn
    BY <2>1 DEF EpollWait, DispatchWake, RedisHandlerReturn, ResumingDrained
  <2>2. ASSUME NEW c \in Coro, RedisCallback(c) PROVE ResumingDrained'
    BY <2>2 DEF RedisCallback, ResumingDrained, loopVars
  <2>3. ASSUME NEW f \in Fd, DispatchFd(f) PROVE ResumingDrained'
    BY <2>3 DEF DispatchFd, ResumingDrained
  <2>4. CASE SwapPending
    BY <2>4 DEF SwapPending, ResumingDrained
  <2>5. CASE ResumeNext
    BY <2>5 DEF ResumeNext, ResumingDrained, loopVars
  <2>6. CASE DrainReturn
    BY <2>6 DEF DrainReturn, ResumingDrained
  <2>7. QED
    BY <1>2, <2>1, <2>2, <2>3, <2>4, <2>5, <2>6 DEF Loop
<1>3. ASSUME NEW c \in Coro, Coroutine(c) PROVE ResumingDrained'
  BY <1>3, CoroutineShape DEF ResumingDrained
<1>4. QED
  BY <1>1, <1>2, <1>3 DEF Next, WorkerStep

LEMMA OwnFdInvariant == Spec => [](OwnFd /\ ResumingDrained)
<1>1. Init => OwnFd /\ ResumingDrained
  BY Parties DEF Init, OwnFd, ResumingDrained
<1>2. /\ TypeInv /\ HandleOnce /\ EdgeInv /\ OwnFd /\ ResumingDrained /\ [Next]_vars
      => (OwnFd /\ ResumingDrained)'
  <2> SUFFICES ASSUME TypeInv, HandleOnce, EdgeInv, OwnFd, ResumingDrained, [Next]_vars
               PROVE  (OwnFd /\ ResumingDrained)'
    OBVIOUS
  <2>1. CASE UNCHANGED vars
    BY <2>1 DEF vars, loopVars, frameVars, OwnFd, ResumingDrained
  <2>2. CASE Next
    BY <2>2, KeepsOwnFd, KeepsResumingDrained
  <2>3. QED
    BY <2>1, <2>2
<1>3. QED
  BY <1>1, <1>2, EdgeInvariant, PTL DEF Spec

-----------------------------------------------------------------------------
(* Nobody lets go of a suspended coroutine without resuming it. *)

AllHeld == \A c \in Coro : pc[c] \in Suspended => Held(c)
NobodyWrites == \A w \in WriteLoop : pc[w] = "unborn"

\* A handle that stays where it was, or moves between the places, is still held.
LEMMA HeldMoves ==
  ASSUME NEW d \in Coro, Held(d),
         \A f \in Fd : handles[f] = d => handles'[f] = d \/ InQueue(d, pending'),
         InQueue(d, pending) => InQueue(d, pending') \/ InQueue(d, resuming'),
         InQueue(d, resuming) => InQueue(d, resuming'),
         ext[d] # "none" => ext'[d] # "none" \/ InQueue(d, pending')
  PROVE  Held(d)'
BY DEF Held, WaitsForFd

LEMMA PushLosesNobody ==
  ASSUME NEW c \in Coro, AllHeld, pending \in Seq(Coro), pending' = Append(pending, c),
         ext \in [Coro -> {"none", "main", "pool", "redis", "reply"}],
         ext' = [ext EXCEPT ![c] = "none"], UNCHANGED <<handles, resuming, pc>>
  PROVE  AllHeld'
<1>1. \A d \in Coro : InQueue(d, pending') <=> InQueue(d, pending) \/ d = c
  BY InAppend
<1>2. \A d \in Coro : d # c => ext'[d] = ext[d]
  OBVIOUS
<1>3. \A d \in Coro : Held(d) => Held(d)'
  BY <1>1, <1>2, HeldMoves
<1>4. QED
  BY <1>3 DEF AllHeld

LEMMA EnvironmentLosesNobody ==
  ASSUME TypeInv, AllHeld, Environment
  PROVE  AllHeld'
<1> USE Parties
<1>0. /\ pc \in [Coro -> Pc] /\ pending \in Seq(Coro)
      /\ ext \in [Coro -> {"none", "main", "pool", "redis", "reply"}]
  BY DEF TypeInv, TypeOK
<1>1. ASSUME UNCHANGED <<handles, pending, resuming, ext, pc>> PROVE AllHeld'
  BY <1>1 DEF AllHeld, Held, WaitsForFd
<1>2. ASSUME NEW f \in Fd, PeerSend(f) \/ PeerRead(f) \/ PeerClose(f) PROVE AllHeld'
  BY <1>1, <1>2 DEF PeerSend, PeerRead, PeerClose
<1>3. ASSUME NEW c \in Conn, NEW f \in Fd, Accept(c, f) PROVE AllHeld'
  <2>1. /\ pc' = [pc EXCEPT ![c] = "startWait"] /\ ext' = [ext EXCEPT ![c] = "main"]
        /\ UNCHANGED <<handles, pending, resuming>>
    BY <1>3 DEF Accept
  <2>2. Held(c)'
    BY <1>0, <2>1 DEF Held
  <2>3. \A d \in Coro : d # c => (Held(d)' <=> Held(d)) /\ pc'[d] = pc[d]
    BY <1>0, <2>1 DEF Held, WaitsForFd
  <2>4. QED
    BY <2>2, <2>3 DEF AllHeld
<1>4. ASSUME NEW t \in Thread, NEW c \in Coro, SchedulePush(t, c) PROVE AllHeld'
  BY <1>0, <1>4, PushLosesNobody DEF SchedulePush
<1>5. ASSUME NEW t \in Thread, ScheduleWakeup(t) PROVE AllHeld'
  BY <1>1, <1>5 DEF ScheduleWakeup
<1>6. ASSUME NEW c \in Coro, RedisAnswer(c) PROVE AllHeld'
  <2>1. ext' = [ext EXCEPT ![c] = "reply"] /\ UNCHANGED <<handles, pending, resuming, pc>>
    BY <1>6 DEF RedisAnswer
  <2>2. \A d \in Coro : ext[d] # "none" => ext'[d] # "none"
    BY <1>0, <2>1
  <2>3. QED
    BY <2>1, <2>2, HeldMoves DEF AllHeld
<1>7. QED
  BY <1>2, <1>3, <1>4, <1>5, <1>6 DEF Environment

LEMMA LoopLosesNobody ==
  ASSUME TypeInv, HandleOnce, ResumingDrained, AllHeld, Loop
  PROVE  AllHeld'
<1> USE Parties
<1>0. /\ pc \in [Coro -> Pc] /\ handles \in [Fd -> Coro \cup {NoCoro}]
      /\ resuming \in Seq(Coro) /\ TypeOK
  BY DEF TypeInv, TypeOK
<1>1. ASSUME UNCHANGED <<handles, pending, resuming, ext, pc>> PROVE AllHeld'
  BY <1>1 DEF AllHeld, Held, WaitsForFd
<1>2. CASE EpollWait \/ DispatchWake \/ RedisHandlerReturn \/ DrainReturn
  BY <1>1, <1>2 DEF EpollWait, DispatchWake, RedisHandlerReturn, DrainReturn
<1>3. ASSUME NEW c \in Coro, RedisCallback(c) PROVE AllHeld'
  BY <1>0, <1>3, PushLosesNobody DEF RedisCallback, TypeOK
<1>4. ASSUME NEW f \in Fd, DispatchFd(f) PROVE AllHeld'
  <2>1. CASE handles[f] = NoCoro
    BY <1>1, <1>4, <2>1 DEF DispatchFd
  <2>2. CASE handles[f] # NoCoro
    <3>1. /\ pc' = [pc EXCEPT ![handles[f]] = Resumed(@)] /\ handles[f] \in Coro
          /\ handles' = [handles EXCEPT ![f] = NoCoro]
          /\ UNCHANGED <<pending, resuming, ext>>
      BY <1>0, <1>4, <2>2 DEF DispatchFd
    <3>2. pc'[handles[f]] \notin Suspended /\ \A d \in Coro : d # handles[f] => pc'[d] = pc[d]
      BY <1>0, <3>1, ResumeKeepsOthers
    <3>3. \A d \in Coro, g \in Fd : d # handles[f] /\ handles[g] = d => handles'[g] = d
      BY <1>0, <3>1
    <3>4. \A d \in Coro : d # handles[f] /\ Held(d) => Held(d)'
      BY <3>1, <3>3, HeldMoves
    <3>5. QED
      BY <3>2, <3>4 DEF AllHeld
  <2>3. QED
    BY <2>1, <2>2
<1>5. CASE SwapPending
  <2>1. /\ resuming = <<>> /\ resuming' = pending /\ UNCHANGED <<handles, ext, pc>>
    BY <1>5 DEF SwapPending, ResumingDrained
  <2>2. \A d \in Coro : ~InQueue(d, resuming) /\ (InQueue(d, pending) => InQueue(d, resuming'))
    BY <2>1, InEmpty
  <2>3. QED
    BY <2>1, <2>2, HeldMoves DEF AllHeld
<1>6. CASE ResumeNext
  <2>1. /\ resuming # <<>> /\ resuming' = Tail(resuming)
        /\ pc' = [pc EXCEPT ![Head(resuming)] = Resumed(@)]
        /\ UNCHANGED <<handles, pending, ext>>
    BY <1>6 DEF ResumeNext
  <2>2. /\ Head(resuming) \in Coro
        /\ \A d \in Coro : d # Head(resuming) /\ InQueue(d, resuming) => InQueue(d, resuming')
    BY <1>0, <2>1, TakeHead DEF HandleOnce
  <2>3. pc'[Head(resuming)] \notin Suspended /\ \A d \in Coro : d # Head(resuming) => pc'[d] = pc[d]
    BY <1>0, <2>1, <2>2, ResumeKeepsOthers
  <2>4. \A d \in Coro : d # Head(resuming) /\ Held(d) => Held(d)'
    BY <2>1, <2>2, HeldMoves
  <2>5. QED
    BY <2>3, <2>4 DEF AllHeld
<1>7. QED
  BY <1>2, <1>3, <1>4, <1>5, <1>6 DEF Loop

LEMMA CoroutineLosesNobody ==
  ASSUME TypeInv, HandleOnce, OwnFd, AllHeld, NobodyWrites, NobodyWrites',
         NEW c \in Coro, Coroutine(c)
  PROVE  AllHeld'
<1> USE Parties
<1>0. /\ pc \in [Coro -> Pc] /\ handles \in [Fd -> Coro \cup {NoCoro}]
      /\ pending \in Seq(Coro) /\ ext \in [Coro -> {"none", "main", "pool", "redis", "reply"}]
      /\ fdOf \in [Coro -> Fd \cup {NoFd}] /\ fdOf[c] \in Fd /\ c \in Conn
  BY CoroutineShape DEF TypeInv, TypeOK, FdKnown, Runs, Coro, NobodyWrites
<1>1. ASSUME \A d \in Coro : d # c => pc'[d] = pc[d] /\ (Held(d) => Held(d)'),
             pc'[c] \in Suspended => Held(c)'
      PROVE  AllHeld'
  BY <1>1 DEF AllHeld
\* No other coroutine is registered for the descriptor of c.
<1>2. ASSUME NEW d \in Coro, d # c, NEW f \in Fd, handles[f] = d PROVE f # fdOf[c]
  <2>1. d \in Conn
    BY <1>2, RegisteredWaits DEF Coro, NobodyWrites, Suspended, OnFd, OnOther
  <2>2. QED
    BY <1>0, <1>2, <2>1 DEF OwnFd
<1>3. CASE AwaitSuspend(c)
  <2>1. /\ SetClientHandle(c, fdOf[c]) /\ UNCHANGED <<resuming, ext>>
        /\ \E p : Goto(c, p)
    BY <1>3 DEF AwaitSuspend
  <2>2. \A f \in Fd : f # fdOf[c] => handles'[f] = handles[f]
    BY <1>0, <2>1 DEF SetClientHandle
  <2>3. \/ pending' = Append(pending, c)
        \/ pending' = pending /\ handles'[fdOf[c]] = c
    BY <1>0, <2>1 DEF SetClientHandle
  <2>4. ASSUME pending' = Append(pending, c)
         PROVE  InQueue(c, pending') /\ \A d \in Coro : InQueue(d, pending) => InQueue(d, pending')
    BY <1>0, <2>4, InAppend
  <2>5. \A d \in Coro : d # c => pc'[d] = pc[d] /\ (Held(d) => Held(d)')
    <3> SUFFICES ASSUME NEW d \in Coro, d # c PROVE pc'[d] = pc[d] /\ (Held(d) => Held(d)')
      OBVIOUS
    <3>1. pc'[d] = pc[d]
      BY <1>0, <2>1 DEF Goto
    <3>2. \A f \in Fd : handles[f] = d => handles'[f] = d
      BY <1>2, <2>2
    <3>3. QED
      BY <2>1, <2>3, <2>4, <3>1, <3>2, HeldMoves
  <2>6. Held(c)'
    BY <1>0, <2>3, <2>4 DEF Held, WaitsForFd
  <2>7. QED
    BY <1>1, <2>5, <2>6
<1>4. CASE AwaitRedis(c) \/ AwaitMySQL(c)
  <2>1. UNCHANGED <<handles, resuming>> /\ Goto(c, "serveWait")
    BY <1>4 DEF AwaitRedis, AwaitMySQL
  <2>2. \/ pending' = Append(pending, c) /\ UNCHANGED ext
        \/ UNCHANGED pending /\ \E x \in {"redis", "pool"} : ext' = [ext EXCEPT ![c] = x]
    BY <1>4 DEF AwaitRedis, AwaitMySQL
  <2>3. Held(c)' /\ \A d \in Coro : d # c => (Held(d) => Held(d)')
    <3>1. CASE pending' = Append(pending, c) /\ UNCHANGED ext
      <4>1. \A d \in Coro : InQueue(d, pending') <=> InQueue(d, pending) \/ d = c
        BY <1>0, <3>1, InAppend
      <4>2. QED
        BY <2>1, <3>1, <4>1, HeldMoves DEF Held
    <3>2. ASSUME UNCHANGED pending, NEW x \in {"redis", "pool"}, ext' = [ext EXCEPT ![c] = x]
          PROVE  Held(c)' /\ \A d \in Coro : d # c => (Held(d) => Held(d)')
      <4>1. ext'[c] # "none" /\ \A d \in Coro : d # c => ext'[d] = ext[d]
        BY <1>0, <3>2
      <4>2. QED
        BY <2>1, <3>2, <4>1, HeldMoves DEF Held
    <3>3. QED
      BY <2>2, <3>1, <3>2
  <2>4. QED
    BY <1>0, <1>1, <2>1, <2>3 DEF Goto
<1>5. CASE CloseConn(c)
  <2>1. /\ handles' = [handles EXCEPT ![fdOf[c]] = NoCoro] /\ Goto(c, "done")
        /\ UNCHANGED <<pending, resuming, ext>>
    BY <1>5 DEF CloseConn
  <2>2. ASSUME NEW d \in Coro, d # c PROVE pc'[d] = pc[d] /\ (Held(d) => Held(d)')
    <3>1. \A f \in Fd : handles[f] = d => handles'[f] = d
      BY <1>0, <1>2, <2>1, <2>2
    <3>2. QED
      BY <1>0, <2>1, <2>2, <3>1, HeldMoves DEF Goto
  <2>3. pc'[c] \notin Suspended
    BY <1>0, <2>1 DEF Goto, Suspended, OnFd, OnOther
  <2>4. QED
    BY <1>1, <2>2, <2>3
<1>6. CASE \/ ReadData(c) \/ ReadEnd(c) \/ ReadEagain(c) \/ WritePart(c) \/ WriteRest(c)
           \/ WriteError(c) \/ WriteEagain(c) \/ Respond(c)
  <2>1. UNCHANGED <<handles, pending, resuming, ext>> /\ \E p \in Pc \ Suspended : Goto(c, p)
    <3>1. CASE ReadData(c) \/ ReadEnd(c) \/ ReadEagain(c)
      BY <3>1, Places DEF ReadData, ReadEnd, ReadEagain, Suspended, OnFd, OnOther
    <3>2. CASE WritePart(c) \/ WriteRest(c) \/ WriteError(c) \/ WriteEagain(c)
      BY <3>2, Places DEF WritePart, WriteRest, WriteError, WriteEagain, Suspended, OnFd, OnOther
    <3>3. CASE Respond(c)
      BY <3>3, Places DEF Respond, Suspended, OnFd, OnOther
    <3>4. QED
      BY <1>6, <3>1, <3>2, <3>3
  <2>2. \A d \in Coro : Held(d)' <=> Held(d)
    BY <2>1 DEF Held, WaitsForFd
  <2>3. QED
    BY <1>0, <1>1, <2>1, <2>2 DEF Goto
<1>7. ASSUME NEW f \in Fd, BroadcastError(c, f) PROVE AllHeld'
  <2>1. UNCHANGED <<handles, pending, resuming, ext, pc>>
    BY <1>7 DEF BroadcastError
  <2>2. QED
    BY <2>1 DEF AllHeld, Held, WaitsForFd
<1>8. ASSUME NEW w \in WriteLoop, NEW f \in Fd PROVE ~StartWriteLoop(c, w, f)
  BY <1>0, <1>8 DEF StartWriteLoop, Goto, NobodyWrites
<1>9. ~EndWriteLoop(c)
  BY <1>0 DEF EndWriteLoop
<1>10. QED
  BY <1>3, <1>4, <1>5, <1>6, <1>7, <1>8, <1>9 DEF Coroutine

\* A coroutine that has started is never unborn again.
LEMMA BornOnce ==
  ASSUME TypeInv, HandleOnce, Next, NobodyWrites'
  PROVE  NobodyWrites
<1> USE Parties
<1>0. pc \in [Coro -> Pc]
  BY DEF TypeInv, TypeOK
<1>1. SUFFICES ASSUME NEW w \in WriteLoop, pc[w] # "unborn" PROVE pc'[w] # "unborn"
  BY DEF NobodyWrites
<1>2. CASE Environment
  BY <1>0, <1>1, <1>2, EnvironmentShape DEF PeerRead, Accept
<1>3. CASE Loop
  BY <1>0, <1>1, <1>3, LoopShape DEF Resumed, Suspended, OnFd, OnOther
<1>4. ASSUME NEW c \in Coro, Coroutine(c) PROVE pc'[w] # "unborn"
  <2>1. CASE ReadData(c) \/ ReadEnd(c) \/ ReadEagain(c)
    BY <1>0, <1>1, <2>1 DEF ReadData, ReadEnd, ReadEagain, Goto
  <2>2. CASE WritePart(c) \/ WriteRest(c) \/ WriteError(c) \/ WriteEagain(c)
    BY <1>0, <1>1, <2>2 DEF WritePart, WriteRest, WriteError, WriteEagain, Goto
  <2>3. CASE AwaitSuspend(c) \/ AwaitRedis(c) \/ AwaitMySQL(c) \/ Respond(c)
    BY <1>0, <1>1, <2>3 DEF AwaitSuspend, AwaitRedis, AwaitMySQL, Respond, Goto
  <2>4. ASSUME NEW v \in WriteLoop, NEW f \in Fd, StartWriteLoop(c, v, f)
        PROVE  pc'[w] # "unborn"
    BY <1>0, <1>1, <2>4 DEF StartWriteLoop, Goto
  <2>5. ASSUME NEW f \in Fd, BroadcastError(c, f) PROVE pc'[w] # "unborn"
    BY <1>1, <2>5 DEF BroadcastError
  <2>6. CASE CloseConn(c) \/ EndWriteLoop(c)
    BY <1>0, <1>1, <2>6 DEF CloseConn, EndWriteLoop, Goto
  <2>7. QED
    BY <1>4, <2>1, <2>2, <2>3, <2>4, <2>5, <2>6 DEF Coroutine
<1>5. QED
  BY <1>2, <1>3, <1>4 DEF Next, WorkerStep

\* Until a second coroutine works on a descriptor, every suspended coroutine is
\* held by somebody who may resume it, whatever the order of events, schedules
\* and answers: handles_ has one entry per descriptor (coro_net.h:161), which is
\* enough for one connection on each.  Once a write loop has started this is false
\* (see the run on CleanupReached).
THEOREM NobodyLost == Spec => []NoLostCoroutine
<1>1. Init => NoLostCoroutine
  BY DEF Init, NoLostCoroutine, Suspended, OnFd, OnOther
<1>2. /\ TypeInv /\ HandleOnce /\ EdgeInv /\ OwnFd /\ ResumingDrained /\ NoLostCoroutine
      /\ [Next]_vars
      => NoLostCoroutine'
  <2> SUFFICES ASSUME TypeInv, HandleOnce, OwnFd, ResumingDrained, NoLostCoroutine, [Next]_vars
               PROVE  NoLostCoroutine'
    OBVIOUS
  <2> SUFFICES ASSUME NobodyWrites' PROVE AllHeld'
    BY DEF NoLostCoroutine, NobodyWrites, AllHeld
  <2>1. CASE UNCHANGED vars
    <3>1. UNCHANGED <<handles, pending, resuming, ext, pc>>
      BY <2>1 DEF vars
    <3>2. QED
      BY <3>1 DEF NoLostCoroutine, NobodyWrites, AllHeld, Held, WaitsForFd
  <2>2. CASE Next
    <3>1. NobodyWrites /\ AllHeld
      BY <2>2, BornOnce DEF NoLostCoroutine, NobodyWrites, AllHeld
    <3>2. QED
      BY <2>2, <3>1, EnvironmentLosesNobody, LoopLosesNobody, CoroutineLosesNobody
      DEF Next, WorkerStep
  <2>3. QED
    BY <2>1, <2>2
<1>3. QED
  BY <1>1, <1>2, EdgeInvariant, OwnFdInvariant, PTL DEF Spec

-----------------------------------------------------------------------------
(* When the Worker blocks, nobody's result is left behind.                     *)

\* The loop will look into pending_resumes_ before it blocks, or it will be woken.
Looks == wpc \in {"wait", "drainEnd"} => evfd = 1 \/ posting # {}

\* Who waits for no descriptor is with another party, or in a queue the loop
\* comes to.
Promised(c) ==
  pc[c] \in OnOther => \/ ext[c] # "none"
                       \/ InQueue(c, resuming)
                       \/ InQueue(c, pending) /\ Looks

AllPromised == \A c \in Coro : Promised(c)

\* A step that takes c from no place and lets the loop forget nothing.
LEMMA PromiseStays ==
  ASSUME NEW c \in Coro, Promised(c),
         pc'[c] \in OnOther => pc[c] \in OnOther,
         ext[c] # "none" => ext'[c] # "none",
         InQueue(c, resuming) => InQueue(c, resuming'),
         InQueue(c, pending) => InQueue(c, pending'),
         Looks => Looks'
  PROVE  Promised(c)'
BY DEF Promised

LEMMA EnvironmentKeepsPromises ==
  ASSUME TypeInv, NEW c \in Coro, Promised(c), Environment
  PROVE  Promised(c)'
<1> USE Parties
<1>0. /\ pc \in [Coro -> Pc] /\ pending \in Seq(Coro)
      /\ ext \in [Coro -> {"none", "main", "pool", "redis", "reply"}]
  BY DEF TypeInv, TypeOK
<1>1. ASSUME NEW f \in Fd, PeerSend(f) \/ PeerRead(f) \/ PeerClose(f) PROVE Promised(c)'
  <2>1. UNCHANGED <<pc, ext, resuming, pending, wpc, evfd, posting>>
    BY <1>1 DEF PeerSend, PeerRead, PeerClose, loopVars
  <2> QED
    BY <2>1, PromiseStays DEF Looks
<1>2. ASSUME NEW d \in Conn, NEW f \in Fd, Accept(d, f) PROVE Promised(c)'
  <2>1. /\ pc' = [pc EXCEPT ![d] = "startWait"] /\ ext' = [ext EXCEPT ![d] = "main"]
        /\ UNCHANGED <<resuming, pending, wpc, evfd, posting>>
    BY <1>2 DEF Accept, loopVars
  <2>2. CASE c = d
    BY <1>0, <2>1, <2>2 DEF Promised
  <2>3. CASE c # d
    <3>1. pc'[c] = pc[c] /\ ext'[c] = ext[c]
      BY <1>0, <2>1, <2>3
    <3> QED
      BY <2>1, <3>1, PromiseStays DEF Looks
  <2> QED
    BY <2>2, <2>3
<1>3. ASSUME NEW t \in Thread, NEW d \in Coro, SchedulePush(t, d) PROVE Promised(c)'
  <2>1. /\ pending' = Append(pending, d) /\ ext' = [ext EXCEPT ![d] = "none"]
        /\ t \in posting' /\ UNCHANGED <<pc, resuming>>
    BY <1>3 DEF SchedulePush
  <2>2. InQueue(c, pending') <=> InQueue(c, pending) \/ c = d
    BY <1>0, <2>1, InAppend
  <2>3. Looks'
    BY <2>1 DEF Looks
  <2>4. CASE c = d
    BY <2>2, <2>3, <2>4 DEF Promised
  <2>5. CASE c # d
    <3>1. ext'[c] = ext[c]
      BY <1>0, <2>1, <2>5
    <3> QED
      BY <2>1, <2>2, <2>3, <3>1, PromiseStays
  <2> QED
    BY <2>4, <2>5
<1>4. ASSUME NEW t \in Thread, ScheduleWakeup(t) PROVE Promised(c)'
  <2>1. evfd' = 1 /\ UNCHANGED <<pc, ext, resuming, pending>>
    BY <1>4 DEF ScheduleWakeup
  <2> QED
    BY <2>1, PromiseStays DEF Looks
<1>5. ASSUME NEW d \in Coro, RedisAnswer(d) PROVE Promised(c)'
  <2>1. ext' = [ext EXCEPT ![d] = "reply"] /\ UNCHANGED <<pc, resuming, pending, wpc, evfd, posting>>
    BY <1>5 DEF RedisAnswer, loopVars
  <2>2. ext[c] # "none" => ext'[c] # "none"
    BY <1>0, <2>1
  <2> QED
    BY <2>1, <2>2, PromiseStays DEF Looks
<1> QED
  BY <1>1, <1>2, <1>3, <1>4, <1>5 DEF Environment

LEMMA LoopKeepsPromises ==
  ASSUME TypeInv, HandleOnce, ResumingDrained, NEW c \in Coro, Promised(c), Loop
  PROVE  Promised(c)'
<1> USE Parties
<1>0. /\ pc \in [Coro -> Pc] /\ pending \in Seq(Coro) /\ resuming \in Seq(Coro)
      /\ ext \in [Coro -> {"none", "main", "pool", "redis", "reply"}]
      /\ handles \in [Fd -> Coro \cup {NoCoro}] /\ TypeOK
  BY DEF TypeInv, TypeOK
<1>1. CASE EpollWait \/ DispatchWake \/ RedisHandlerReturn
  <2>1. /\ UNCHANGED <<pc, ext, resuming, pending>>
        /\ wpc' \notin {"wait", "drainEnd"}
    BY <1>1 DEF EpollWait, DispatchWake, RedisHandlerReturn
  <2> QED
    BY <2>1, PromiseStays DEF Looks
<1>2. CASE DrainReturn
  <2>1. /\ UNCHANGED <<pc, ext, resuming, pending, evfd, posting>>
        /\ wpc' \in {"wait", "drainEnd"} => wpc \in {"wait", "drainEnd"}
    BY <1>2 DEF DrainReturn
  <2> QED
    BY <2>1, PromiseStays DEF Looks
<1>3. ASSUME NEW d \in Coro, RedisCallback(d) PROVE Promised(c)'
  <2>1. /\ pending' = Append(pending, d) /\ ext' = [ext EXCEPT ![d] = "none"]
        /\ wpc' = "dispatch" /\ UNCHANGED <<pc, resuming>>
    BY <1>3 DEF RedisCallback, loopVars
  <2>2. InQueue(c, pending') <=> InQueue(c, pending) \/ c = d
    BY <1>0, <2>1, InAppend
  <2>3. Looks'
    BY <2>1 DEF Looks
  <2>4. CASE c = d
    BY <2>2, <2>3, <2>4 DEF Promised
  <2>5. CASE c # d
    <3>1. ext'[c] = ext[c]
      BY <1>0, <2>1, <2>5
    <3> QED
      BY <2>1, <2>2, <2>3, <3>1, PromiseStays
  <2> QED
    BY <2>4, <2>5
<1>4. ASSUME NEW f \in Fd, DispatchFd(f) PROVE Promised(c)'
  <2>1. UNCHANGED <<ext, resuming, pending, wpc, evfd, posting>>
    BY <1>4 DEF DispatchFd
  <2>2. \/ pc' = pc
        \/ handles[f] \in Coro /\ pc' = [pc EXCEPT ![handles[f]] = Resumed(@)]
    BY <1>0, <1>4 DEF DispatchFd
  <2>3. pc'[c] \in OnOther => pc[c] \in OnOther
    <3>1. ASSUME handles[f] \in Coro, pc' = [pc EXCEPT ![handles[f]] = Resumed(@)], c # handles[f]
          PROVE  pc'[c] = pc[c]
      BY <1>0, <3>1
    <3>2. ASSUME handles[f] \in Coro, pc' = [pc EXCEPT ![handles[f]] = Resumed(@)], c = handles[f]
          PROVE  pc'[c] \notin OnOther
      BY <1>0, <3>2, ResumeKeepsOthers DEF Suspended
    <3> QED
      BY <2>2, <3>1, <3>2
  <2> QED
    BY <2>1, <2>3, PromiseStays DEF Looks
<1>5. CASE SwapPending
  <2>1. /\ resuming = <<>> /\ resuming' = pending /\ UNCHANGED <<ext, pc>>
    BY <1>5 DEF SwapPending, ResumingDrained
  <2>2. ~InQueue(c, resuming) /\ (InQueue(c, pending) => InQueue(c, resuming'))
    BY <2>1, InEmpty
  <2> QED
    BY <2>1, <2>2 DEF Promised
<1>6. CASE ResumeNext
  <2>1. /\ resuming # <<>> /\ resuming' = Tail(resuming)
        /\ pc' = [pc EXCEPT ![Head(resuming)] = Resumed(@)]
        /\ UNCHANGED <<pending, ext, wpc, evfd, posting>>
    BY <1>6 DEF ResumeNext, loopVars
  <2>2. /\ Head(resuming) \in Coro
        /\ c # Head(resuming) /\ InQueue(c, resuming) => InQueue(c, resuming')
    BY <1>0, <2>1, TakeHead DEF HandleOnce
  <2>3. pc'[Head(resuming)] \notin Suspended /\ \A d \in Coro : d # Head(resuming) => pc'[d] = pc[d]
    BY <1>0, <2>1, <2>2, ResumeKeepsOthers
  <2>4. CASE c = Head(resuming)
    BY <2>3, <2>4 DEF Promised, Suspended
  <2>5. CASE c # Head(resuming)
    BY <2>1, <2>2, <2>3, <2>5, PromiseStays DEF Looks
  <2> QED
    BY <2>4, <2>5
<1> QED
  BY <1>1, <1>2, <1>3, <1>4, <1>5, <1>6 DEF Loop

LEMMA StaysQueued ==
  ASSUME NEW c \in Coro, NEW d \in Coro, pending \in Seq(Coro),
         pending' = pending \/ pending' = Append(pending, d)
  PROVE  InQueue(c, pending) => InQueue(c, pending')
<1>1. CASE pending' = Append(pending, d)
  BY <1>1, InAppend
<1> QED
  BY <1>1

LEMMA CoroutineKeepsPromises ==
  ASSUME TypeInv, NEW c \in Coro, Promised(c), NEW d \in Coro, Coroutine(d)
  PROVE  Promised(c)'
<1> USE Parties
<1>0. /\ pc \in [Coro -> Pc] /\ pending \in Seq(Coro)
      /\ ext \in [Coro -> {"none", "main", "pool", "redis", "reply"}]
      /\ fdOf \in [Coro -> Fd \cup {NoFd}]
  BY DEF TypeInv, TypeOK
<1>1. UNCHANGED <<wpc, resuming>> /\ pc[d] \notin OnOther
  BY CoroutineShape DEF Runs, Suspended
\* Whatever d does, the others stay where they are.
<1>2. ASSUME UNCHANGED <<ext, posting>>,
             pending' = pending \/ pending' = Append(pending, d), evfd = 1 => evfd' = 1,
             pc'[c] \in OnOther => pc[c] \in OnOther
      PROVE  Promised(c)'
  <2>1. InQueue(c, pending) => InQueue(c, pending')
    BY <1>0, <1>2, StaysQueued
  <2>2. Looks => Looks'
    BY <1>1, <1>2 DEF Looks
  <2> QED
    BY <1>1, <1>2, <2>1, <2>2, PromiseStays
<1>3. CASE AwaitRedis(d) \/ AwaitMySQL(d)
  <2>1. /\ pc' = [pc EXCEPT ![d] = "serveWait"] /\ UNCHANGED posting
        /\ \/ pending' = Append(pending, d) /\ UNCHANGED ext /\ evfd' = 1
           \/ UNCHANGED <<pending, evfd>> /\ \E x \in {"redis", "pool"} : ext' = [ext EXCEPT ![d] = x]
    BY <1>3 DEF AwaitRedis, AwaitMySQL, Goto
  <2>2. CASE c = d
    <3>1. CASE pending' = Append(pending, d) /\ evfd' = 1
      <4>1. InQueue(c, pending')
        BY <1>0, <2>2, <3>1, InAppend
      <4> QED
        BY <3>1, <4>1 DEF Promised, Looks
    <3>2. CASE \E x \in {"redis", "pool"} : ext' = [ext EXCEPT ![d] = x]
      BY <1>0, <2>2, <3>2 DEF Promised
    <3> QED
      BY <2>1, <3>1, <3>2
  <2>3. CASE c # d
    <3>1. pc'[c] = pc[c] /\ ext'[c] = ext[c]
      BY <1>0, <2>1, <2>3
    <3>2. InQueue(c, pending) => InQueue(c, pending')
      BY <1>0, <2>1, StaysQueued
    <3>3. Looks => Looks'
      BY <1>1, <2>1 DEF Looks
    <3> QED
      BY <1>1, <3>1, <3>2, <3>3, PromiseStays
  <2> QED
    BY <2>2, <2>3
<1>4. CASE AwaitSuspend(d)
  <2>1. /\ UNCHANGED <<ext, posting, evfd>>
        /\ SetClientHandle(d, fdOf[d])
        /\ \E p \in OnFd : Goto(d, p)
    BY <1>4 DEF AwaitSuspend, OnFd
  <2>2. pending' = pending \/ pending' = Append(pending, d)
    BY <2>1 DEF SetClientHandle
  <2>3. pc'[c] \in OnOther => pc[c] \in OnOther
    BY <1>0, <2>1 DEF Goto, OnFd, OnOther
  <2> QED
    BY <1>2, <2>1, <2>2, <2>3
<1>5. CASE \/ ReadData(d) \/ ReadEnd(d) \/ ReadEagain(d) \/ WritePart(d) \/ WriteRest(d)
           \/ WriteError(d) \/ WriteEagain(d) \/ Respond(d)
  <2>1. UNCHANGED <<pending, ext, evfd, posting>> /\ \E p \in Pc \ OnOther : Goto(d, p)
    <3>1. CASE ReadData(d) \/ ReadEnd(d) \/ ReadEagain(d)
      BY <3>1, Places DEF ReadData, ReadEnd, ReadEagain, OnOther
    <3>2. CASE WritePart(d) \/ WriteRest(d) \/ WriteError(d) \/ WriteEagain(d)
      BY <3>2, Places DEF WritePart, WriteRest, WriteError, WriteEagain, OnOther
    <3>3. CASE Respond(d)
      BY <3>3, Places DEF Respond, OnOther
    <3> QED
      BY <1>5, <3>1, <3>2, <3>3
  <2>2. pc'[c] \in OnOther => pc[c] \in OnOther
    BY <1>0, <2>1 DEF Goto
  <2> QED
    BY <1>2, <2>1, <2>2
<1>6. ASSUME NEW f \in Fd, BroadcastError(d, f) PROVE Promised(c)'
  <2>1. UNCHANGED <<pending, ext, evfd, posting, pc>>
    BY <1>6 DEF BroadcastError
  <2> QED
    BY <1>2, <2>1
<1>7. ASSUME NEW w \in WriteLoop, NEW f \in Fd, StartWriteLoop(d, w, f) PROVE Promised(c)'
  <2>1. UNCHANGED <<pending, ext, evfd, posting>> /\ Goto(w, "write")
    BY <1>7 DEF StartWriteLoop
  <2>2. pc'[c] \in OnOther => pc[c] \in OnOther
    BY <1>0, <2>1 DEF Goto, OnOther
  <2> QED
    BY <1>2, <2>1, <2>2
<1>8. CASE CloseConn(d) \/ EndWriteLoop(d)
  <2>1. UNCHANGED <<pending, ext, evfd, posting>> /\ Goto(d, "done")
    BY <1>8 DEF CloseConn, EndWriteLoop
  <2>2. pc'[c] \in OnOther => pc[c] \in OnOther
    BY <1>0, <2>1 DEF Goto, OnOther
  <2> QED
    BY <1>2, <2>1, <2>2
<1> QED
  BY <1>3, <1>4, <1>5, <1>6, <1>7, <1>8 DEF Coroutine

LEMMA PromiseInvariant == Spec => []AllPromised
<1>1. Init => AllPromised
  BY DEF Init, AllPromised, Promised, OnOther
<1>2. TypeInv /\ HandleOnce /\ ResumingDrained /\ AllPromised /\ [Next]_vars => AllPromised'
  <2> SUFFICES ASSUME TypeInv, HandleOnce, ResumingDrained, AllPromised, [Next]_vars,
                      NEW c \in Coro
               PROVE  Promised(c)'
    BY DEF AllPromised
  <2>1. Promised(c)
    BY DEF AllPromised
  <2>2. CASE UNCHANGED vars
    <3>1. UNCHANGED <<pc, ext, resuming, pending, wpc, evfd, posting>>
      BY <2>2 DEF vars, loopVars
    <3> QED
      BY <2>1, <3>1, PromiseStays DEF Looks
  <2>3. CASE Next
    BY <2>1, <2>3, EnvironmentKeepsPromises, LoopKeepsPromises, CoroutineKeepsPromises
    DEF Next, WorkerStep
  <2> QED
    BY <2>2, <2>3
<1> QED
  BY <1>1, <1>2, EdgeInvariant, OwnFdInvariant, PTL DEF Spec

\* When epoll_wait has nothing to report, nobody's result is in a queue and no
\* registered coroutine waits for something that has happened: what goes into
\* pending_resumes_ without a wakeup is seen before the loop blocks
\* (coro_net.h:198, 290).
THEOREM NobodyStranded == Spec => []NoStranded
<1>1. /\ TypeInv /\ HandleOnce /\ EdgeInv /\ OwnFd /\ ResumingDrained /\ AllPromised /\ NoMissedEdge
      => NoStranded
  <2> SUFFICES ASSUME TypeInv, HandleOnce, EdgeInv, OwnFd, ResumingDrained, AllPromised, NoMissedEdge,
                      wpc = "wait", ReportedFds = {}, ReportedSpecial = {}, posting = {}, NEW c \in Coro
               PROVE  /\ pc[c] \in OnOther => ext[c] # "none"
                      /\ pc[c] \in OnFd /\ WaitsForFd(c) => Want(pc[c]) \notin Poll(fdOf[c])
    BY DEF NoStranded
  <2>1. evfd # 1
    BY DEF ReportedSpecial
  <2>2. ~InQueue(c, resuming)
    BY InEmpty DEF ResumingDrained
  <2>3. pc[c] \in OnOther => ext[c] # "none"
    BY <2>1, <2>2 DEF AllPromised, Promised, Looks
  <2>4. ASSUME NEW f \in Fd, handles[f] = c PROVE Want(pc[c]) \notin Poll(fdOf[c])
    <3>1. c # NoCoro /\ fdOf[c] = f
      BY <2>4, Parties DEF OwnFd
    <3>2. /\ interest[f] = {Want(pc[c])}
          /\ interest[f] \subseteq Poll(f) => f \in armed \/ batch[f] # {}
      BY <2>4, <3>1 DEF NoMissedEdge
    <3>3. batch[f] = {}
      BY DEF EdgeInv, BatchDone
    <3>4. f \in armed => Poll(f) \cap interest[f] = {}
      BY DEF ReportedFds
    <3> QED
      BY <3>1, <3>2, <3>3, <3>4
  <2> QED
    BY <2>3, <2>4 DEF WaitsForFd
<1> QED
  BY <1>1, EdgeInvariant, OwnFdInvariant, PromiseInvariant, EdgesKept, PTL
=============================================================================
