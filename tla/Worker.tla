------------------------------- MODULE Worker -------------------------------
(***************************************************************************)
(* One Worker of coro_net.h: the epoll event loop, the coroutines it       *)
(* resumes, the threads that schedule() coroutines onto it, and the kernel *)
(* side of the client sockets it watches (edge-triggered epoll, eventfd).  *)
(*                                                                         *)
(* A connection coroutine is the skeleton of handle_http_connection: read, *)
(* serve (awaiting Redis or MySQL), write, and again until cleanup.  A     *)
(* write loop is client_write_loop of websocket.h, the second coroutine    *)
(* that may wait for the same fd once a connection speaks WebSocket.       *)
(* WriteLoop = {} is the server under plain HTTP traffic.                  *)
(***************************************************************************)
EXTENDS Naturals, Sequences

CONSTANTS
  Conn,       \* handle_http_connection coroutines
  WriteLoop,  \* client_write_loop coroutines
  Fd,         \* client socket descriptors
  Pool,       \* threads of the ThreadPool
  Main,       \* the thread that accepts
  NoCoro,     \* the null coroutine handle
  NoFd,       \* no descriptor
  MaxSend,    \* bound: chunks a peer sends over one connection
  MaxAwait,   \* bound: Redis/MySQL awaits while serving one request
  MaxWrite    \* bound: parts in which one response or frame is written

Coro == Conn \cup WriteLoop
Thread == Pool \cup {Main}
Event == {"IN", "OUT"}

ASSUME WorkerAssumption ==
  /\ Conn \cap WriteLoop = {}
  /\ NoCoro \notin Coro
  /\ NoFd \notin Fd
  /\ Main \notin Pool
  /\ MaxSend \in Nat
  /\ MaxAwait \in Nat
  /\ MaxWrite \in Nat \ {0}

VARIABLES
  \* the kernel: sockets, the epoll instance and the eventfd
  rx,        \* rx[f]: chunks received and not yet read
  toSend,    \* toSend[f]: chunks the peer may still send
  gone,      \* descriptors whose peer is gone, or that are closed
  space,     \* descriptors whose send buffer has room
  interest,  \* interest[f]: the events registered by ADD or MOD; {} if not in epoll
  armed,     \* the epoll ready list
  evfd,      \* wake_fd_: 1 if its counter is not zero
  \* the Worker object and the stack of its thread
  handles,   \* handles_
  readyEv,   \* ready_events_
  pending,   \* pending_resumes_
  resuming,  \* to_resume, the local queue of process_pending_resumes
  wpc,       \* where run() is
  batch,     \* batch[f]: the reported events of f still to dispatch
  special,   \* the other reported descriptors: "wake", "redis"
  running,   \* the coroutine that executes
  caller,    \* the coroutine that called it, if a write loop was started
  \* the coroutine frames
  pc,        \* pc[c]: where c is
  fdOf,      \* fdOf[c]: the descriptor c works on
  awaits,    \* awaits[c]: Redis/MySQL awaits of the current request
  left,      \* left[c]: parts of the current response or frame not yet written
  client,    \* client[f]: f's entry in t_local_clients, if any, and its is_writing
  \* the other parties
  ext,       \* ext[c]: who outside the Worker holds the handle of c
  posting    \* threads inside schedule(), between the push and wakeup()

kernelVars == <<rx, toSend, gone, space, interest, armed>>
loopVars == <<wpc, batch, special>>
frameVars == <<fdOf, awaits, left, client>>
vars == <<kernelVars, evfd, handles, readyEv, pending, resuming, loopVars,
          running, caller, pc, frameVars, ext, posting>>

Pc == {"unborn", "startWait", "read", "readEagain", "readWait", "readRetry",
       "serve", "serveWait", "write", "writeEagain", "writeWait", "writeRetry",
       "cleanup", "done"}
OnFd == {"readWait", "writeWait"}
OnOther == {"startWait", "serveWait"}
Suspended == OnFd \cup OnOther

TypeOK ==
  /\ rx \in [Fd -> Nat]
  /\ toSend \in [Fd -> Nat]
  /\ gone \subseteq Fd
  /\ space \subseteq Fd
  /\ interest \in [Fd -> SUBSET Event]
  /\ armed \subseteq Fd
  /\ evfd \in 0..1
  /\ handles \in [Fd -> Coro \cup {NoCoro}]
  /\ readyEv \in [Fd -> SUBSET Event]
  /\ pending \in Seq(Coro)
  /\ resuming \in Seq(Coro)
  /\ wpc \in {"wait", "dispatch", "swapWake", "drainWake", "drainEnd"}
  /\ batch \in [Fd -> SUBSET Event]
  /\ special \subseteq {"wake", "redis"}
  /\ running \in Coro \cup {NoCoro}
  /\ caller \in Conn \cup {NoCoro}
  /\ pc \in [Coro -> Pc]
  /\ fdOf \in [Coro -> Fd \cup {NoFd}]
  /\ awaits \in [Coro -> Nat]
  /\ left \in [Coro -> Nat]
  /\ client \in [Fd -> {"none", "idle", "writing"}]
  /\ ext \in [Coro -> {"none", "main", "pool", "redis", "reply"}]
  /\ posting \subseteq Thread

Init ==
  /\ rx = [f \in Fd |-> 0]
  /\ toSend = [f \in Fd |-> 0]
  /\ gone = Fd
  /\ space = {}
  /\ interest = [f \in Fd |-> {}]
  /\ armed = {}
  /\ evfd = 0
  /\ handles = [f \in Fd |-> NoCoro]
  /\ readyEv = [f \in Fd |-> {}]
  /\ pending = <<>>
  /\ resuming = <<>>
  /\ wpc = "wait"
  /\ batch = [f \in Fd |-> {}]
  /\ special = {}
  /\ running = NoCoro
  /\ caller = NoCoro
  /\ pc = [c \in Coro |-> "unborn"]
  /\ fdOf = [c \in Coro |-> NoFd]
  /\ awaits = [c \in Coro |-> 0]
  /\ left = [c \in Coro |-> 0]
  /\ client = [f \in Fd |-> "none"]
  /\ ext = [c \in Coro |-> "none"]
  /\ posting = {}

-----------------------------------------------------------------------------
(* The kernel and the peers. *)

Readable(f) == rx[f] > 0 \/ f \in gone
Writable(f) == f \in space \/ f \in gone

\* The events an epoll_wait would find on f now.
Poll(f) == {e \in Event : (e = "IN" /\ Readable(f)) \/ (e = "OUT" /\ Writable(f))}

Open(f) == \E c \in Conn : fdOf[c] = f

\* An event e occurs on f: it enters the ready list if f is watched for it.
Raise(f, e) == armed' = IF e \in interest[f] THEN armed \cup {f} ELSE armed

PeerSend(f) ==
  /\ Open(f) /\ f \notin gone /\ toSend[f] > 0
  /\ rx' = [rx EXCEPT ![f] = @ + 1]
  /\ toSend' = [toSend EXCEPT ![f] = @ - 1]
  /\ Raise(f, "IN")
  /\ UNCHANGED <<gone, space, interest, evfd, handles, readyEv, pending, resuming,
                 loopVars, running, caller, pc, frameVars, ext, posting>>

PeerRead(f) ==
  /\ Open(f) /\ f \notin gone /\ f \notin space
  /\ space' = space \cup {f}
  /\ Raise(f, "OUT")
  /\ UNCHANGED <<rx, toSend, gone, interest, evfd, handles, readyEv, pending, resuming,
                 loopVars, running, caller, pc, frameVars, ext, posting>>

\* A close or a reset is reported whatever f is watched for (EPOLLHUP).
PeerClose(f) ==
  /\ Open(f) /\ f \notin gone
  /\ gone' = gone \cup {f}
  /\ armed' = armed \cup {f}
  /\ UNCHANGED <<rx, toSend, space, interest, evfd, handles, readyEv, pending, resuming,
                 loopVars, running, caller, pc, frameVars, ext, posting>>

-----------------------------------------------------------------------------
(* The other threads: accept in main(), ThreadPool tasks, Redis. *)

\* main(): accept, add_client_fd(EPOLLIN | EPOLLET) and the first part of the
\* coroutine, up to its co_await SwitchToWorker.
Accept(c, f) ==
  /\ pc[c] = "unborn" /\ c \in Conn
  /\ ~Open(f)
  /\ Main \notin posting /\ \A d \in Coro : ext[d] # "main"
  /\ pc' = [pc EXCEPT ![c] = "startWait"]
  /\ fdOf' = [fdOf EXCEPT ![c] = f]
  /\ ext' = [ext EXCEPT ![c] = "main"]
  /\ rx' = [rx EXCEPT ![f] = 0]
  /\ toSend' = [toSend EXCEPT ![f] = MaxSend]
  /\ gone' = gone \ {f}
  /\ space' = space \cup {f}
  /\ interest' = [interest EXCEPT ![f] = {"IN"}]
  /\ UNCHANGED <<armed, evfd, handles, readyEv, pending, resuming, loopVars,
                 running, caller, awaits, left, client, posting>>

\* schedule(h), its first half: push under pending_mutex_.
SchedulePush(t, c) ==
  /\ t \notin posting
  /\ \/ t = Main /\ ext[c] = "main"
     \/ t \in Pool /\ ext[c] = "pool"
  /\ pending' = Append(pending, c)
  /\ ext' = [ext EXCEPT ![c] = "none"]
  /\ posting' = posting \cup {t}
  /\ UNCHANGED <<kernelVars, evfd, handles, readyEv, resuming, loopVars,
                 running, caller, pc, frameVars>>

\* schedule(h), its second half: wakeup().
ScheduleWakeup(t) ==
  /\ t \in posting
  /\ evfd' = 1
  /\ posting' = posting \ {t}
  /\ UNCHANGED <<kernelVars, handles, readyEv, pending, resuming, loopVars,
                 running, caller, pc, frameVars, ext>>

\* The reply to the command of c reaches the Redis socket of the Worker.
RedisAnswer(c) ==
  /\ ext[c] = "redis"
  /\ ext' = [ext EXCEPT ![c] = "reply"]
  /\ UNCHANGED <<kernelVars, evfd, handles, readyEv, pending, resuming, loopVars,
                 running, caller, pc, frameVars, posting>>

-----------------------------------------------------------------------------
(* Worker::run() *)

ReportedFds == {f \in armed : Poll(f) \cap interest[f] # {}}
ReportedSpecial ==
  {s \in {"wake", "redis"} : \/ s = "wake" /\ evfd = 1
                             \/ s = "redis" /\ \E c \in Coro : ext[c] = "reply"}

\* epoll_wait(-1): edge-triggered descriptors leave the ready list.
EpollWait ==
  /\ wpc = "wait"
  /\ ReportedFds # {} \/ ReportedSpecial # {}
  /\ batch' = [f \in Fd |-> IF f \in armed THEN Poll(f) \cap interest[f] ELSE {}]
  /\ special' = ReportedSpecial
  /\ armed' = {}
  /\ wpc' = "dispatch"
  /\ UNCHANGED <<rx, toSend, gone, space, interest, evfd, handles, readyEv, pending,
                 resuming, running, caller, pc, frameVars, ext, posting>>

\* fd == wake_fd_: empty the eventfd, then process_pending_resumes().
DispatchWake ==
  /\ wpc = "dispatch" /\ running = NoCoro /\ "wake" \in special
  /\ special' = special \ {"wake"}
  /\ evfd' = 0
  /\ wpc' = "swapWake"
  /\ UNCHANGED <<kernelVars, handles, readyEv, pending, resuming, batch,
                 running, caller, pc, frameVars, ext, posting>>

\* The fd handler of Redis reads a reply: command_callback, add_pending_resume.
RedisCallback(c) ==
  /\ wpc = "dispatch" /\ running = NoCoro /\ "redis" \in special
  /\ ext[c] = "reply"
  /\ ext' = [ext EXCEPT ![c] = "none"]
  /\ pending' = Append(pending, c)
  /\ UNCHANGED <<kernelVars, evfd, handles, readyEv, resuming, loopVars,
                 running, caller, pc, frameVars, posting>>

RedisHandlerReturn ==
  /\ wpc = "dispatch" /\ running = NoCoro /\ "redis" \in special
  /\ \A c \in Coro : ext[c] # "reply"
  /\ special' = special \ {"redis"}
  /\ UNCHANGED <<kernelVars, evfd, handles, readyEv, pending, resuming, wpc, batch,
                 running, caller, pc, frameVars, ext, posting>>

\* Where a coroutine continues when its handle is resumed.
Resumed(p) == CASE p = "startWait" -> "read"
                [] p = "serveWait" -> "serve"
                [] p = "readWait"  -> "readRetry"
                [] p = "writeWait" -> "writeRetry"
                [] OTHER -> p

\* A client fd: resume its coroutine, or keep the event in ready_events_.
DispatchFd(f) ==
  /\ wpc = "dispatch" /\ running = NoCoro /\ batch[f] # {}
  /\ batch' = [batch EXCEPT ![f] = {}]
  /\ \/ /\ handles[f] # NoCoro
        /\ running' = handles[f]
        /\ pc' = [pc EXCEPT ![handles[f]] = Resumed(@)]
        /\ handles' = [handles EXCEPT ![f] = NoCoro]
        /\ UNCHANGED readyEv
     \/ /\ handles[f] = NoCoro
        /\ readyEv' = [readyEv EXCEPT ![f] = @ \cup batch[f]]
        /\ UNCHANGED <<handles, running, pc>>
  /\ UNCHANGED <<kernelVars, evfd, pending, resuming, wpc, special, caller, frameVars,
                 ext, posting>>

\* Mutant: pending_resumes_ is swapped in the wake_fd_ branch only.
SwapPendingOnWakeOnly ==
  /\ \/ /\ wpc = "swapWake" /\ wpc' = "drainWake"
        /\ resuming' = pending
        /\ pending' = <<>>
     \/ /\ wpc = "dispatch" /\ running = NoCoro
        /\ special = {} /\ \A f \in Fd : batch[f] = {}
        /\ wpc' = "wait"
        /\ UNCHANGED <<resuming, pending>>
  /\ UNCHANGED <<kernelVars, evfd, handles, readyEv, batch, special, running, caller,
                 pc, frameVars, ext, posting>>

\* process_pending_resumes(): the swap under pending_mutex_, in the wake_fd_
\* branch or after the last event of the batch.
SwapPending ==
  /\ \/ wpc = "swapWake" /\ wpc' = "drainWake"
     \/ /\ wpc = "dispatch" /\ running = NoCoro
        /\ special = {} /\ \A f \in Fd : batch[f] = {}
        /\ wpc' = "drainEnd"
  /\ resuming' = pending
  /\ pending' = <<>>
  /\ UNCHANGED <<kernelVars, evfd, handles, readyEv, batch, special, running, caller,
                 pc, frameVars, ext, posting>>

\* process_pending_resumes(): resume the front of to_resume.
ResumeNext ==
  /\ wpc \in {"drainWake", "drainEnd"} /\ running = NoCoro
  /\ resuming # <<>>
  /\ running' = Head(resuming)
  /\ pc' = [pc EXCEPT ![Head(resuming)] = Resumed(@)]
  /\ resuming' = Tail(resuming)
  /\ UNCHANGED <<kernelVars, evfd, handles, readyEv, pending, loopVars, caller, frameVars,
                 ext, posting>>

DrainReturn ==
  /\ running = NoCoro /\ resuming = <<>>
  /\ \/ wpc = "drainWake" /\ wpc' = "dispatch"
     \/ wpc = "drainEnd" /\ wpc' = "wait"
  /\ UNCHANGED <<kernelVars, evfd, handles, readyEv, pending, resuming, batch, special,
                 running, caller, pc, frameVars, ext, posting>>

-----------------------------------------------------------------------------
(* The coroutine that executes. *)

\* The coroutine returns control: to the one that called it, or to the loop.
Yield == running' = caller /\ caller' = NoCoro

Goto(c, p) == pc' = [pc EXCEPT ![c] = p]

\* clear_ready_events(fd), made by await_ready and not by await_resume.
ClearIfFirst(c, first) ==
  readyEv' = IF pc[c] = first THEN [readyEv EXCEPT ![fdOf[c]] = {}] ELSE readyEv

\* Mutant: a read at end of file counts as data.
ReadDataAtEof(c) ==
  /\ running = c /\ pc[c] \in {"read", "readRetry"}
  /\ Readable(fdOf[c])
  /\ rx' = [rx EXCEPT ![fdOf[c]] = @ - 1]
  /\ ClearIfFirst(c, "read")
  /\ \E p \in {"read", "serve"} : Goto(c, p)
  /\ UNCHANGED <<toSend, gone, space, interest, armed, evfd, handles, pending, resuming,
                 loopVars, running, caller, frameVars, ext, posting>>

\* AsyncRead gets data, at await_ready or at await_resume: the request is
\* complete, or more is read.
ReadData(c) ==
  /\ running = c /\ pc[c] \in {"read", "readRetry"}
  /\ rx[fdOf[c]] > 0
  /\ rx' = [rx EXCEPT ![fdOf[c]] = @ - 1]
  /\ ClearIfFirst(c, "read")
  /\ \E p \in {"read", "serve"} : Goto(c, p)
  /\ UNCHANGED <<toSend, gone, space, interest, armed, evfd, handles, pending, resuming,
                 loopVars, running, caller, frameVars, ext, posting>>

\* Mutant: 0 is taken for "no data yet" and the read loop continues.
ReadEndRetries(c) ==
  /\ running = c /\ pc[c] \in {"read", "readRetry"}
  /\ rx[fdOf[c]] = 0 /\ fdOf[c] \in gone
  /\ ClearIfFirst(c, "read")
  /\ Goto(c, "read")
  /\ UNCHANGED <<kernelVars, evfd, handles, pending, resuming, loopVars, running, caller,
                 frameVars, ext, posting>>

\* AsyncRead returns 0 or an error that is not EAGAIN.
ReadEnd(c) ==
  /\ running = c /\ pc[c] \in {"read", "readRetry"}
  /\ rx[fdOf[c]] = 0 /\ fdOf[c] \in gone
  /\ ClearIfFirst(c, "read")
  /\ Goto(c, "cleanup")
  /\ UNCHANGED <<kernelVars, evfd, handles, pending, resuming, loopVars, running, caller,
                 frameVars, ext, posting>>

\* AsyncRead finds nothing: await_ready goes on to await_suspend.  After
\* await_resume the request and frame header loops try again; in the middle of
\* a WebSocket frame the connection ends instead.
ReadEagain(c) ==
  /\ running = c /\ pc[c] \in {"read", "readRetry"}
  /\ ~Readable(fdOf[c])
  /\ \/ pc[c] = "read" /\ Goto(c, "readEagain")
     \/ pc[c] = "readRetry" /\ Goto(c, "read")
     \/ pc[c] = "readRetry" /\ client[fdOf[c]] # "none" /\ Goto(c, "cleanup")
  /\ UNCHANGED <<kernelVars, evfd, handles, readyEv, pending, resuming, loopVars,
                 running, caller, frameVars, ext, posting>>

\* client_write_loop finds its queue empty, or an error: what it leaves of the
\* entry of f in t_local_clients, which may be gone or another connection's.
WriteLoopIdle(f) == client' = [client EXCEPT ![f] = IF @ = "none" THEN "none" ELSE "idle"]
WriteLoopDrop(f) == client' = [client EXCEPT ![f] = "none"]

\* AsyncWrite takes some bytes, and the send buffer is full.
WritePart(c) ==
  /\ running = c /\ pc[c] \in {"write", "writeRetry"}
  /\ fdOf[c] \in space /\ fdOf[c] \notin gone /\ left[c] > 1
  /\ ClearIfFirst(c, "write")
  /\ left' = [left EXCEPT ![c] = @ - 1]
  /\ space' = space \ {fdOf[c]}
  /\ Goto(c, "write")
  /\ UNCHANGED <<rx, toSend, gone, interest, armed, evfd, handles, pending, resuming,
                 loopVars, running, caller, fdOf, awaits, client, ext, posting>>

\* AsyncWrite takes the last byte.  A connection then reads the next request,
\* closes, or speaks WebSocket from now on (WSManager::add); a write loop ends.
WriteRest(c) ==
  /\ running = c /\ pc[c] \in {"write", "writeRetry"}
  /\ fdOf[c] \in space /\ fdOf[c] \notin gone
  /\ ClearIfFirst(c, "write")
  /\ left' = [left EXCEPT ![c] = 0]
  /\ space' \in {space, space \ {fdOf[c]}}
  /\ \/ c \in Conn /\ Goto(c, "read") /\ UNCHANGED client
     \/ c \in Conn /\ client[fdOf[c]] = "none" /\ Goto(c, "cleanup") /\ UNCHANGED client
     \/ /\ c \in Conn /\ WriteLoop # {} /\ client[fdOf[c]] = "none"
        /\ Goto(c, "read")
        /\ client' = [client EXCEPT ![fdOf[c]] = "idle"]
     \/ c \in WriteLoop /\ Goto(c, "cleanup") /\ WriteLoopIdle(fdOf[c])
  /\ UNCHANGED <<rx, toSend, gone, interest, armed, evfd, handles, pending, resuming,
                 loopVars, running, caller, fdOf, awaits, ext, posting>>

\* AsyncWrite fails: a connection goes to cleanup; client_write_loop erases the
\* WSClient and shuts the socket down.
WriteError(c) ==
  /\ running = c /\ pc[c] \in {"write", "writeRetry"}
  /\ fdOf[c] \in gone
  /\ ClearIfFirst(c, "write")
  /\ Goto(c, "cleanup")
  /\ \/ c \in Conn /\ UNCHANGED client
     \/ c \in WriteLoop /\ WriteLoopDrop(fdOf[c])
  /\ UNCHANGED <<kernelVars, evfd, handles, pending, resuming, loopVars, running, caller,
                 fdOf, awaits, left, ext, posting>>

\* AsyncWrite finds no room: await_ready goes on to await_suspend.  After
\* await_resume the response loop tries again; every other writer takes the -1
\* for an error, and client_write_loop shuts the socket down.
WriteEagain(c) ==
  /\ running = c /\ pc[c] \in {"write", "writeRetry"}
  /\ ~Writable(fdOf[c])
  /\ \/ pc[c] = "write" /\ Goto(c, "writeEagain") /\ UNCHANGED <<gone, armed, client>>
     \/ /\ pc[c] = "writeRetry" /\ c \in Conn
        /\ \/ client[fdOf[c]] = "none" /\ Goto(c, "write")
           \/ WriteLoop # {} /\ Goto(c, "cleanup")
        /\ UNCHANGED <<gone, armed, client>>
     \/ /\ pc[c] = "writeRetry" /\ c \in WriteLoop
        /\ Goto(c, "cleanup")
        /\ WriteLoopDrop(fdOf[c])
        /\ gone' = gone \cup {fdOf[c]}
        /\ armed' = armed \cup {fdOf[c]}
  /\ UNCHANGED <<rx, toSend, space, interest, evfd, handles, readyEv, pending, resuming,
                 loopVars, running, caller, fdOf, awaits, left, ext, posting>>

Want(p) == IF p \in {"readEagain", "readWait"} THEN "IN" ELSE "OUT"

\* Mutant: the early event is taken, the coroutine is not scheduled.
SetClientHandleForgets(c, f) ==
  IF readyEv[f] # {}
  THEN /\ readyEv' = [readyEv EXCEPT ![f] = {}]
       /\ handles' = [handles EXCEPT ![f] = NoCoro]
       /\ UNCHANGED pending
  ELSE /\ handles' = [handles EXCEPT ![f] = c]
       /\ UNCHANGED <<readyEv, pending>>

\* Mutant: the coroutine is scheduled and stays registered.
SetClientHandleTwice(c, f) ==
  /\ handles' = [handles EXCEPT ![f] = c]
  /\ IF readyEv[f] # {}
     THEN /\ readyEv' = [readyEv EXCEPT ![f] = {}]
          /\ pending' = Append(pending, c)
     ELSE UNCHANGED <<readyEv, pending>>

\* set_client_handle: register the handle, or, if the event came first, move
\* it to pending_resumes_ without a wakeup.
SetClientHandle(c, f) ==
  IF readyEv[f] # {}
  THEN /\ readyEv' = [readyEv EXCEPT ![f] = {}]
       /\ pending' = Append(pending, c)
       /\ handles' = [handles EXCEPT ![f] = NoCoro]
  ELSE /\ handles' = [handles EXCEPT ![f] = c]
       /\ UNCHANGED <<readyEv, pending>>

\* mod_client_fd: EPOLL_CTL_MOD replaces the interest and polls at once.
ModClientFd(f, e) ==
  /\ interest' = [interest EXCEPT ![f] = {e}]
  /\ armed' = IF e \in Poll(f) THEN armed \cup {f} ELSE armed

\* Mutant: AsyncRead trusts the interest of add_client_fd.
AwaitSuspendNoReadMod(c) ==
  /\ running = c /\ pc[c] \in {"readEagain", "writeEagain"}
  /\ SetClientHandle(c, fdOf[c])
  /\ IF pc[c] = "readEagain" THEN UNCHANGED <<interest, armed>>
                             ELSE ModClientFd(fdOf[c], "OUT")
  /\ Goto(c, IF pc[c] = "readEagain" THEN "readWait" ELSE "writeWait")
  /\ Yield
  /\ UNCHANGED <<rx, toSend, gone, space, evfd, resuming, loopVars, frameVars, ext, posting>>

\* await_suspend of AsyncRead and AsyncWrite.
AwaitSuspend(c) ==
  /\ running = c /\ pc[c] \in {"readEagain", "writeEagain"}
  /\ SetClientHandle(c, fdOf[c])
  /\ ModClientFd(fdOf[c], Want(pc[c]))
  /\ Goto(c, IF pc[c] = "readEagain" THEN "readWait" ELSE "writeWait")
  /\ Yield
  /\ UNCHANGED <<rx, toSend, gone, space, evfd, resuming, loopVars, frameVars, ext, posting>>

\* Mutant: a refused command uses add_pending_resume instead of schedule.
AwaitRedisNoWakeup(c) ==
  /\ running = c /\ pc[c] = "serve" /\ awaits[c] < MaxAwait
  /\ awaits' = [awaits EXCEPT ![c] = @ + 1]
  /\ Goto(c, "serveWait")
  /\ Yield
  /\ \/ ext' = [ext EXCEPT ![c] = "redis"] /\ UNCHANGED pending
     \/ pending' = Append(pending, c) /\ UNCHANGED ext
  /\ UNCHANGED <<kernelVars, evfd, handles, readyEv, resuming, loopVars, fdOf, left, client,
                 posting>>

\* co_await AsyncRedisCommand: submitted, or refused by hiredis and then
\* rescheduled with schedule(h).
AwaitRedis(c) ==
  /\ running = c /\ pc[c] = "serve" /\ awaits[c] < MaxAwait
  /\ awaits' = [awaits EXCEPT ![c] = @ + 1]
  /\ Goto(c, "serveWait")
  /\ Yield
  /\ \/ /\ ext' = [ext EXCEPT ![c] = "redis"]
        /\ UNCHANGED <<pending, evfd>>
     \/ /\ pending' = Append(pending, c)
        /\ evfd' = 1
        /\ UNCHANGED ext
  /\ UNCHANGED <<kernelVars, handles, readyEv, resuming, loopVars, fdOf, left, client, posting>>

\* co_await AsyncMySQLQuery: a ThreadPool task holds the handle.
AwaitMySQL(c) ==
  /\ running = c /\ pc[c] = "serve" /\ awaits[c] < MaxAwait
  /\ awaits' = [awaits EXCEPT ![c] = @ + 1]
  /\ Goto(c, "serveWait")
  /\ Yield
  /\ ext' = [ext EXCEPT ![c] = "pool"]
  /\ UNCHANGED <<kernelVars, evfd, handles, readyEv, pending, resuming, loopVars, fdOf,
                 left, client, posting>>

\* The request is served: write the response, or, for a WebSocket message,
\* read the next frame.
Respond(c) ==
  /\ running = c /\ pc[c] = "serve"
  /\ awaits' = [awaits EXCEPT ![c] = 0]
  /\ \/ Goto(c, "write") /\ \E n \in 1..MaxWrite : left' = [left EXCEPT ![c] = n]
     \/ client[fdOf[c]] # "none" /\ Goto(c, "read") /\ UNCHANGED left
  /\ UNCHANGED <<kernelVars, evfd, handles, readyEv, pending, resuming, loopVars, running,
                 caller, fdOf, client, ext, posting>>

\* enqueue_or_write_frame fills the send buffer of f: the rest of the frame is
\* for client_write_loop, which runs at once on top of the broadcaster.
StartWriteLoop(c, w, f) ==
  /\ running = c /\ pc[c] = "serve" /\ c \in Conn
  /\ pc[w] = "unborn" /\ w \in WriteLoop
  /\ client[f] = "idle" /\ f \notin gone
  /\ space' = space \ {f}
  /\ client' = [client EXCEPT ![f] = "writing"]
  /\ \E n \in 1..MaxWrite : left' = [left EXCEPT ![w] = n]
  /\ Goto(w, "write")
  /\ fdOf' = [fdOf EXCEPT ![w] = f]
  /\ running' = w /\ caller' = c
  /\ UNCHANGED <<rx, toSend, gone, interest, armed, evfd, handles, readyEv, pending,
                 resuming, loopVars, awaits, ext, posting>>

\* enqueue_or_write_frame meets a dead socket: the WSClient is erased.
BroadcastError(c, f) ==
  /\ running = c /\ pc[c] = "serve" /\ c \in Conn
  /\ client[f] = "idle" /\ f \in gone
  /\ client' = [client EXCEPT ![f] = "none"]
  /\ UNCHANGED <<kernelVars, evfd, handles, readyEv, pending, resuming, loopVars, running,
                 caller, pc, fdOf, awaits, left, ext, posting>>

\* cleanup: del_client_fd, close, and the frame is destroyed.
CloseConn(c) ==
  /\ running = c /\ pc[c] = "cleanup" /\ c \in Conn
  /\ LET f == fdOf[c] IN
       /\ interest' = [interest EXCEPT ![f] = {}]
       /\ armed' = armed \ {f}
       /\ handles' = [handles EXCEPT ![f] = NoCoro]
       /\ readyEv' = [readyEv EXCEPT ![f] = {}]
       /\ rx' = [rx EXCEPT ![f] = 0]
       /\ toSend' = [toSend EXCEPT ![f] = 0]
       /\ gone' = gone \cup {f}
       /\ space' = space \ {f}
       /\ client' = [client EXCEPT ![f] = "none"]
  /\ fdOf' = [fdOf EXCEPT ![c] = NoFd]
  /\ Goto(c, "done")
  /\ Yield
  /\ UNCHANGED <<evfd, pending, resuming, loopVars, awaits, left, ext, posting>>

\* client_write_loop returns.
EndWriteLoop(w) ==
  /\ running = w /\ pc[w] = "cleanup" /\ w \in WriteLoop
  /\ fdOf' = [fdOf EXCEPT ![w] = NoFd]
  /\ Goto(w, "done")
  /\ Yield
  /\ UNCHANGED <<kernelVars, evfd, handles, readyEv, pending, resuming, loopVars, awaits,
                 left, client, ext, posting>>

-----------------------------------------------------------------------------
Loop ==
  \/ EpollWait \/ DispatchWake \/ RedisHandlerReturn
  \/ SwapPending \/ ResumeNext \/ DrainReturn
  \/ \E c \in Coro : RedisCallback(c)
  \/ \E f \in Fd : DispatchFd(f)

Coroutine(c) ==
  \/ ReadData(c) \/ ReadEnd(c) \/ ReadEagain(c)
  \/ WritePart(c) \/ WriteRest(c) \/ WriteError(c) \/ WriteEagain(c)
  \/ AwaitSuspend(c) \/ AwaitRedis(c) \/ AwaitMySQL(c) \/ Respond(c)
  \/ \E w \in WriteLoop, f \in Fd : StartWriteLoop(c, w, f)
  \/ \E f \in Fd : BroadcastError(c, f)
  \/ CloseConn(c) \/ EndWriteLoop(c)

\* A step of the Worker's thread.
WorkerStep == Loop \/ \E c \in Coro : Coroutine(c)

Environment ==
  \/ \E f \in Fd : PeerSend(f) \/ PeerRead(f) \/ PeerClose(f)
  \/ \E c \in Conn, f \in Fd : Accept(c, f)
  \/ \E t \in Thread, c \in Coro : SchedulePush(t, c)
  \/ \E t \in Thread : ScheduleWakeup(t)
  \/ \E c \in Coro : RedisAnswer(c)

Next == WorkerStep \/ Environment

Spec == Init /\ [][Next]_vars

\* The threads keep running, MySQL and Redis answer; the peers owe nothing.
Fairness ==
  /\ WF_vars(WorkerStep)
  /\ \A c \in Coro : WF_vars(\E t \in Thread : SchedulePush(t, c))
  /\ \A t \in Thread : WF_vars(ScheduleWakeup(t))
  /\ \A c \in Coro : WF_vars(RedisAnswer(c))

FairSpec == Spec /\ Fairness

-----------------------------------------------------------------------------
(* Properties. *)

InQueue(c, q) == \E i \in 1..Len(q) : q[i] = c
Distinct(q) == \A i, j \in 1..Len(q) : q[i] = q[j] => i = j
WaitsForFd(c) == \E f \in Fd : handles[f] = c

\* Somebody still holds the handle of c and may resume it.
Held(c) ==
  WaitsForFd(c) \/ InQueue(c, pending) \/ InQueue(c, resuming) \/ ext[c] # "none"

\* The handle of a coroutine is in one place only (handles_, pending_resumes_,
\* the local to_resume, or with another thread or Redis), and only while the
\* coroutine is suspended: no coroutine is resumed twice for one suspension, and
\* none is resumed while it runs or after its frame is destroyed (run() and
\* process_pending_resumes() test h.done(), which says nothing of a freed frame).
HandleOnce ==
  /\ Distinct(pending) /\ Distinct(resuming)
  /\ \A f, g \in Fd : handles[f] = handles[g] /\ f # g => handles[f] = NoCoro
  /\ \A c \in Coro :
       /\ Held(c) => pc[c] \in Suspended
       /\ WaitsForFd(c) => ~InQueue(c, pending) /\ ~InQueue(c, resuming) /\ ext[c] = "none"
       /\ InQueue(c, pending) => ~InQueue(c, resuming) /\ ext[c] = "none"
       /\ InQueue(c, resuming) => ext[c] = "none"

\* Every suspended coroutine is held by somebody who may resume it: its frame
\* does not leak and its connection is not forgotten, as long as handles_, which
\* has one place per descriptor (coro_net.h:161), serves one coroutine on each:
\* a client_write_loop is the second.
NoLostCoroutine ==
  (\A w \in WriteLoop : pc[w] = "unborn") => \A c \in Coro : pc[c] \in Suspended => Held(c)

\* A coroutine registered in handles_ is watched for what it waits for, and if
\* that already happened the edge has not been lost: the descriptor is in the
\* ready list or its event is in the batch still to dispatch (edge-triggered
\* epoll reports an edge once; mod_client_fd after set_client_handle re-arms it).
NoMissedEdge ==
  \A f \in Fd : handles[f] # NoCoro =>
    /\ interest[f] = {Want(pc[handles[f]])}
    /\ interest[f] \subseteq Poll(f) => f \in armed \/ batch[f] # {}

\* When the Worker blocks in epoll_wait(-1) with nothing to report, no coroutine
\* could have gone on: none has its result (accepted, Redis or MySQL answered,
\* refused) and none that is registered waits for a descriptor that is ready.
\* This is why add_pending_resume may do without the wakeup() of schedule().
NoStranded ==
  wpc = "wait" /\ ReportedFds = {} /\ ReportedSpecial = {} /\ posting = {} =>
    \A c \in Coro :
      /\ pc[c] \in OnOther => ext[c] # "none"
      /\ pc[c] \in OnFd /\ WaitsForFd(c) => Want(pc[c]) \notin Poll(fdOf[c])

\* chat_app.h:848: cleanup is reached on every path.  A connection whose peer is
\* gone is closed and its frame destroyed, whatever it was doing.
CleanupReached ==
  \A c \in Conn : (pc[c] # "unborn" /\ fdOf[c] # NoFd /\ fdOf[c] \in gone) ~> pc[c] = "done"

\* What a peer sends is read, unless the connection waits for the peer to read.
DataConsumed ==
  \A f \in Fd : rx[f] > 0 ~> (rx[f] = 0 \/ \E c \in Conn : fdOf[c] = f /\ pc[c] = "writeWait")
=============================================================================
