------------------------------ MODULE MySQLPool ------------------------------
(***************************************************************************)
(* async_mysql.h: coroutines that co_await AsyncMySQLQuery, the ThreadPool  *)
(* whose threads run the queries, the MySQLPool of connections they share,  *)
(* and a MySQL server whose connections and self may go away; and the start *)
(* of the server in main(), which is the first client of the pool.          *)
(*                                                                         *)
(* A condition variable is the set of the threads that wait for it: they    *)
(* are those at "noTask" and "noConn".                                      *)
(***************************************************************************)
EXTENDS Naturals, Sequences, FiniteSets

CONSTANTS
  Coro,       \* coroutines of the Workers
  Thread,     \* threads of the ThreadPool
  Main,       \* the thread of main()
  Conn,       \* slots for connections, pool_size_ of them
  NoCoro, NoThread, NoConn,
  MaxQuery,   \* bound: queries of one coroutine
  MaxBreak,   \* bound: connections the server drops (wait_timeout, KILL, a network fault)
  MaxOutage   \* bound: outages of the server

ASSUME PoolAssumption ==
  /\ NoCoro \notin Coro /\ NoThread \notin Thread /\ Main \notin Thread \cup {NoThread} /\ NoConn \notin Conn
  /\ MaxQuery \in Nat /\ MaxBreak \in Nat /\ MaxOutage \in Nat
  /\ IsFiniteSet(Coro) /\ IsFiniteSet(Thread)

Client == Thread \cup {Main}

VARIABLES
  \* the coroutines and their AsyncMySQLQuery objects
  co,        \* co[c]: "run", "notify" (inside submit) or "wait" (suspended)
  asked,     \* asked[c]: queries of c so far
  result,    \* result[c]: result_ of the current query
  scheduled, \* coroutines given to Worker::schedule
  \* the ThreadPool
  tasks,     \* tasks_: each task is the coroutine it works for
  tpc,       \* tpc[t]: where the thread is; also the one of main()
  job,       \* job[t]: the task it runs
  \* the MySQLPool
  tried,     \* the connections the constructor has tried to open
  pool,      \* pool_
  lock,      \* who holds MySQLPool::mutex_ over several steps
  held,      \* held[t]: the connection the thread has acquired
  \* the server
  up,        \* it accepts connections
  broken,    \* connections whose link is dead
  breaks,    \* connections dropped so far
  outages    \* outages so far

coroVars == <<co, asked, result, scheduled>>
poolVars == <<tried, pool, lock, held>>
serverVars == <<up, broken, breaks, outages>>
vars == <<coroVars, tasks, tpc, job, poolVars, serverVars>>

Place == {"connect", "acquire", "noConn", "ping", "query", "release", "start",
          "bind", "listen", "exit", "unborn", "take", "noTask", "schedule"}

TypeOK ==
  /\ co \in [Coro -> {"run", "notify", "wait"}]
  /\ asked \in [Coro -> Nat]
  /\ result \in [Coro -> {"none", "ok", "error"}]
  /\ scheduled \subseteq Coro
  /\ tasks \in Seq(Coro)
  /\ tpc \in [Client -> Place]
  /\ job \in [Client -> Coro \cup {NoCoro}]
  /\ tried \subseteq Conn
  /\ pool \in Seq(Conn)
  /\ lock \in Client \cup {NoThread}
  /\ held \in [Client -> Conn \cup {NoConn}]
  /\ up \in BOOLEAN
  /\ broken \subseteq Conn
  /\ breaks \in Nat
  /\ outages \in Nat

\* main() is in the constructor of MySQLPool; MySQL may be down.
Init ==
  /\ co = [c \in Coro |-> "run"]
  /\ asked = [c \in Coro |-> 0]
  /\ result = [c \in Coro |-> "none"]
  /\ scheduled = {}
  /\ tasks = <<>>
  /\ tpc = [t \in Client |-> IF t = Main THEN "connect" ELSE "unborn"]
  /\ job = [t \in Client |-> NoCoro]
  /\ tried = {}
  /\ pool = <<>>
  /\ lock = NoThread
  /\ held = [t \in Client |-> NoConn]
  /\ \/ up = TRUE /\ outages = 0
     \/ up = FALSE /\ outages = 1 /\ MaxOutage > 0
  /\ broken = {}
  /\ breaks = 0

Goto(t, p) == tpc' = [tpc EXCEPT ![t] = p]

\* notify_one: one of the threads that wait at p goes on to q, if there is one.
NotifyOne(p, q) ==
  IF \E t \in Client : tpc[t] = p
  THEN \E t \in Client : tpc[t] = p /\ Goto(t, q)
  ELSE UNCHANGED tpc

\* The task of t puts r into result_; init_mysql_tables only prints its results.
Answer(t, r) == result' = [c \in Coro |-> IF c = job[t] THEN r ELSE result[c]]

\* What t does when it has no connection any more, or none at all.
AfterPool(t) == IF t = Main THEN "start" ELSE "schedule"

-----------------------------------------------------------------------------
(* main(): the pool, the tables, the thread pool, the socket. *)

\* MySQLPool(): a connection that cannot be made is left out.
Connect(x) ==
  /\ tpc[Main] = "connect" /\ x \notin tried
  /\ tried' = tried \cup {x}
  /\ pool' = IF up THEN Append(pool, x) ELSE pool
  /\ UNCHANGED <<coroVars, tasks, tpc, job, lock, held, serverVars>>

\* init_mysql_tables: acquire() on the thread of main().
InitTables ==
  /\ tpc[Main] = "connect" /\ tried = Conn
  /\ Goto(Main, "acquire")
  /\ UNCHANGED <<coroVars, tasks, job, poolVars, serverVars>>

\* The ThreadPool; the Workers and their Redis connections.
StartThreads ==
  /\ tpc[Main] = "start"
  /\ tpc' = [t \in Client |-> IF t = Main THEN "bind" ELSE "take"]
  /\ UNCHANGED <<coroVars, tasks, job, poolVars, serverVars>>

\* create_server: main() returns when the port cannot be had.
CreateServer ==
  /\ tpc[Main] = "bind"
  /\ Goto(Main, "listen") \/ Goto(Main, "exit")
  /\ UNCHANGED <<coroVars, tasks, job, poolVars, serverVars>>

-----------------------------------------------------------------------------
(* The coroutine: co_await AsyncMySQLQuery. *)

\* await_suspend, submit(): the task is pushed under ThreadPool::mutex_.
Submit(c) ==
  /\ tpc[Main] = "listen"
  /\ co[c] = "run" /\ asked[c] < MaxQuery
  /\ asked' = [asked EXCEPT ![c] = @ + 1]
  /\ result' = [result EXCEPT ![c] = "none"]
  /\ tasks' = Append(tasks, c)
  /\ co' = [co EXCEPT ![c] = "notify"]
  /\ UNCHANGED <<scheduled, tpc, job, poolVars, serverVars>>

\* Mutant: submit() does not notify when other tasks are queued.
SubmitReturnFirstOnly(c) ==
  /\ co[c] = "notify"
  /\ co' = [co EXCEPT ![c] = "wait"]
  /\ IF Len(tasks) > 1 THEN UNCHANGED tpc ELSE NotifyOne("noTask", "take")
  /\ UNCHANGED <<asked, result, scheduled, tasks, job, poolVars, serverVars>>

\* submit(): notify_one, without the mutex; the coroutine is suspended.
SubmitReturn(c) ==
  /\ co[c] = "notify"
  /\ co' = [co EXCEPT ![c] = "wait"]
  /\ NotifyOne("noTask", "take")
  /\ UNCHANGED <<asked, result, scheduled, tasks, job, poolVars, serverVars>>

\* The Worker resumes the coroutine: await_resume moves result_ out.
Resume(c) ==
  /\ co[c] = "wait" /\ c \in scheduled
  /\ scheduled' = scheduled \ {c}
  /\ co' = [co EXCEPT ![c] = "run"]
  /\ UNCHANGED <<asked, result, tasks, tpc, job, poolVars, serverVars>>

-----------------------------------------------------------------------------
(* A thread of the ThreadPool. *)

\* Mutant: the coroutine is scheduled before the query runs.
TakeTaskSchedules(t) ==
  /\ tpc[t] = "take" /\ tasks # <<>>
  /\ job' = [job EXCEPT ![t] = Head(tasks)]
  /\ scheduled' = scheduled \cup {Head(tasks)}
  /\ tasks' = Tail(tasks)
  /\ Goto(t, "acquire")
  /\ UNCHANGED <<co, asked, result, poolVars, serverVars>>

\* cv_.wait(lock, pred), front, pop: all under ThreadPool::mutex_.
TakeTask(t) ==
  /\ tpc[t] = "take"
  /\ \/ /\ tasks = <<>>
        /\ Goto(t, "noTask")
        /\ UNCHANGED <<job, tasks>>
     \/ /\ tasks # <<>>
        /\ job' = [job EXCEPT ![t] = Head(tasks)]
        /\ tasks' = Tail(tasks)
        /\ Goto(t, "acquire")
  /\ UNCHANGED <<coroVars, poolVars, serverVars>>

\* Mutant: the thread looks at the connection and leaves it in the queue.
AcquireKeeps(t) ==
  /\ tpc[t] = "acquire" /\ lock = NoThread
  /\ IF pool = <<>>
     THEN Goto(t, "noConn") /\ UNCHANGED poolVars
     ELSE /\ held' = [held EXCEPT ![t] = Head(pool)]
          /\ lock' = t
          /\ Goto(t, "ping")
          /\ UNCHANGED <<tried, pool>>
  /\ UNCHANGED <<coroVars, tasks, job, serverVars>>

\* acquire(): wait for a connection; the mutex stays locked during mysql_ping.
Acquire(t) ==
  /\ tpc[t] = "acquire" /\ lock = NoThread
  /\ IF pool = <<>>
     THEN Goto(t, "noConn") /\ UNCHANGED poolVars
     ELSE /\ held' = [held EXCEPT ![t] = Head(pool)]
          /\ pool' = Tail(pool)
          /\ lock' = t
          /\ Goto(t, "ping")
          /\ UNCHANGED tried
  /\ UNCHANGED <<coroVars, tasks, job, serverVars>>

\* Mutant: after a failed reconnect acquire() starts again, inside the mutex.
PingRecurses(t) ==
  /\ tpc[t] = "ping"
  /\ \/ /\ held[t] \notin broken
        /\ Goto(t, "query")
        /\ lock' = NoThread
        /\ UNCHANGED <<held, broken>>
     \/ /\ held[t] \in broken /\ up
        /\ broken' = broken \ {held[t]}
        /\ Goto(t, "query")
        /\ lock' = NoThread
        /\ UNCHANGED held
     \/ /\ held[t] \in broken /\ ~up
        /\ held' = [held EXCEPT ![t] = NoConn]
        /\ Goto(t, "acquire")
        /\ UNCHANGED <<lock, broken>>
  /\ UNCHANGED <<coroVars, tasks, job, tried, pool, up, breaks, outages>>

\* Mutant: nobody looks whether the new connection is nullptr.
PingUnchecked(t) ==
  /\ tpc[t] = "ping"
  /\ lock' = NoThread
  /\ Goto(t, "query")
  /\ \/ held[t] \notin broken /\ UNCHANGED <<held, broken>>
     \/ held[t] \in broken /\ up /\ broken' = broken \ {held[t]} /\ UNCHANGED held
     \/ held[t] \in broken /\ ~up /\ held' = [held EXCEPT ![t] = NoConn] /\ UNCHANGED broken
  /\ UNCHANGED <<coroVars, tasks, job, tried, pool, up, breaks, outages>>

\* acquire(): mysql_ping; a dead connection is closed and replaced by a new one,
\* or by nullptr, with which AsyncMySQLQuery fails the query and
\* init_mysql_tables returns.
Ping(t) ==
  /\ tpc[t] = "ping"
  /\ lock' = NoThread
  /\ \/ /\ held[t] \notin broken
        /\ Goto(t, "query")
        /\ UNCHANGED <<held, broken, result>>
     \/ /\ held[t] \in broken /\ up
        /\ broken' = broken \ {held[t]}
        /\ Goto(t, "query")
        /\ UNCHANGED <<held, result>>
     \/ /\ held[t] \in broken /\ ~up
        /\ held' = [held EXCEPT ![t] = NoConn]
        /\ Answer(t, "error")
        /\ Goto(t, AfterPool(t))
        /\ UNCHANGED broken
  /\ UNCHANGED <<co, asked, scheduled, tasks, job, tried, pool, up, breaks, outages>>

\* mysql_real_query, mysql_store_result: result_ is complete before release().
\* init_mysql_tables goes through its statements whether they fail or not.
Query(t) ==
  /\ tpc[t] = "query"
  /\ \/ held[t] \notin broken /\ Answer(t, "ok")
     \/ Answer(t, "error")
  /\ Goto(t, "release")
  /\ UNCHANGED <<co, asked, scheduled, tasks, job, poolVars, serverVars>>

\* Mutant: release() notifies only when the pool was not empty.
ReleaseQuiet(t) ==
  /\ tpc[t] = "release" /\ lock = NoThread
  /\ pool' = Append(pool, held[t])
  /\ held' = [held EXCEPT ![t] = NoConn]
  /\ IF pool # <<>> /\ \E u \in Client : tpc[u] = "noConn"
     THEN \E u \in Client : /\ tpc[u] = "noConn"
                            /\ tpc' = [tpc EXCEPT ![t] = AfterPool(t), ![u] = "acquire"]
     ELSE Goto(t, AfterPool(t))
  /\ UNCHANGED <<coroVars, tasks, job, tried, lock, serverVars>>

\* release(): push and notify_one under MySQLPool::mutex_.
Release(t) ==
  /\ tpc[t] = "release" /\ lock = NoThread
  /\ pool' = Append(pool, held[t])
  /\ held' = [held EXCEPT ![t] = NoConn]
  /\ IF \E u \in Client : tpc[u] = "noConn"
     THEN \E u \in Client : /\ tpc[u] = "noConn"
                            /\ tpc' = [tpc EXCEPT ![t] = AfterPool(t), ![u] = "acquire"]
     ELSE Goto(t, AfterPool(t))
  /\ UNCHANGED <<coroVars, tasks, job, tried, lock, serverVars>>

\* worker_->schedule(handle_): the Worker may resume the coroutine at once.
Schedule(t) ==
  /\ tpc[t] = "schedule"
  /\ scheduled' = scheduled \cup {job[t]}
  /\ job' = [job EXCEPT ![t] = NoCoro]
  /\ Goto(t, "take")
  /\ UNCHANGED <<co, asked, result, tasks, poolVars, serverVars>>

\* A condition variable may wake a thread for no reason.
SpuriousWakeup(t) ==
  /\ \/ tpc[t] = "noTask" /\ Goto(t, "take")
     \/ tpc[t] = "noConn" /\ Goto(t, "acquire")
  /\ UNCHANGED <<coroVars, tasks, job, poolVars, serverVars>>

-----------------------------------------------------------------------------
(* The server. *)

Break(x) ==
  /\ breaks < MaxBreak /\ x \in tried \ broken
  /\ breaks' = breaks + 1
  /\ broken' = broken \cup {x}
  /\ UNCHANGED <<coroVars, tasks, tpc, job, poolVars, up, outages>>

ServerDown ==
  /\ up /\ outages < MaxOutage
  /\ up' = FALSE
  /\ outages' = outages + 1
  /\ broken' = tried
  /\ UNCHANGED <<coroVars, tasks, tpc, job, poolVars, breaks>>

ServerUp ==
  /\ ~up
  /\ up' = TRUE
  /\ UNCHANGED <<coroVars, tasks, tpc, job, poolVars, broken, breaks, outages>>

-----------------------------------------------------------------------------
MainStep ==
  \/ \E x \in Conn : Connect(x)
  \/ InitTables \/ Acquire(Main) \/ Ping(Main) \/ Query(Main) \/ Release(Main)
  \/ StartThreads \/ CreateServer

CoroStep(c) == Submit(c) \/ SubmitReturn(c) \/ Resume(c)

ThreadStep(t) ==
  TakeTask(t) \/ Acquire(t) \/ Ping(t) \/ Query(t) \/ Release(t) \/ Schedule(t)

Next ==
  \/ \E c \in Coro : CoroStep(c)
  \/ MainStep
  \/ \E t \in Thread : ThreadStep(t)
  \/ \E t \in Client : SpuriousWakeup(t)
  \/ \E x \in Conn : Break(x)
  \/ ServerDown \/ ServerUp

Spec == Init /\ [][Next]_vars

\* Threads and Workers keep running, a query ends, an outage ends.  A coroutine
\* need not ask again.
Fairness ==
  /\ \A c \in Coro : WF_vars(SubmitReturn(c)) /\ WF_vars(Resume(c))
  /\ WF_vars(MainStep)
  /\ \A t \in Thread : WF_vars(ThreadStep(t))
  /\ WF_vars(ServerUp)

FairSpec == Spec /\ Fairness

-----------------------------------------------------------------------------
(* Properties. *)

\* The connections that could not be made at the start, or that a failed
\* reconnect has taken out of the pool: they are gone for good.
Lost == {x \in tried : /\ \A i \in DOMAIN pool : pool[i] # x
                       /\ \A t \in Client : held[t] # x}

\* No connection is in the queue twice, in the queue and in use, or in use by two
\* threads: no two queries run over one MYSQL handle (acquire, release).
ConnOnce ==
  /\ \A i, j \in DOMAIN pool : pool[i] = pool[j] => i = j
  /\ \A t \in Client : held[t] # NoConn =>
       /\ \A i \in DOMAIN pool : pool[i] # held[t]
       /\ \A u \in Client : held[u] = held[t] => u = t

\* While a thread sleeps in acquire(), every idle connection has a thread that is
\* awake and about to take it: notify_one loses no connection and no thread
\* sleeps beside a connection nobody else comes for.
NoLostConnWakeup ==
  (\E t \in Client : tpc[t] = "noConn") =>
    Len(pool) <= Cardinality({t \in Client : tpc[t] = "acquire"})

\* While a thread sleeps for a task, every task has a thread that is awake or a
\* submit() that has still to notify: the notify_one after the unlock is enough.
NoLostTaskWakeup ==
  (\E t \in Thread : tpc[t] = "noTask") =>
    Len(tasks) <= Cardinality({t \in Thread : tpc[t] = "take"})
                  + Cardinality({c \in Coro : co[c] = "notify"})

\* A coroutine is scheduled when its result_ is complete and its task no longer
\* touches the AsyncMySQLQuery, which lives in the frame the Worker will resume.
ResultFirst ==
  \A c \in scheduled : /\ co[c] # "run"
                       /\ result[c] # "none"
                       /\ \A t \in Thread : job[t] # c
                       /\ \A i \in DOMAIN tasks : tasks[i] # c

\* Every co_await ends, with a result or an error, as long as some connection is
\* left in the pool.
AnsweredUnlessDrained ==
  \A c \in Coro : co[c] # "run" ~> (co[c] = "run" \/ Lost = Conn)

\* The server starts to listen, or says that it cannot: init_mysql_tables, which
\* has the thread of main() wait for a connection (main.cpp:104), comes back as
\* long as some connection was made, also when MySQL goes away meanwhile.
Listens == <>(tpc[Main] \in {"listen", "exit"} \/ Lost = Conn)

\* async_mysql.h:5: a coroutine for which there is no connection is suspended and
\* resumes by itself.  Every co_await ends.
Answered == \A c \in Coro : co[c] # "run" ~> co[c] = "run"
=============================================================================
