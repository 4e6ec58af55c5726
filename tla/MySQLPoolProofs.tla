--------------------------- MODULE MySQLPoolProofs ---------------------------
(* Theorems about MySQLPool, for every number of coroutines, threads and      *)
(* connections.                                                              *)
EXTENDS MySQLPool, FiniteSetTheorems, TLAPS

-----------------------------------------------------------------------------
(* Invariants. *)

StartUp == {"connect", "acquire", "noConn", "ping", "query", "release", "start"}
InPool == {"acquire", "noConn", "ping", "query", "release"}
WithConn == {"ping", "query", "release"}
WithTask == InPool \cup {"schedule"}

\* The thread of main() runs no tasks, and no thread is there before it has come
\* through the tables.
MainFirst ==
  /\ tpc[Main] \in StartUp \cup {"bind", "listen", "exit"}
  /\ tpc[Main] \in StartUp => \A t \in Thread : tpc[t] = "unborn"

\* A connection is held between acquire() and release(); what is in the pool or
\* held has been opened.
ConnHeld ==
  /\ \A t \in Client : held[t] # NoConn <=> tpc[t] \in WithConn
  /\ \A t \in Client : held[t] # NoConn => held[t] \in tried
  /\ \A i \in DOMAIN pool : pool[i] \in tried

\* A thread has a task from pop() to schedule().
TaskHeld ==
  /\ job[Main] = NoCoro
  /\ \A t \in Thread : job[t] # NoCoro <=> tpc[t] \in WithTask

\* What runs has no task; what waits has one, queued, running or done.
OneTask ==
  /\ \A c \in scheduled : co[c] # "run"
  /\ \A i \in DOMAIN tasks : co[tasks[i]] # "run" /\ tasks[i] \notin scheduled
  /\ \A t \in Thread : job[t] # NoCoro => co[job[t]] # "run" /\ job[t] \notin scheduled
  /\ \A i, j \in DOMAIN tasks : tasks[i] = tasks[j] => i = j
  /\ \A t \in Thread, i \in DOMAIN tasks : job[t] # tasks[i]
  /\ \A t, u \in Thread : job[t] # NoCoro /\ job[t] = job[u] => t = u

\* result_ is written before release(), and before schedule() if there was no
\* connection.
Complete ==
  /\ \A c \in scheduled : result[c] # "none"
  /\ \A t \in Thread : tpc[t] \in {"release", "schedule"} => result[job[t]] # "none"

-----------------------------------------------------------------------------
(* Facts. *)

LEMMA Parties ==
  /\ NoCoro \notin Coro /\ NoConn \notin Conn /\ NoThread \notin Client
  /\ Main \notin Thread /\ Main \in Client /\ Thread \subseteq Client
  /\ \A t \in Client : t = Main \/ t \in Thread
BY PoolAssumption DEF PoolAssumption, Client

\* A queue of pool_ or tasks_: push at the back, pop from the front.
LEMMA Push ==
  ASSUME NEW S, NEW q \in Seq(S), NEW x \in S
  PROVE  /\ Append(q, x) \in Seq(S)
         /\ DOMAIN Append(q, x) = 1..(Len(q) + 1) /\ Len(q) \in Nat /\ DOMAIN q = 1..Len(q)
         /\ \A i \in DOMAIN q : Append(q, x)[i] = q[i]
         /\ Append(q, x)[Len(q) + 1] = x
OBVIOUS

LEMMA Pop ==
  ASSUME NEW S, NEW q \in Seq(S), q # <<>>
  PROVE  /\ Tail(q) \in Seq(S)
         /\ Head(q) \in S /\ Head(q) = q[1]
         /\ Len(q) \in Nat \ {0} /\ DOMAIN q = 1..Len(q)
         /\ DOMAIN Tail(q) = 1..(Len(q) - 1)
         /\ \A i \in DOMAIN Tail(q) : Tail(q)[i] = q[i + 1]
OBVIOUS

\* notify_one moves at most one thread.
LEMMA Notified ==
  ASSUME TypeOK, NEW p, NEW q \in {"take", "acquire"}, NotifyOne(p, q)
  PROVE  /\ tpc' \in [Client -> Place]
         /\ \A t \in Client : tpc'[t] = tpc[t] \/ (tpc[t] = p /\ tpc'[t] = q)
BY DEF NotifyOne, Goto, TypeOK, Place

\* release(): the thread goes on, and at most one other wakes.
LEMMA Released ==
  ASSUME TypeOK, NEW t \in Client, Release(t)
  PROVE  /\ tpc[t] = "release" /\ tpc'[t] = AfterPool(t)
         /\ \A u \in Client \ {t} : tpc'[u] = tpc[u] \/ (tpc[u] = "noConn" /\ tpc'[u] = "acquire")
<1>1. tpc[t] = "release" /\ tpc \in [Client -> Place]
  BY DEF Release, TypeOK
<1>2. CASE tpc' = [tpc EXCEPT ![t] = AfterPool(t)]
  BY <1>1, <1>2
<1>3. CASE \E u \in Client : tpc[u] = "noConn" /\ tpc' = [tpc EXCEPT ![t] = AfterPool(t), ![u] = "acquire"]
  <2>1. PICK w \in Client : tpc[w] = "noConn" /\ tpc' = [tpc EXCEPT ![t] = AfterPool(t), ![w] = "acquire"]
    BY <1>3
  <2>2. w # t
    BY <1>1, <2>1
  <2> QED
    BY <1>1, <2>1, <2>2
<1> QED
  BY <1>2, <1>3 DEF Release, Goto

-----------------------------------------------------------------------------
(* Types and the start. *)

LEMMA InitTypes == Init => TypeOK
<1> SUFFICES ASSUME Init PROVE TypeOK
  OBVIOUS
<1> USE Parties
<1>1. tpc \in [Client -> Place] /\ outages \in Nat /\ up \in BOOLEAN
  <2>1. tpc \in [Client -> Place]
    BY DEF Init, Place
  <2>2. outages \in Nat
    BY DEF Init
  <2>3. up \in BOOLEAN
    BY Zenon DEF Init
  <2> QED
    BY <2>1, <2>2, <2>3
<1>2. pool \in Seq(Conn) /\ tasks \in Seq(Coro)
  BY DEF Init
<1> QED
  BY <1>1, <1>2 DEF Init, TypeOK

\* Where a connection is in flight, it is a connection.
Typed == TypeOK /\ MainFirst /\ ConnHeld

LEMMA TypesStep == Typed /\ TaskHeld /\ [Next]_vars => TypeOK'
<1> SUFFICES ASSUME TypeOK, MainFirst, ConnHeld, TaskHeld, [Next]_vars PROVE TypeOK'
  BY DEF Typed
<1> USE Parties
<1>1. ASSUME NEW c \in Coro, Submit(c) PROVE TypeOK'
  BY <1>1, Push DEF TypeOK, Submit, poolVars, serverVars
<1>2. ASSUME NEW c \in Coro, SubmitReturn(c) PROVE TypeOK'
  BY <1>2, Notified DEF TypeOK, SubmitReturn, poolVars, serverVars
<1>3. ASSUME NEW c \in Coro, Resume(c) PROVE TypeOK'
  BY <1>3 DEF TypeOK, Resume, poolVars, serverVars
<1>4. ASSUME NEW x \in Conn, Connect(x) PROVE TypeOK'
  BY <1>4, Push DEF TypeOK, Connect, coroVars, serverVars
<1>5. ASSUME InitTables PROVE TypeOK'
  BY <1>5 DEF TypeOK, Place, InitTables, Goto, coroVars, poolVars, serverVars
<1>6. ASSUME StartThreads PROVE TypeOK'
  BY <1>6 DEF TypeOK, Place, StartThreads, coroVars, poolVars, serverVars
<1>7. ASSUME CreateServer PROVE TypeOK'
  BY <1>7 DEF TypeOK, Place, CreateServer, Goto, coroVars, poolVars, serverVars
<1>8. ASSUME NEW t \in Thread, TakeTask(t) PROVE TypeOK'
  <2>1. CASE tasks = <<>>
    BY <1>8, <2>1 DEF TypeOK, Place, TakeTask, Goto, coroVars, poolVars, serverVars
  <2>2. CASE tasks # <<>>
    <3>1. Tail(tasks) \in Seq(Coro) /\ Head(tasks) \in Coro
      BY <2>2, Pop DEF TypeOK
    <3>2. tasks' \in Seq(Coro)
      BY <1>8, <2>2, <3>1 DEF TakeTask
    <3>3. job' \in [Client -> Coro \cup {NoCoro}] /\ tpc' \in [Client -> Place]
      <4>1. PICK c \in Coro : job' = [job EXCEPT ![t] = c]
        BY <1>8, <2>2, <3>1 DEF TakeTask
      <4>2. tpc' = [tpc EXCEPT ![t] = "acquire"]
        BY <1>8, <2>2 DEF TakeTask, Goto
      <4> QED
        BY <4>1, <4>2 DEF TypeOK, Place
    <3>4. UNCHANGED <<coroVars, poolVars, serverVars>>
      BY <1>8 DEF TakeTask
    <3> QED
      BY <3>2, <3>3, <3>4 DEF TypeOK, coroVars, poolVars, serverVars
  <2> QED
    BY <2>1, <2>2
<1>9. ASSUME NEW t \in Client, Acquire(t) PROVE TypeOK'
  <2>1. CASE pool = <<>>
    BY <1>9, <2>1 DEF TypeOK, Place, Acquire, Goto, coroVars, poolVars, serverVars
  <2>2. CASE pool # <<>>
    <3>1. Tail(pool) \in Seq(Conn) /\ Head(pool) \in Conn
      BY <2>2, Pop DEF TypeOK
    <3>2. pool' \in Seq(Conn)
      BY <1>9, <2>2, <3>1 DEF Acquire
    <3>3. held' \in [Client -> Conn \cup {NoConn}] /\ tpc' \in [Client -> Place]
      <4>1. PICK x \in Conn : held' = [held EXCEPT ![t] = x]
        BY <1>9, <2>2, <3>1 DEF Acquire
      <4>2. tpc' = [tpc EXCEPT ![t] = "ping"]
        BY <1>9, <2>2 DEF Acquire, Goto
      <4> QED
        BY <4>1, <4>2 DEF TypeOK, Place
    <3>4. UNCHANGED <<coroVars, tasks, job, tried, serverVars>> /\ lock' = t
      BY <1>9, <2>2 DEF Acquire
    <3> QED
      BY <3>2, <3>3, <3>4 DEF TypeOK, coroVars, serverVars
  <2> QED
    BY <2>1, <2>2
<1>10. ASSUME NEW t \in Client, Ping(t) PROVE TypeOK'
  <2>1. result' \in [Coro -> {"none", "ok", "error"}]
    BY <1>10 DEF TypeOK, Ping, Answer
  <2>2. held' \in [Client -> Conn \cup {NoConn}] /\ broken' \subseteq Conn /\ lock' = NoThread
    BY <1>10 DEF TypeOK, Place, Ping
  <2>3. tpc' = [tpc EXCEPT ![t] = "query"] \/ tpc' = [tpc EXCEPT ![t] = "start"]
          \/ tpc' = [tpc EXCEPT ![t] = "schedule"]
    BY <1>10 DEF Ping, Goto, AfterPool
  <2>4. tpc' \in [Client -> Place]
    BY <2>3 DEF TypeOK, Place
  <2>5. UNCHANGED <<co, asked, scheduled, tasks, job, tried, pool, up, breaks, outages>>
    BY <1>10 DEF Ping
  <2> QED
    BY <2>1, <2>2, <2>4, <2>5 DEF TypeOK
<1>11. ASSUME NEW t \in Client, Query(t) PROVE TypeOK'
  BY <1>11 DEF TypeOK, Place, Query, Goto, Answer, poolVars, serverVars
<1>12. ASSUME NEW t \in Client, Release(t) PROVE TypeOK'
  <2>1. held[t] \in Conn
    BY <1>12 DEF TypeOK, Release, ConnHeld, WithConn
  <2>2. tpc' \in [Client -> Place]
    <3>1. tpc \in [Client -> Place] /\ AfterPool(t) \in Place /\ "acquire" \in Place
      BY DEF TypeOK, Place, AfterPool
    <3>2. \/ tpc' = [tpc EXCEPT ![t] = AfterPool(t)]
          \/ \E u \in Client : tpc' = [tpc EXCEPT ![t] = AfterPool(t), ![u] = "acquire"]
      BY <1>12, Zenon DEF Release, Goto
    <3> QED
      BY <3>1, <3>2
  <2>3. pool' \in Seq(Conn) /\ held' \in [Client -> Conn \cup {NoConn}]
    BY <1>12, <2>1, Push DEF TypeOK, Release
  <2>4. UNCHANGED <<coroVars, tasks, job, tried, lock, serverVars>>
    BY <1>12 DEF Release
  <2> QED
    BY <2>2, <2>3, <2>4 DEF TypeOK, coroVars, serverVars
<1>13. ASSUME NEW t \in Thread, Schedule(t) PROVE TypeOK'
  <2>1. job[t] \in Coro
    BY <1>13 DEF TypeOK, Schedule, TaskHeld, WithTask
  <2> QED
    BY <1>13, <2>1 DEF TypeOK, Place, Schedule, Goto, poolVars, serverVars
<1>14. ASSUME NEW t \in Client, SpuriousWakeup(t) PROVE TypeOK'
  BY <1>14 DEF TypeOK, Place, SpuriousWakeup, Goto, coroVars, poolVars, serverVars
<1>15. ASSUME NEW x \in Conn, Break(x) PROVE TypeOK'
  BY <1>15 DEF TypeOK, Break, coroVars, poolVars
<1>16. ASSUME ServerDown \/ ServerUp PROVE TypeOK'
  <2>1. up' \in BOOLEAN /\ broken' \subseteq Conn /\ outages' \in Nat /\ breaks' \in Nat
    <3>1. CASE ServerDown
      <4>1. outages' \in Nat /\ broken' \subseteq Conn /\ breaks' \in Nat
        BY <3>1 DEF TypeOK, ServerDown
      <4>2. up' \in BOOLEAN
        BY <3>1, Zenon DEF ServerDown
      <4> QED
        BY <4>1, <4>2
    <3>2. CASE ServerUp
      <4>1. outages' \in Nat /\ broken' \subseteq Conn /\ breaks' \in Nat
        BY <3>2 DEF TypeOK, ServerUp
      <4>2. up' \in BOOLEAN
        BY <3>2, Zenon DEF ServerUp
      <4> QED
        BY <4>1, <4>2
    <3> QED
      BY <1>16, <3>1, <3>2
  <2> QED
    BY <1>16, <2>1 DEF TypeOK, ServerDown, ServerUp, coroVars, poolVars
<1>17. CASE UNCHANGED vars
  BY <1>17 DEF TypeOK, vars, coroVars, poolVars, serverVars
<1> QED
  BY <1>1, <1>2, <1>3, <1>4, <1>5, <1>6, <1>7, <1>8, <1>9, <1>10, <1>11, <1>12, <1>13,
     <1>14, <1>15, <1>16, <1>17 DEF Next, CoroStep, MainStep, ThreadStep

-----------------------------------------------------------------------------
(* Where a thread is goes with what it holds. *)

LEMMA MainFirstStep == Typed /\ [Next]_vars => MainFirst'
<1> SUFFICES ASSUME TypeOK, MainFirst, ConnHeld, [Next]_vars PROVE MainFirst'
  BY DEF Typed
<1> USE Parties DEF MainFirst, StartUp
<1>1. ASSUME NEW c \in Coro, Submit(c) PROVE MainFirst'
  BY <1>1 DEF Submit
<1>2. ASSUME NEW c \in Coro, SubmitReturn(c) PROVE MainFirst'
  BY <1>2, Notified DEF SubmitReturn
<1>3. ASSUME NEW c \in Coro, Resume(c) PROVE MainFirst'
  BY <1>3 DEF Resume
<1>4. ASSUME NEW x \in Conn, Connect(x) PROVE MainFirst'
  BY <1>4 DEF Connect
<1>5. ASSUME InitTables PROVE MainFirst'
  BY <1>5 DEF TypeOK, InitTables, Goto
<1>6. ASSUME StartThreads PROVE MainFirst'
  BY <1>6 DEF TypeOK, StartThreads
<1>7. ASSUME CreateServer PROVE MainFirst'
  BY <1>7 DEF TypeOK, CreateServer, Goto
<1>8. ASSUME NEW t \in Thread, TakeTask(t) PROVE MainFirst'
  BY <1>8 DEF TypeOK, TakeTask, Goto
<1>9. ASSUME NEW t \in Client, Acquire(t) PROVE MainFirst'
  BY <1>9 DEF TypeOK, Acquire, Goto
<1>10. ASSUME NEW t \in Client, Ping(t) PROVE MainFirst'
  BY <1>10 DEF TypeOK, Ping, Goto, AfterPool
<1>11. ASSUME NEW t \in Client, Query(t) PROVE MainFirst'
  BY <1>11 DEF TypeOK, Query, Goto
<1>12. ASSUME NEW t \in Client, Release(t) PROVE MainFirst'
  <2>1. /\ tpc[t] = "release" /\ tpc'[t] = AfterPool(t)
        /\ \A u \in Client \ {t} : tpc'[u] = tpc[u] \/ (tpc[u] = "noConn" /\ tpc'[u] = "acquire")
    BY <1>12, Released, Zenon
  <2>2. t = Main => tpc'[t] = "start"
    BY <2>1, Zenon DEF AfterPool
  <2> QED
    BY <2>1, <2>2
<1>13. ASSUME NEW t \in Thread, Schedule(t) PROVE MainFirst'
  BY <1>13 DEF TypeOK, Schedule, Goto
<1>14. ASSUME NEW t \in Client, SpuriousWakeup(t) PROVE MainFirst'
  BY <1>14 DEF TypeOK, SpuriousWakeup, Goto
<1>15. CASE \/ \E x \in Conn : Break(x)
            \/ ServerDown \/ ServerUp \/ UNCHANGED vars
  BY <1>15 DEF Break, ServerDown, ServerUp, vars
<1> QED
  BY <1>1, <1>2, <1>3, <1>4, <1>5, <1>6, <1>7, <1>8, <1>9, <1>10, <1>11, <1>12, <1>13,
     <1>14, <1>15 DEF Next, CoroStep, MainStep, ThreadStep

\* A step of a thread that neither has a connection nor gets one.
LEMMA Bystander ==
  ASSUME TypeOK, ConnHeld, NEW t \in Client, NEW p \in Place \ WithConn,
         tpc[t] \notin WithConn, Goto(t, p), UNCHANGED poolVars
  PROVE  ConnHeld'
BY DEF TypeOK, ConnHeld, Goto, poolVars

LEMMA ConnStep == Typed /\ TypeOK' /\ [Next]_vars => ConnHeld'
<1> SUFFICES ASSUME TypeOK, TypeOK', MainFirst, ConnHeld, [Next]_vars PROVE ConnHeld'
  BY DEF Typed
<1> USE Parties DEF ConnHeld, WithConn
<1>1. ASSUME NEW c \in Coro, Submit(c) PROVE ConnHeld'
  BY <1>1 DEF Submit, poolVars
<1>2. ASSUME NEW c \in Coro, SubmitReturn(c) PROVE ConnHeld'
  BY <1>2, Notified DEF SubmitReturn, poolVars
<1>3. ASSUME NEW c \in Coro, Resume(c) PROVE ConnHeld'
  BY <1>3 DEF Resume, poolVars
<1>4. ASSUME NEW x \in Conn, Connect(x) PROVE ConnHeld'
  <2>1. \A i \in DOMAIN pool' : pool'[i] \in tried'
    BY <1>4, Push DEF TypeOK, Connect
  <2> QED
    BY <1>4, <2>1 DEF Connect
<1>5. ASSUME InitTables PROVE ConnHeld'
  BY <1>5 DEF TypeOK, InitTables, Goto, poolVars
<1>6. ASSUME StartThreads PROVE ConnHeld'
  BY <1>6 DEF TypeOK, StartThreads, poolVars, MainFirst, StartUp
<1>7. ASSUME CreateServer PROVE ConnHeld'
  <2>1. /\ tpc[Main] = "bind" /\ UNCHANGED poolVars
        /\ Goto(Main, "listen") \/ Goto(Main, "exit")
    BY <1>7 DEF CreateServer
  <2> QED
    BY <2>1, Bystander DEF Place
<1>8. ASSUME NEW t \in Thread, TakeTask(t) PROVE ConnHeld'
  <2>1. \E p \in {"noTask", "acquire"} : Goto(t, p)
    BY <1>8 DEF TakeTask
  <2>2. tpc[t] \notin WithConn /\ UNCHANGED poolVars
    BY <1>8 DEF TakeTask
  <2> QED
    BY <2>1, <2>2, Bystander DEF Place
<1>9. ASSUME NEW t \in Client, Acquire(t) PROVE ConnHeld'
  <2>1. CASE pool = <<>>
    <3>1. Goto(t, "noConn") /\ UNCHANGED poolVars /\ tpc[t] \notin WithConn
      BY <1>9, <2>1 DEF Acquire
    <3> QED
      BY <3>1, Bystander DEF Place
  <2>2. CASE pool # <<>>
    <3>1. Head(pool) \in Conn /\ Head(pool) \in tried
      BY <2>2, Pop DEF TypeOK
    <3>2. \A i \in DOMAIN pool' : pool'[i] \in tried'
      <4>1. pool' = Tail(pool) /\ tried' = tried
        BY <1>9, <2>2 DEF Acquire
      <4>2. pool \in Seq(Conn)
        BY DEF TypeOK
      <4> QED
        BY <4>1, <4>2, <2>2, Pop
    <3>3. PICK x \in tried : x # NoConn /\ held' = [held EXCEPT ![t] = x]
      BY <1>9, <2>2, <3>1 DEF Acquire
    <3>4. tpc' = [tpc EXCEPT ![t] = "ping"] /\ tried' = tried
      BY <1>9, <2>2 DEF Acquire, Goto
    <3> QED
      BY <3>2, <3>3, <3>4 DEF TypeOK
  <2> QED
    BY <2>1, <2>2
<1>10. ASSUME NEW t \in Client, Ping(t) PROVE ConnHeld'
  <2>1. CASE Goto(t, "query") /\ UNCHANGED held
    BY <1>10, <2>1 DEF TypeOK, Ping, Goto
  <2>2. CASE Goto(t, AfterPool(t)) /\ held' = [held EXCEPT ![t] = NoConn]
    BY <1>10, <2>2 DEF TypeOK, Ping, Goto, AfterPool
  <2> QED
    BY <1>10, <2>1, <2>2 DEF Ping
<1>11. ASSUME NEW t \in Client, Query(t) PROVE ConnHeld'
  BY <1>11 DEF TypeOK, Query, Goto, poolVars
<1>12. ASSUME NEW t \in Client, Release(t) PROVE ConnHeld'
  <2>1. held[t] \in Conn /\ held[t] \in tried
    BY <1>12 DEF TypeOK, Release
  <2>2. \A i \in DOMAIN pool' : pool'[i] \in tried'
    BY <1>12, <2>1, Push DEF TypeOK, Release
  <2> QED
    BY <1>12, <2>2 DEF TypeOK, Release, Goto, AfterPool
<1>13. ASSUME NEW t \in Thread, Schedule(t) PROVE ConnHeld'
  BY <1>13 DEF TypeOK, Schedule, Goto, poolVars
<1>14. ASSUME NEW t \in Client, SpuriousWakeup(t) PROVE ConnHeld'
  <2>1. \E p \in {"take", "acquire"} : Goto(t, p)
    BY <1>14 DEF SpuriousWakeup
  <2>2. tpc[t] \notin WithConn /\ UNCHANGED poolVars
    BY <1>14 DEF SpuriousWakeup
  <2> QED
    BY <2>1, <2>2, Bystander DEF Place
<1>15. CASE \/ \E x \in Conn : Break(x)
            \/ ServerDown \/ ServerUp \/ UNCHANGED vars
  BY <1>15 DEF Break, ServerDown, ServerUp, vars, poolVars
<1> QED
  BY <1>1, <1>2, <1>3, <1>4, <1>5, <1>6, <1>7, <1>8, <1>9, <1>10, <1>11, <1>12, <1>13,
     <1>14, <1>15 DEF Next, CoroStep, MainStep, ThreadStep

\* The queue and the threads share no connection.
LEMMA OnceStep == Typed /\ ConnOnce /\ [Next]_vars => ConnOnce'
<1> SUFFICES ASSUME TypeOK, MainFirst, ConnHeld, ConnOnce, [Next]_vars PROVE ConnOnce'
  BY DEF Typed
<1> USE Parties
<1>0. ASSUME UNCHANGED <<pool, held>> PROVE ConnOnce'
  BY <1>0 DEF ConnOnce
<1>1. ASSUME NEW x \in Conn, Connect(x) PROVE ConnOnce'
  <2>1. CASE pool' = Append(pool, x)
    <3>1. /\ \A i \in DOMAIN pool : pool[i] # x
          /\ \A t \in Client : held[t] # x
      BY <1>1 DEF Connect, ConnHeld
    <3>2. held' = held /\ pool \in Seq(Conn)
      BY <1>1 DEF Connect, TypeOK
    <3> QED
      BY <2>1, <3>1, <3>2, Push DEF ConnOnce
  <2>2. CASE pool' = pool
    BY <1>1, <2>2, <1>0 DEF Connect
  <2> QED
    BY <1>1, <2>1, <2>2 DEF Connect
<1>2. ASSUME NEW t \in Client, Acquire(t) PROVE ConnOnce'
  <2>1. CASE pool = <<>>
    BY <1>2, <2>1, <1>0 DEF Acquire, poolVars
  <2>2. CASE pool # <<>>
    <3>1. pool' = Tail(pool) /\ held' = [held EXCEPT ![t] = Head(pool)] /\ pool \in Seq(Conn)
      BY <1>2, <2>2 DEF Acquire, TypeOK
    <3>2. held \in [Client -> Conn \cup {NoConn}] /\ held[t] = NoConn
      BY <1>2 DEF Acquire, TypeOK, ConnHeld, WithConn
    <3>3. /\ \A i \in DOMAIN pool' : pool'[i] # Head(pool)
          /\ \A i, j \in DOMAIN pool' : pool'[i] = pool'[j] => i = j
          /\ \A i \in DOMAIN pool' : \E j \in DOMAIN pool : pool'[i] = pool[j]
          /\ \E j \in DOMAIN pool : Head(pool) = pool[j]
      BY <2>2, <3>1, Pop DEF ConnOnce
    <3>4. /\ held'[t] = Head(pool)
          /\ \A u \in Client \ {t} : held'[u] = held[u] /\ held[u] # Head(pool)
      BY <2>2, <3>1, <3>2, <3>3, Pop DEF ConnOnce
    <3> QED
      BY <3>2, <3>3, <3>4 DEF ConnOnce
  <2> QED
    BY <2>1, <2>2
<1>3. ASSUME NEW t \in Client, Ping(t) PROVE ConnOnce'
  <2>1. pool' = pool /\ (held' = held \/ held' = [held EXCEPT ![t] = NoConn])
    BY <1>3 DEF Ping
  <2> QED
    BY <2>1 DEF ConnOnce, TypeOK
<1>4. ASSUME NEW t \in Client, Release(t) PROVE ConnOnce'
  <2>1. held[t] \in Conn /\ pool \in Seq(Conn) /\ held[t] # NoConn
    BY <1>4 DEF Release, TypeOK, ConnHeld, WithConn
  <2>2. pool' = Append(pool, held[t]) /\ held' = [held EXCEPT ![t] = NoConn]
    BY <1>4 DEF Release
  <2>3. /\ \A i \in DOMAIN pool : pool[i] # held[t]
        /\ \A u \in Client : held[u] = held[t] => u = t
    BY <2>1 DEF ConnOnce
  <2>4. \A i, j \in DOMAIN pool' : pool'[i] = pool'[j] => i = j
    BY <2>1, <2>2, <2>3, Push DEF ConnOnce
  <2>5. ASSUME NEW u \in Client, held'[u] # NoConn
        PROVE  u # t /\ held'[u] = held[u]
    BY <2>2, <2>5 DEF TypeOK
  <2>6. ASSUME NEW u \in Client, held'[u] # NoConn
        PROVE  \A i \in DOMAIN pool' : pool'[i] # held'[u]
    BY <2>1, <2>2, <2>3, <2>5, <2>6, Push DEF ConnOnce
  <2>7. ASSUME NEW u \in Client, NEW v \in Client, held'[u] # NoConn, held'[v] = held'[u]
        PROVE  v = u
    BY <2>5, <2>7 DEF ConnOnce
  <2> QED
    BY <2>4, <2>6, <2>7 DEF ConnOnce
<1>5. CASE \/ \E c \in Coro : CoroStep(c)
           \/ InitTables \/ StartThreads \/ CreateServer
           \/ \E t \in Client : Query(t) \/ SpuriousWakeup(t)
           \/ \E t \in Thread : TakeTask(t) \/ Schedule(t)
           \/ \E x \in Conn : Break(x)
           \/ ServerDown \/ ServerUp \/ UNCHANGED vars
  <2>1. UNCHANGED <<pool, held>>
    BY <1>5 DEF CoroStep, Submit, SubmitReturn, Resume, InitTables, StartThreads, CreateServer,
                Query, SpuriousWakeup, TakeTask, Schedule, Break, ServerDown, ServerUp, vars, poolVars
  <2> QED
    BY <1>0, <2>1
<1> QED
  BY <1>1, <1>2, <1>3, <1>4, <1>5 DEF Next, MainStep, ThreadStep

-----------------------------------------------------------------------------
(* Tasks and results. *)

\* A step of a thread that keeps its task, or that has none and gets none.
LEMMA Keeps ==
  ASSUME TypeOK, TaskHeld, NEW t \in Client, NEW p \in Place, Goto(t, p), UNCHANGED job,
         t = Main \/ (tpc[t] \in WithTask <=> p \in WithTask)
  PROVE  TaskHeld'
BY Parties DEF TypeOK, TaskHeld, Goto

LEMMA TaskStep == Typed /\ TypeOK' /\ TaskHeld /\ [Next]_vars => TaskHeld'
<1> SUFFICES ASSUME TypeOK, TypeOK', MainFirst, TaskHeld, [Next]_vars PROVE TaskHeld'
  BY DEF Typed
<1> USE Parties DEF WithTask, InPool
<1>1. ASSUME NEW c \in Coro, SubmitReturn(c) PROVE TaskHeld'
  <2>1. job' = job /\ \A t \in Client : tpc'[t] = tpc[t] \/ (tpc[t] = "noTask" /\ tpc'[t] = "take")
    BY <1>1, Notified DEF SubmitReturn
  <2> QED
    BY <2>1 DEF TaskHeld
<1>2. ASSUME StartThreads PROVE TaskHeld'
  BY <1>2 DEF TypeOK, StartThreads, TaskHeld, MainFirst, StartUp
<1>3. ASSUME InitTables \/ CreateServer PROVE TaskHeld'
  <2>1. \E p \in {"acquire", "listen", "exit"} : Goto(Main, p)
    BY <1>3 DEF InitTables, CreateServer
  <2> QED
    BY <1>3, <2>1, Keeps DEF InitTables, CreateServer, Place
<1>4. ASSUME NEW t \in Thread, TakeTask(t) PROVE TaskHeld'
  <2>1. CASE tasks = <<>>
    <3>1. Goto(t, "noTask") /\ UNCHANGED job /\ tpc[t] = "take"
      BY <1>4, <2>1 DEF TakeTask
    <3> QED
      BY <3>1, Keeps DEF Place
  <2>2. CASE tasks # <<>>
    <3>1. tasks \in Seq(Coro)
      BY DEF TypeOK
    <3>2. PICK c \in Coro : job' = [job EXCEPT ![t] = c]
      BY <1>4, <2>2, <3>1, Pop DEF TakeTask
    <3>3. tpc' = [tpc EXCEPT ![t] = "acquire"]
      BY <1>4, <2>2 DEF TakeTask, Goto
    <3> QED
      BY <3>2, <3>3 DEF TaskHeld, TypeOK
  <2> QED
    BY <2>1, <2>2
<1>5. ASSUME NEW t \in Client, Acquire(t) PROVE TaskHeld'
  <2>1. tpc[t] = "acquire" /\ UNCHANGED job /\ (Goto(t, "noConn") \/ Goto(t, "ping"))
    BY <1>5 DEF Acquire
  <2> QED
    BY <2>1, Keeps DEF Place
<1>6. ASSUME NEW t \in Client, Ping(t) PROVE TaskHeld'
  <2>1. tpc[t] = "ping" /\ UNCHANGED job /\ (Goto(t, "query") \/ Goto(t, AfterPool(t)))
    BY <1>6 DEF Ping
  <2>2. AfterPool(t) \in {"start", "schedule"} /\ (t # Main => AfterPool(t) = "schedule")
    BY DEF AfterPool
  <2> QED
    BY <2>1, <2>2, Keeps DEF Place
<1>7. ASSUME NEW t \in Client, Query(t) PROVE TaskHeld'
  <2>1. tpc[t] = "query" /\ UNCHANGED job /\ Goto(t, "release")
    BY <1>7 DEF Query
  <2> QED
    BY <2>1, Keeps DEF Place
<1>8. ASSUME NEW t \in Client, Release(t) PROVE TaskHeld'
  <2>1. job' = job
    BY <1>8 DEF Release
  <2>2. /\ tpc[t] = "release" /\ tpc'[t] = AfterPool(t)
        /\ \A u \in Client \ {t} : tpc'[u] = tpc[u] \/ (tpc[u] = "noConn" /\ tpc'[u] = "acquire")
    BY <1>8, Released, Zenon
  <2>3. t # Main => tpc'[t] = "schedule"
    BY <2>2, Zenon DEF AfterPool
  <2>4. ASSUME NEW u \in Thread PROVE job'[u] # NoCoro <=> tpc'[u] \in WithTask
    <3>1. CASE u = t
      BY <2>1, <2>2, <2>3, <3>1 DEF TaskHeld
    <3>2. CASE u # t
      BY <2>1, <2>2, <3>2 DEF TaskHeld
    <3> QED
      BY <3>1, <3>2
  <2> QED
    BY <2>1, <2>4 DEF TaskHeld
<1>9. ASSUME NEW t \in Thread, Schedule(t) PROVE TaskHeld'
  BY <1>9 DEF TypeOK, Schedule, Goto, TaskHeld
<1>10. ASSUME NEW t \in Client, SpuriousWakeup(t) PROVE TaskHeld'
  <2>1. /\ UNCHANGED job
        /\ \/ tpc[t] = "noTask" /\ Goto(t, "take")
           \/ tpc[t] = "noConn" /\ Goto(t, "acquire")
    BY <1>10 DEF SpuriousWakeup
  <2> QED
    BY <2>1, Keeps DEF Place
<1>11. CASE \/ \E c \in Coro : Submit(c) \/ Resume(c)
            \/ \E x \in Conn : Connect(x) \/ Break(x)
            \/ ServerDown \/ ServerUp \/ UNCHANGED vars
  <2>1. UNCHANGED <<tpc, job>>
    BY <1>11 DEF Submit, Resume, Connect, Break, ServerDown, ServerUp, vars
  <2> QED
    BY <2>1 DEF TaskHeld
<1> QED
  BY <1>1, <1>2, <1>3, <1>4, <1>5, <1>6, <1>7, <1>8, <1>9, <1>10, <1>11
  DEF Next, CoroStep, MainStep, ThreadStep

LEMMA OneStep == TypeOK /\ TaskHeld /\ OneTask /\ [Next]_vars => OneTask'
<1> SUFFICES ASSUME TypeOK, TaskHeld, OneTask, [Next]_vars PROVE OneTask'
  OBVIOUS
<1> USE Parties
<1>0. ASSUME UNCHANGED <<co, tasks, scheduled, job>> PROVE OneTask'
  BY <1>0 DEF OneTask
<1>1. ASSUME NEW c \in Coro, Submit(c) PROVE OneTask'
  <2>1. /\ co[c] = "run" /\ co' = [co EXCEPT ![c] = "notify"] /\ co \in [Coro -> {"run", "notify", "wait"}]
        /\ tasks' = Append(tasks, c) /\ tasks \in Seq(Coro)
        /\ scheduled' = scheduled /\ scheduled \subseteq Coro
        /\ job' = job /\ \A t \in Thread : job[t] \in Coro \cup {NoCoro}
    BY <1>1 DEF Submit, TypeOK
  <2>2. /\ c \notin scheduled
        /\ \A i \in DOMAIN tasks : tasks[i] # c
        /\ \A t \in Thread : job[t] # c
    BY <2>1 DEF OneTask
  <2>3. \A d \in Coro : co[d] # "run" => co'[d] # "run"
    BY <2>1
  <2>4. /\ \A i \in DOMAIN tasks' : co'[tasks'[i]] # "run" /\ tasks'[i] \notin scheduled'
        /\ \A i, j \in DOMAIN tasks' : tasks'[i] = tasks'[j] => i = j
        /\ \A t \in Thread, i \in DOMAIN tasks' : job'[t] # tasks'[i]
    BY <2>1, <2>2, <2>3, Push DEF OneTask
  <2> QED
    BY <2>1, <2>3, <2>4 DEF OneTask
<1>2. ASSUME NEW c \in Coro, SubmitReturn(c) PROVE OneTask'
  <2>1. /\ co' = [co EXCEPT ![c] = "wait"] /\ co \in [Coro -> {"run", "notify", "wait"}]
        /\ UNCHANGED <<tasks, scheduled, job>>
    BY <1>2 DEF SubmitReturn, TypeOK
  <2>2. \A d \in Coro : co[d] # "run" => co'[d] # "run"
    BY <2>1
  <2>3. scheduled \subseteq Coro /\ tasks \in Seq(Coro) /\ \A t \in Thread : job[t] \in Coro \cup {NoCoro}
    BY DEF TypeOK
  <2> QED
    BY <2>1, <2>2, <2>3 DEF OneTask
<1>3. ASSUME NEW c \in Coro, Resume(c) PROVE OneTask'
  <2>1. /\ c \in scheduled /\ scheduled' = scheduled \ {c}
        /\ co' = [co EXCEPT ![c] = "run"] /\ co \in [Coro -> {"run", "notify", "wait"}]
        /\ UNCHANGED <<tasks, job>>
        /\ scheduled \subseteq Coro /\ tasks \in Seq(Coro)
        /\ \A t \in Thread : job[t] \in Coro \cup {NoCoro}
    BY <1>3 DEF Resume, TypeOK
  <2>2. /\ \A i \in DOMAIN tasks : tasks[i] # c
        /\ \A t \in Thread : job[t] # c
    BY <2>1 DEF OneTask
  <2>3. \A d \in Coro \ {c} : co'[d] = co[d]
    BY <2>1
  <2> QED
    BY <2>1, <2>2, <2>3 DEF OneTask
<1>4. ASSUME NEW t \in Thread, TakeTask(t) PROVE OneTask'
  <2>1. CASE tasks = <<>>
    BY <1>4, <2>1, <1>0 DEF TakeTask, coroVars
  <2>2. CASE tasks # <<>>
    <3> DEFINE c == Head(tasks)
    <3>1. /\ tasks \in Seq(Coro) /\ tasks' = Tail(tasks)
          /\ job' = [job EXCEPT ![t] = c] /\ job \in [Client -> Coro \cup {NoCoro}]
          /\ UNCHANGED <<co, scheduled>>
      BY <1>4, <2>2 DEF TakeTask, TypeOK, coroVars
    <3>2. c \in Coro /\ \E i \in DOMAIN tasks : tasks[i] = c
      BY <2>2, <3>1, Pop
    <3>3. /\ co[c] # "run" /\ c \notin scheduled
          /\ \A u \in Thread : job[u] # c
      BY <3>2 DEF OneTask
    <3>4. /\ \A i \in DOMAIN tasks' : \E j \in DOMAIN tasks : tasks'[i] = tasks[j]
          /\ \A i, j \in DOMAIN tasks' : tasks'[i] = tasks'[j] => i = j
          /\ \A i \in DOMAIN tasks' : tasks'[i] # c
      BY <2>2, <3>1, Pop DEF OneTask
    <3>5. job'[t] = c /\ \A u \in Thread \ {t} : job'[u] = job[u]
      BY <3>1
    <3> HIDE DEF c
    <3>6. /\ \A u \in Thread : job'[u] # NoCoro => co'[job'[u]] # "run" /\ job'[u] \notin scheduled'
          /\ \A u \in Thread, i \in DOMAIN tasks' : job'[u] # tasks'[i]
          /\ \A u, v \in Thread : job'[u] # NoCoro /\ job'[u] = job'[v] => u = v
      BY <3>1, <3>3, <3>4, <3>5 DEF OneTask
    <3> QED
      BY <3>1, <3>4, <3>6 DEF OneTask
  <2> QED
    BY <2>1, <2>2
<1>5. ASSUME NEW t \in Thread, Schedule(t) PROVE OneTask'
  <2>1. /\ scheduled' = scheduled \cup {job[t]}
        /\ job' = [job EXCEPT ![t] = NoCoro] /\ job \in [Client -> Coro \cup {NoCoro}]
        /\ UNCHANGED <<co, tasks>>
        /\ tasks \in Seq(Coro) /\ job[t] # NoCoro
    BY <1>5 DEF Schedule, TypeOK, TaskHeld, WithTask
  <2>2. job'[t] = NoCoro /\ \A u \in Thread \ {t} : job'[u] = job[u]
    BY <2>1
  <2>3. /\ co[job[t]] # "run"
        /\ \A i \in DOMAIN tasks : tasks[i] # job[t]
        /\ \A u \in Thread \ {t} : job[u] # job[t]
    BY <2>1 DEF OneTask
  <2>4. /\ \A u \in Thread : job'[u] # NoCoro => co'[job'[u]] # "run" /\ job'[u] \notin scheduled'
        /\ \A u \in Thread, i \in DOMAIN tasks' : job'[u] # tasks'[i]
        /\ \A u, v \in Thread : job'[u] # NoCoro /\ job'[u] = job'[v] => u = v
    <3>1. tasks' = tasks /\ \A i \in DOMAIN tasks : tasks[i] \in Coro
      BY <2>1
    <3> QED
      BY <2>1, <2>2, <2>3, <3>1 DEF OneTask
  <2> QED
    BY <2>1, <2>3, <2>4 DEF OneTask
<1>6. CASE \/ InitTables \/ StartThreads \/ CreateServer \/ ServerDown \/ ServerUp \/ UNCHANGED vars
           \/ \E x \in Conn : Connect(x) \/ Break(x)
           \/ \E t \in Client : Acquire(t) \/ Ping(t) \/ Query(t) \/ Release(t) \/ SpuriousWakeup(t)
  <2>1. UNCHANGED <<co, tasks, scheduled, job>>
    BY <1>6 DEF InitTables, StartThreads, CreateServer, ServerDown, ServerUp, vars, Connect, Break,
                Acquire, Ping, Query, Release, SpuriousWakeup, coroVars
  <2> QED
    BY <1>0, <2>1
<1> QED
  BY <1>1, <1>2, <1>3, <1>4, <1>5, <1>6 DEF Next, CoroStep, MainStep, ThreadStep

\* A result that is there stays, until its coroutine asks again.
LEMMA ResultStays ==
  ASSUME TypeOK, NEW t \in Client, NEW r \in {"ok", "error"}, Answer(t, r)
  PROVE  /\ \A c \in Coro : result[c] # "none" => result'[c] # "none"
         /\ job[t] \in Coro => result'[job[t]] # "none"
BY DEF TypeOK, Answer

LEMMA CompleteStep == Typed /\ TaskHeld /\ OneTask /\ Complete /\ [Next]_vars => Complete'
<1> SUFFICES ASSUME TypeOK, MainFirst, TaskHeld, OneTask, Complete, [Next]_vars PROVE Complete'
  BY DEF Typed
<1> USE Parties
<1> DEFINE Ends == {"release", "schedule"}
<1>0. /\ scheduled \subseteq Coro
      /\ \A t \in Thread : tpc[t] \in Ends => job[t] \in Coro
  BY DEF TypeOK, TaskHeld, WithTask, InPool
\* Nothing that counts is answered anew, and nobody comes to an end.
<1>1. ASSUME UNCHANGED <<scheduled, job>>,
             \A c \in Coro : result[c] # "none" => result'[c] # "none",
             \A t \in Thread : tpc'[t] \in Ends => tpc[t] \in Ends
      PROVE  Complete'
  BY <1>0, <1>1 DEF Complete
<1>2. ASSUME NEW c \in Coro, Submit(c) PROVE Complete'
  <2>1. /\ UNCHANGED <<scheduled, job, tpc>> /\ result' = [result EXCEPT ![c] = "none"]
        /\ co[c] = "run"
    BY <1>2 DEF Submit
  <2>2. c \notin scheduled /\ \A t \in Thread : job[t] # c
    BY <2>1 DEF OneTask
  <2>3. \A d \in Coro \ {c} : result'[d] = result[d]
    BY <2>1 DEF TypeOK
  <2> QED
    BY <1>0, <2>1, <2>2, <2>3 DEF Complete
<1>3. ASSUME NEW c \in Coro, SubmitReturn(c) PROVE Complete'
  <2>1. /\ UNCHANGED <<scheduled, job, result>>
        /\ \A t \in Client : tpc'[t] = tpc[t] \/ (tpc[t] = "noTask" /\ tpc'[t] = "take")
    BY <1>3, Notified DEF SubmitReturn
  <2> QED
    BY <1>1, <2>1
<1>4. ASSUME NEW c \in Coro, Resume(c) PROVE Complete'
  BY <1>4 DEF Resume, Complete
<1>5. ASSUME StartThreads PROVE Complete'
  <2>1. UNCHANGED <<scheduled, job, result>> /\ \A t \in Thread : tpc'[t] = "take"
    BY <1>5 DEF StartThreads, coroVars
  <2> QED
    BY <1>1, <2>1
<1>6. ASSUME InitTables \/ CreateServer PROVE Complete'
  <2>1. UNCHANGED <<scheduled, job, result>> /\ \A t \in Thread : tpc'[t] = tpc[t]
    BY <1>6 DEF InitTables, CreateServer, Goto, coroVars, TypeOK
  <2> QED
    BY <1>1, <2>1
<1>7. ASSUME NEW t \in Thread, TakeTask(t) PROVE Complete'
  <2>1. /\ UNCHANGED <<scheduled, result>>
        /\ tpc'[t] \notin Ends /\ \A u \in Thread \ {t} : tpc'[u] = tpc[u] /\ job'[u] = job[u]
    BY <1>7 DEF TakeTask, Goto, coroVars, TypeOK
  <2> QED
    BY <2>1 DEF Complete
<1>8. ASSUME NEW t \in Client, Acquire(t) PROVE Complete'
  <2>1. /\ UNCHANGED <<scheduled, result, job>>
        /\ tpc'[t] \notin Ends /\ \A u \in Thread \ {t} : tpc'[u] = tpc[u]
    BY <1>8 DEF Acquire, Goto, coroVars, TypeOK
  <2> QED
    BY <1>1, <2>1
<1>9. ASSUME NEW t \in Client, Ping(t) PROVE Complete'
  <2>1. UNCHANGED <<scheduled, job>> /\ tpc[t] = "ping" /\ \A u \in Client \ {t} : tpc'[u] = tpc[u]
    BY <1>9 DEF Ping, Goto, TypeOK
  <2>2. CASE result' = result /\ tpc'[t] = "query"
    BY <1>1, <2>1, <2>2
  <2>3. CASE Answer(t, "error")
    <3>1. \A c \in Coro : result[c] # "none" => result'[c] # "none"
      BY <2>3, ResultStays
    <3>2. t \in Thread => job[t] \in Coro /\ result'[job[t]] # "none"
      BY <2>1, <2>3, ResultStays DEF TypeOK, TaskHeld, WithTask, InPool
    <3> QED
      BY <1>0, <2>1, <3>1, <3>2 DEF Complete
  <2>4. (result' = result /\ tpc'[t] = "query") \/ Answer(t, "error")
    BY <1>9 DEF Ping, Goto, TypeOK
  <2> QED
    BY <2>2, <2>3, <2>4
<1>10. ASSUME NEW t \in Client, Query(t) PROVE Complete'
  <2>1. UNCHANGED <<scheduled, job>> /\ tpc[t] = "query" /\ \A u \in Client \ {t} : tpc'[u] = tpc[u]
    BY <1>10 DEF Query, Goto, TypeOK
  <2>2. PICK r \in {"ok", "error"} : Answer(t, r)
    BY <1>10 DEF Query
  <2>3. \A c \in Coro : result[c] # "none" => result'[c] # "none"
    BY <2>2, ResultStays
  <2>4. t \in Thread => job[t] \in Coro /\ result'[job[t]] # "none"
    BY <2>1, <2>2, ResultStays DEF TypeOK, TaskHeld, WithTask, InPool
  <2> QED
    BY <1>0, <2>1, <2>3, <2>4 DEF Complete
<1>11. ASSUME NEW t \in Client, Release(t) PROVE Complete'
  <2>1. UNCHANGED <<scheduled, job, result>>
    BY <1>11 DEF Release, coroVars
  <2>2. \A u \in Thread : tpc'[u] \in Ends => tpc[u] \in Ends
    BY <1>11, Released
  <2> QED
    BY <1>1, <2>1, <2>2
<1>12. ASSUME NEW t \in Thread, Schedule(t) PROVE Complete'
  <2>1. /\ tpc[t] = "schedule" /\ scheduled' = scheduled \cup {job[t]} /\ result' = result
        /\ tpc'[t] = "take" /\ \A u \in Thread \ {t} : tpc'[u] = tpc[u] /\ job'[u] = job[u]
    BY <1>12 DEF Schedule, Goto, TypeOK
  <2> QED
    BY <2>1 DEF Complete
<1>13. ASSUME NEW t \in Client, SpuriousWakeup(t) PROVE Complete'
  <2>1. /\ UNCHANGED <<scheduled, result, job>>
        /\ tpc'[t] \notin Ends /\ \A u \in Thread \ {t} : tpc'[u] = tpc[u]
    BY <1>13 DEF SpuriousWakeup, Goto, coroVars, TypeOK
  <2> QED
    BY <1>1, <2>1
<1>14. CASE \/ \E x \in Conn : Connect(x) \/ Break(x)
            \/ ServerDown \/ ServerUp \/ UNCHANGED vars
  <2>1. UNCHANGED <<scheduled, job, result, tpc>>
    BY <1>14 DEF Connect, Break, ServerDown, ServerUp, vars, coroVars
  <2> QED
    BY <1>1, <2>1
<1> QED
  BY <1>2, <1>3, <1>4, <1>5, <1>6, <1>7, <1>8, <1>9, <1>10, <1>11, <1>12, <1>13, <1>14
  DEF Next, CoroStep, MainStep, ThreadStep

-----------------------------------------------------------------------------
(* Who is awake, counted. *)

\* Threads that are about to take a connection, or a task; submissions that have
\* still to notify.
Comers == {t \in Client : tpc[t] = "acquire"}
Takers == {t \in Thread : tpc[t] = "take"}
Notifiers == {c \in Coro : co[c] = "notify"}

LEMMA Joins ==
  ASSUME NEW S, IsFiniteSet(S), NEW x, x \notin S
  PROVE  IsFiniteSet(S \cup {x}) /\ Cardinality(S \cup {x}) = Cardinality(S) + 1
BY FS_AddElement

LEMMA Parts ==
  ASSUME NEW S, IsFiniteSet(S), NEW x \in S
  PROVE  IsFiniteSet(S \ {x}) /\ Cardinality(S \ {x}) = Cardinality(S) - 1
BY FS_RemoveElement

LEMMA Counts ==
  /\ IsFiniteSet(Comers) /\ IsFiniteSet(Takers) /\ IsFiniteSet(Notifiers)
  /\ Cardinality(Comers) \in Nat /\ Cardinality(Takers) \in Nat /\ Cardinality(Notifiers) \in Nat
<1>1. IsFiniteSet(Coro) /\ IsFiniteSet(Thread)
  BY PoolAssumption
<1>2. IsFiniteSet(Client)
  BY <1>1, FS_AddElement DEF Client
<1>3. Comers \in SUBSET Client /\ Takers \in SUBSET Thread /\ Notifiers \in SUBSET Coro
  BY DEF Comers, Takers, Notifiers
<1>4. IsFiniteSet(Comers)
  BY <1>2, <1>3, FS_Subset
<1>5. IsFiniteSet(Takers)
  BY <1>1, <1>3, FS_Subset
<1>6. IsFiniteSet(Notifiers)
  BY <1>1, <1>3, FS_Subset
<1> QED
  BY <1>4, <1>5, <1>6, FS_CardinalityType

LEMMA CountsNext ==
  /\ IsFiniteSet(Comers') /\ IsFiniteSet(Takers') /\ IsFiniteSet(Notifiers')
  /\ Cardinality(Comers') \in Nat /\ Cardinality(Takers') \in Nat /\ Cardinality(Notifiers') \in Nat
<1>1. IsFiniteSet(Coro) /\ IsFiniteSet(Thread)
  BY PoolAssumption
<1>2. IsFiniteSet(Client)
  BY <1>1, FS_AddElement DEF Client
<1>3. Comers' \in SUBSET Client /\ Takers' \in SUBSET Thread /\ Notifiers' \in SUBSET Coro
  BY DEF Comers, Takers, Notifiers
<1>4. IsFiniteSet(Comers')
  BY <1>2, <1>3, FS_Subset
<1>5. IsFiniteSet(Takers')
  BY <1>1, <1>3, FS_Subset
<1>6. IsFiniteSet(Notifiers')
  BY <1>1, <1>3, FS_Subset
<1> QED
  BY <1>4, <1>5, <1>6, FS_CardinalityType

LEMMA Grows ==
  ASSUME NEW S, NEW T, IsFiniteSet(T), S \subseteq T
  PROVE  Cardinality(S) <= Cardinality(T)
BY FS_Subset

\* A step that takes no connection, gives none back and puts nobody to sleep.
LEMMA ComersKept ==
  ASSUME NoLostConnWakeup, pool' = pool,
         \A t \in Client : /\ tpc'[t] = "noConn" => tpc[t] = "noConn"
                           /\ tpc[t] = "acquire" => tpc'[t] = "acquire"
  PROVE  NoLostConnWakeup'
<1>1. Comers \subseteq Comers'
  BY DEF Comers
<1>2. Cardinality(Comers) <= Cardinality(Comers')
  BY <1>1, CountsNext, Grows
<1> SUFFICES ASSUME \E t \in Client : tpc'[t] = "noConn"
             PROVE  Len(pool') <= Cardinality(Comers')
  BY DEF NoLostConnWakeup, Comers
<1>3. Len(pool) <= Cardinality(Comers)
  BY DEF NoLostConnWakeup, Comers
<1> QED
  BY <1>2, <1>3, Counts, CountsNext

\* A step that takes no task, notifies nobody and puts nobody to sleep.
LEMMA TakersKept ==
  ASSUME NoLostTaskWakeup, tasks' = tasks,
         \A c \in Coro : co[c] = "notify" => co'[c] = "notify",
         \A t \in Thread : /\ tpc'[t] = "noTask" => tpc[t] = "noTask"
                           /\ tpc[t] = "take" => tpc'[t] = "take"
  PROVE  NoLostTaskWakeup'
<1>1. Takers \subseteq Takers' /\ Notifiers \subseteq Notifiers'
  BY DEF Takers, Notifiers
<1>2. Cardinality(Takers) <= Cardinality(Takers')
  BY <1>1, CountsNext, Grows
<1>3. Cardinality(Notifiers) <= Cardinality(Notifiers')
  BY <1>1, CountsNext, Grows
<1> SUFFICES ASSUME \E t \in Thread : tpc'[t] = "noTask"
             PROVE  Len(tasks') <= Cardinality(Takers') + Cardinality(Notifiers')
  BY DEF NoLostTaskWakeup, Takers, Notifiers
<1>4. Len(tasks) <= Cardinality(Takers) + Cardinality(Notifiers)
  BY DEF NoLostTaskWakeup, Takers, Notifiers
<1> QED
  BY <1>2, <1>3, <1>4, Counts, CountsNext

LEMMA ConnWakeStep == TypeOK /\ MainFirst /\ NoLostConnWakeup /\ [Next]_vars => NoLostConnWakeup'
<1> SUFFICES ASSUME TypeOK, MainFirst, NoLostConnWakeup, [Next]_vars PROVE NoLostConnWakeup'
  OBVIOUS
<1> USE Parties
<1>1. ASSUME NEW c \in Coro, Submit(c) \/ Resume(c) PROVE NoLostConnWakeup'
  <2>1. UNCHANGED <<pool, tpc>>
    BY <1>1 DEF Submit, Resume, poolVars
  <2> QED
    BY <2>1, ComersKept
<1>2. ASSUME NEW c \in Coro, SubmitReturn(c) PROVE NoLostConnWakeup'
  <2>1. pool' = pool /\ \A t \in Client : tpc'[t] = tpc[t] \/ (tpc[t] = "noTask" /\ tpc'[t] = "take")
    BY <1>2, Notified DEF SubmitReturn, poolVars
  <2> QED
    BY <2>1, ComersKept
\* While main() makes the connections nobody else is there.
<1>3. ASSUME NEW x \in Conn, Connect(x) PROVE NoLostConnWakeup'
  <2>1. tpc' = tpc /\ \A t \in Client : tpc[t] # "noConn"
    BY <1>3 DEF Connect, MainFirst, StartUp
  <2> QED
    BY <2>1 DEF NoLostConnWakeup
<1>4. ASSUME StartThreads PROVE NoLostConnWakeup'
  <2>1. \A t \in Client : tpc'[t] # "noConn"
    BY <1>4 DEF StartThreads
  <2> QED
    BY <2>1 DEF NoLostConnWakeup
<1>5. ASSUME InitTables \/ CreateServer PROVE NoLostConnWakeup'
  <2>1. /\ pool' = pool /\ tpc[Main] \in {"connect", "bind"} /\ tpc'[Main] # "noConn"
        /\ \A t \in Client \ {Main} : tpc'[t] = tpc[t]
    BY <1>5 DEF InitTables, CreateServer, Goto, poolVars, TypeOK
  <2> QED
    BY <2>1, ComersKept
<1>6. ASSUME NEW t \in Thread, TakeTask(t) \/ Schedule(t) PROVE NoLostConnWakeup'
  <2>1. /\ pool' = pool /\ tpc[t] # "acquire" /\ tpc'[t] # "noConn"
        /\ \A u \in Client \ {t} : tpc'[u] = tpc[u]
    BY <1>6 DEF TakeTask, Schedule, Goto, poolVars, TypeOK
  <2> QED
    BY <2>1, ComersKept
\* A thread sleeps at an empty queue, or takes the connection it came for.
<1>7. ASSUME NEW t \in Client, Acquire(t) PROVE NoLostConnWakeup'
  <2>1. CASE pool = <<>>
    <3>1. Len(pool') = 0
      BY <1>7, <2>1 DEF Acquire, poolVars
    <3>2. 0 <= Cardinality(Comers')
      BY CountsNext
    <3> QED
      BY <3>1, <3>2 DEF NoLostConnWakeup, Comers
  <2>2. CASE pool # <<>>
    <3>1. /\ pool' = Tail(pool) /\ tpc[t] = "acquire" /\ tpc'[t] = "ping"
          /\ \A u \in Client \ {t} : tpc'[u] = tpc[u]
      BY <1>7, <2>2 DEF Acquire, Goto, TypeOK
    <3>2. t \in Comers /\ Comers' = Comers \ {t}
      BY <3>1 DEF Comers
    <3>3. Cardinality(Comers') = Cardinality(Comers) - 1
      BY <3>2, Counts, Parts
    <3>4. Len(pool') = Len(pool) - 1 /\ Len(pool) \in Nat
      BY <2>2, <3>1 DEF TypeOK
    <3>5. (\E u \in Client : tpc'[u] = "noConn") => \E u \in Client : tpc[u] = "noConn"
      BY <3>1
    <3>6. (\E u \in Client : tpc[u] = "noConn") => Len(pool) <= Cardinality(Comers)
      BY DEF NoLostConnWakeup, Comers
    <3>7. (\E u \in Client : tpc'[u] = "noConn") => Len(pool') <= Cardinality(Comers')
      BY <3>3, <3>4, <3>5, <3>6, Counts, CountsNext
    <3> QED
      BY <3>7 DEF NoLostConnWakeup, Comers
  <2> QED
    BY <2>1, <2>2
<1>8. ASSUME NEW t \in Client, Ping(t) \/ Query(t) PROVE NoLostConnWakeup'
  <2>1. pool' = pool /\ tpc[t] # "acquire" /\ \A u \in Client \ {t} : tpc'[u] = tpc[u]
    BY <1>8 DEF Ping, Query, Goto, poolVars, TypeOK
  <2>2. tpc'[t] # "noConn"
    BY <1>8 DEF Ping, Query, Goto, AfterPool, TypeOK
  <2> QED
    BY <2>1, <2>2, ComersKept
\* A connection that comes back wakes somebody, if somebody sleeps.
<1>9. ASSUME NEW t \in Client, Release(t) PROVE NoLostConnWakeup'
  <2>0. AfterPool(t) \in {"start", "schedule"} /\ tpc[t] = "release" /\ tpc \in [Client -> Place]
    BY <1>9 DEF AfterPool, Release, TypeOK
  <2>1. CASE \E u \in Client : tpc[u] = "noConn"
    <3>1. PICK u \in Client : /\ tpc[u] = "noConn"
                              /\ tpc' = [tpc EXCEPT ![t] = AfterPool(t), ![u] = "acquire"]
      BY <1>9, <2>1 DEF Release
    <3>2. u \notin Comers /\ Comers' = Comers \cup {u}
      BY <2>0, <3>1 DEF Comers
    <3>3. Cardinality(Comers') = Cardinality(Comers) + 1
      BY <3>2, Counts, Joins
    <3>4. pool' = Append(pool, held[t]) /\ pool \in Seq(Conn)
      BY <1>9 DEF Release, TypeOK
    <3>5. Len(pool') = Len(pool) + 1 /\ Len(pool) \in Nat
      BY <3>4
    <3>6. Len(pool) <= Cardinality(Comers)
      BY <2>1 DEF NoLostConnWakeup, Comers
    <3>7. Len(pool') <= Cardinality(Comers')
      BY <3>3, <3>5, <3>6, Counts
    <3> QED
      BY <3>7 DEF NoLostConnWakeup, Comers
  <2>2. CASE ~ \E u \in Client : tpc[u] = "noConn"
    <3>1. tpc' = [tpc EXCEPT ![t] = AfterPool(t)]
      BY <1>9, <2>2 DEF Release, Goto
    <3>2. ~ \E u \in Client : tpc'[u] = "noConn"
      BY <2>0, <2>2, <3>1
    <3> QED
      BY <3>2 DEF NoLostConnWakeup
  <2> QED
    BY <2>1, <2>2
<1>10. ASSUME NEW t \in Client, SpuriousWakeup(t) PROVE NoLostConnWakeup'
  <2>1. /\ pool' = pool /\ tpc[t] # "acquire" /\ tpc'[t] # "noConn"
        /\ \A u \in Client \ {t} : tpc'[u] = tpc[u]
    BY <1>10 DEF SpuriousWakeup, Goto, poolVars, TypeOK
  <2> QED
    BY <2>1, ComersKept
<1>11. CASE \/ \E x \in Conn : Break(x)
            \/ ServerDown \/ ServerUp \/ UNCHANGED vars
  <2>1. UNCHANGED <<pool, tpc>>
    BY <1>11 DEF Break, ServerDown, ServerUp, vars, poolVars
  <2> QED
    BY <2>1, ComersKept
<1> QED
  BY <1>1, <1>2, <1>3, <1>4, <1>5, <1>6, <1>7, <1>8, <1>9, <1>10, <1>11
  DEF Next, CoroStep, MainStep, ThreadStep

LEMMA TaskWakeStep == TypeOK /\ MainFirst /\ NoLostTaskWakeup /\ [Next]_vars => NoLostTaskWakeup'
<1> SUFFICES ASSUME TypeOK, MainFirst, NoLostTaskWakeup, [Next]_vars PROVE NoLostTaskWakeup'
  OBVIOUS
<1> USE Parties
<1>0. (\E u \in Thread : tpc[u] = "noTask") => Len(tasks) <= Cardinality(Takers) + Cardinality(Notifiers)
  BY DEF NoLostTaskWakeup, Takers, Notifiers
\* The task comes with a notify_one that is still to be made.
<1>1. ASSUME NEW c \in Coro, Submit(c) PROVE NoLostTaskWakeup'
  <2>1. /\ co[c] = "run" /\ co' = [co EXCEPT ![c] = "notify"] /\ co \in [Coro -> {"run", "notify", "wait"}]
        /\ tpc' = tpc
    BY <1>1 DEF Submit, TypeOK
  <2>2. Notifiers' = Notifiers \cup {c} /\ c \notin Notifiers
    BY <2>1 DEF Notifiers
  <2>3. Takers' = Takers
    BY <2>1 DEF Takers
  <2>4. Cardinality(Notifiers') = Cardinality(Notifiers) + 1
    BY <2>2, Counts, Joins
  <2>5. tasks' = Append(tasks, c) /\ tasks \in Seq(Coro)
    BY <1>1 DEF Submit, TypeOK
  <2>6. Len(tasks') = Len(tasks) + 1 /\ Len(tasks) \in Nat
    BY <2>5
  <2>7. (\E u \in Thread : tpc'[u] = "noTask") => Len(tasks') <= Cardinality(Takers') + Cardinality(Notifiers')
    BY <1>0, <2>1, <2>3, <2>4, <2>6, Counts
  <2> QED
    BY <2>7 DEF NoLostTaskWakeup, Takers, Notifiers
\* The notify_one wakes a thread, if one sleeps.
<1>2. ASSUME NEW c \in Coro, SubmitReturn(c) PROVE NoLostTaskWakeup'
  <2>1. /\ co[c] = "notify" /\ co' = [co EXCEPT ![c] = "wait"] /\ co \in [Coro -> {"run", "notify", "wait"}]
        /\ tasks' = tasks /\ Len(tasks) \in Nat
    BY <1>2 DEF SubmitReturn, TypeOK
  <2>2. Notifiers' = Notifiers \ {c} /\ c \in Notifiers
    BY <2>1 DEF Notifiers
  <2>3. Cardinality(Notifiers') = Cardinality(Notifiers) - 1
    BY <2>2, Counts, Parts
  <2>4. CASE \E u \in Client : tpc[u] = "noTask"
    <3>1. PICK u \in Client : tpc[u] = "noTask" /\ tpc' = [tpc EXCEPT ![u] = "take"]
      BY <1>2, <2>4 DEF SubmitReturn, NotifyOne, Goto
    <3>2. u \in Thread
      BY <3>1 DEF MainFirst, StartUp
    <3>3. Takers' = Takers \cup {u} /\ u \notin Takers
      BY <3>1, <3>2 DEF Takers, TypeOK
    <3>4. Cardinality(Takers') = Cardinality(Takers) + 1
      BY <3>3, Counts, Joins
    <3>5. Len(tasks') <= Cardinality(Takers') + Cardinality(Notifiers')
      BY <1>0, <2>1, <2>3, <3>1, <3>2, <3>4, Counts
    <3> QED
      BY <3>5 DEF NoLostTaskWakeup, Takers, Notifiers
  <2>5. CASE ~ \E u \in Client : tpc[u] = "noTask"
    <3>1. tpc' = tpc
      BY <1>2, <2>5 DEF SubmitReturn, NotifyOne
    <3> QED
      BY <2>5, <3>1 DEF NoLostTaskWakeup
  <2> QED
    BY <2>4, <2>5
<1>3. ASSUME NEW c \in Coro, Resume(c) PROVE NoLostTaskWakeup'
  <2>1. UNCHANGED <<tasks, tpc>> /\ \A d \in Coro : co[d] = "notify" => co'[d] = "notify"
    BY <1>3 DEF Resume, TypeOK
  <2> QED
    BY <2>1, TakersKept
<1>4. ASSUME StartThreads PROVE NoLostTaskWakeup'
  <2>1. \A t \in Thread : tpc'[t] # "noTask"
    BY <1>4 DEF StartThreads
  <2> QED
    BY <2>1 DEF NoLostTaskWakeup
<1>5. ASSUME InitTables \/ CreateServer PROVE NoLostTaskWakeup'
  <2>1. UNCHANGED <<tasks, co>> /\ \A t \in Thread : tpc'[t] = tpc[t]
    BY <1>5 DEF InitTables, CreateServer, Goto, coroVars, TypeOK
  <2> QED
    BY <2>1, TakersKept
\* A thread sleeps when there is no task, or takes one.
<1>6. ASSUME NEW t \in Thread, TakeTask(t) PROVE NoLostTaskWakeup'
  <2>1. CASE tasks = <<>>
    <3>1. Len(tasks') = 0
      BY <1>6, <2>1 DEF TakeTask
    <3>2. 0 <= Cardinality(Takers') + Cardinality(Notifiers')
      BY CountsNext
    <3> QED
      BY <3>1, <3>2 DEF NoLostTaskWakeup, Takers, Notifiers
  <2>2. CASE tasks # <<>>
    <3>1. /\ tasks' = Tail(tasks) /\ tpc[t] = "take" /\ tpc'[t] = "acquire" /\ co' = co
          /\ \A u \in Client \ {t} : tpc'[u] = tpc[u]
      BY <1>6, <2>2 DEF TakeTask, Goto, TypeOK, coroVars
    <3>2. t \in Takers /\ Takers' = Takers \ {t} /\ Notifiers' = Notifiers
      BY <3>1 DEF Takers, Notifiers
    <3>3. Cardinality(Takers') = Cardinality(Takers) - 1
      BY <3>2, Counts, Parts
    <3>4. Len(tasks') = Len(tasks) - 1 /\ Len(tasks) \in Nat
      BY <2>2, <3>1 DEF TypeOK
    <3>5. (\E u \in Thread : tpc'[u] = "noTask") => \E u \in Thread : tpc[u] = "noTask"
      BY <3>1
    <3>6. (\E u \in Thread : tpc'[u] = "noTask") => Len(tasks') <= Cardinality(Takers') + Cardinality(Notifiers')
      BY <1>0, <3>2, <3>3, <3>4, <3>5, Counts
    <3> QED
      BY <3>6 DEF NoLostTaskWakeup, Takers, Notifiers
  <2> QED
    BY <2>1, <2>2
<1>7. ASSUME NEW t \in Client, Acquire(t) \/ Ping(t) \/ Query(t) PROVE NoLostTaskWakeup'
  <2>1. /\ UNCHANGED <<tasks, co>> /\ tpc[t] # "take"
        /\ \A u \in Client \ {t} : tpc'[u] = tpc[u]
    BY <1>7 DEF Acquire, Ping, Query, Goto, coroVars, TypeOK
  <2>2. tpc'[t] # "noTask"
    BY <1>7 DEF Acquire, Ping, Query, Goto, AfterPool, TypeOK
  <2> QED
    BY <2>1, <2>2, TakersKept
<1>8. ASSUME NEW t \in Client, Release(t) PROVE NoLostTaskWakeup'
  <2>1. UNCHANGED <<tasks, co>>
    BY <1>8 DEF Release, coroVars
  <2>2. /\ tpc[t] = "release" /\ tpc'[t] = AfterPool(t)
        /\ \A u \in Client \ {t} : tpc'[u] = tpc[u] \/ (tpc[u] = "noConn" /\ tpc'[u] = "acquire")
    BY <1>8, Released, Zenon
  <2>3. AfterPool(t) # "noTask"
    BY DEF AfterPool
  <2> QED
    BY <2>1, <2>2, <2>3, TakersKept
<1>9. ASSUME NEW t \in Thread, Schedule(t) PROVE NoLostTaskWakeup'
  <2>1. /\ UNCHANGED <<tasks, co>> /\ tpc'[t] = "take"
        /\ \A u \in Client \ {t} : tpc'[u] = tpc[u]
    BY <1>9 DEF Schedule, Goto, TypeOK
  <2> QED
    BY <2>1, TakersKept
<1>10. ASSUME NEW t \in Client, SpuriousWakeup(t) PROVE NoLostTaskWakeup'
  <2>1. /\ UNCHANGED <<tasks, co>> /\ tpc[t] # "take" /\ tpc'[t] # "noTask"
        /\ \A u \in Client \ {t} : tpc'[u] = tpc[u]
    BY <1>10 DEF SpuriousWakeup, Goto, coroVars, TypeOK
  <2> QED
    BY <2>1, TakersKept
<1>11. CASE \/ \E x \in Conn : Connect(x) \/ Break(x)
            \/ ServerDown \/ ServerUp \/ UNCHANGED vars
  <2>1. UNCHANGED <<tasks, co, tpc>>
    BY <1>11 DEF Connect, Break, ServerDown, ServerUp, vars, coroVars
  <2> QED
    BY <2>1, TakersKept
<1> QED
  BY <1>1, <1>2, <1>3, <1>4, <1>5, <1>6, <1>7, <1>8, <1>9, <1>10, <1>11
  DEF Next, CoroStep, MainStep, ThreadStep

-----------------------------------------------------------------------------
(* The theorems. *)

PoolInv == TypeOK /\ MainFirst /\ ConnHeld /\ ConnOnce /\ TaskHeld /\ OneTask /\ Complete

LEMMA PoolInvHolds == Spec => []PoolInv
<1>1. Init => PoolInv
  <2> SUFFICES ASSUME Init PROVE PoolInv
    OBVIOUS
  <2>1. TypeOK
    BY InitTypes
  <2>2. /\ MainFirst /\ ConnHeld /\ ConnOnce
    BY Parties DEF Init, MainFirst, StartUp, ConnHeld, ConnOnce, WithConn
  <2>3. TaskHeld /\ OneTask /\ Complete
    BY Parties DEF Init, TaskHeld, OneTask, Complete, WithTask, InPool
  <2> QED
    BY <2>1, <2>2, <2>3 DEF PoolInv
<1>2. PoolInv /\ [Next]_vars => PoolInv'
  BY TypesStep, MainFirstStep, ConnStep, OnceStep, TaskStep, OneStep, CompleteStep DEF PoolInv, Typed
<1> QED
  BY <1>1, <1>2, PTL DEF Spec

\* Every variable of the pool has its type; what release() gives back is always a
\* connection and what is scheduled always a coroutine (async_mysql.h:114, 222).
THEOREM PoolTypes == Spec => []TypeOK
BY PoolInvHolds, PTL DEF PoolInv

\* However many threads and connections, no connection serves two queries at once
\* and none is in the pool while it is used (async_mysql.h:98-119).
THEOREM ConnectionsExclusive == Spec => []ConnOnce
BY PoolInvHolds, PTL DEF PoolInv

\* A coroutine is scheduled only with its result complete and when nothing of its
\* task is left in the thread pool (async_mysql.h:172-222).
THEOREM ResultComplete == Spec => []ResultFirst
<1>1. PoolInv => ResultFirst
  <2> SUFFICES ASSUME PoolInv, NEW c \in scheduled
               PROVE  /\ co[c] # "run" /\ result[c] # "none"
                      /\ \A t \in Thread : job[t] # c
                      /\ \A i \in DOMAIN tasks : tasks[i] # c
    BY DEF ResultFirst
  <2>1. c \in Coro
    BY DEF PoolInv, TypeOK
  <2> QED
    BY <2>1, Parties DEF PoolInv, OneTask, Complete
<1> QED
  BY <1>1, PoolInvHolds, PTL

\* However many threads sleep in acquire(), every idle connection has one that is
\* awake and comes for it: the notify_one of release() is never lost
\* (async_mysql.h:97, 118).
THEOREM ConnectionsAreFetched == Spec => []NoLostConnWakeup
<1>1. Init => NoLostConnWakeup
  BY Parties DEF Init, NoLostConnWakeup
<1>2. PoolInv /\ NoLostConnWakeup /\ [Next]_vars => NoLostConnWakeup'
  BY ConnWakeStep DEF PoolInv
<1> QED
  BY <1>1, <1>2, PoolInvHolds, PTL DEF Spec

\* However many threads sleep for a task, every queued task has one that is awake
\* or a notify_one to come: submit() may notify after it has let go of the mutex
\* (async_mysql.h:39-58).
THEOREM TasksAreFetched == Spec => []NoLostTaskWakeup
<1>1. Init => NoLostTaskWakeup
  BY Parties DEF Init, NoLostTaskWakeup
<1>2. PoolInv /\ NoLostTaskWakeup /\ [Next]_vars => NoLostTaskWakeup'
  BY TaskWakeStep DEF PoolInv
<1> QED
  BY <1>1, <1>2, PoolInvHolds, PTL DEF Spec
=============================================================================
