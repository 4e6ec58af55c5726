------------------------------ MODULE RedisLink ------------------------------
(***************************************************************************)
(* WorkerRedis and AsyncRedisCommand of async_redis.h: the one connection   *)
(* of a Worker to Redis, which all its coroutines share, and the tokens     *)
(* that Redis keeps.                                                        *)
(*                                                                         *)
(* A command goes from the output buffer of hiredis (out) to the server     *)
(* (net); its reply comes back (back) and is given to the awaiter that has  *)
(* waited longest (waiters, the privdata of the callbacks).                 *)
(***************************************************************************)
EXTENDS Naturals, Sequences, Functions

CONSTANTS
  Conn,      \* coroutines of the Worker that speak to Redis
  Token,     \* the strings of generate_token
  NoToken,   \* no token, or one nobody has been given
  User,
  NoUser     \* no such key, or no name in the reply

ASSUME LinkAssumption == NoToken \notin Token /\ NoUser \notin User

VARIABLES
  link,      \* "up", or "lost": hiredis has freed the context and ctx_ dangles
  out,       \* commands in the output buffer
  net,       \* commands on their way to the server
  back,      \* replies on their way back
  waiters,   \* the callbacks hiredis has still to make, in order
  reading,   \* reading_
  writing,   \* writing_
  watched,   \* the events update_events has registered
  reply,     \* reply[c]: the RedisAwaiter of c
  holder,    \* holder[t]: the value of the key "token:t"
  eternal    \* the tokens that are stored and have no expiry

linkVars == <<link, out, net, back, waiters, reading, writing, watched>>
storeVars == <<holder, eternal>>
redisVars == <<linkVars, reply, storeVars>>

Reply(type, str) == [type |-> type, str |-> str]
Pending == Reply("pending", NoUser)

Command == [name : {"GET", "SET", "EXPIRE", "RPUSH", "LTRIM"}, tok : Token \cup {NoToken},
            user : User \cup {NoUser}]
Replies == [type : {"pending", "string", "nil", "ok", "error", "null"}, str : User \cup {NoUser}]

RedisTypeOK ==
  /\ link \in {"up", "lost"}
  /\ out \in Seq(Command) /\ net \in Seq(Command) /\ back \in Seq(Replies)
  /\ waiters \in Seq(Conn)
  /\ reading \in BOOLEAN /\ writing \in BOOLEAN
  /\ watched \subseteq {"IN", "OUT"}
  /\ reply \in [Conn -> Replies]
  /\ holder \in [Token -> User \cup {NoUser}]
  /\ eternal \subseteq Token

\* The constructor has connected; Redis has what it had (holder).
RedisInit ==
  /\ link = "up"
  /\ out = <<>> /\ net = <<>> /\ back = <<>> /\ waiters = <<>>
  /\ reading = FALSE /\ writing = FALSE /\ watched = {}
  /\ reply = [c \in Conn |-> Pending]
  /\ eternal = {}

\* Mutant: interest in replies takes the place of interest in writing.
UpdateEventsEither ==
  watched' = IF reading' THEN {"IN"} ELSE IF writing' THEN {"OUT"} ELSE {}

\* update_events: both wishes become one registration.
UpdateEvents ==
  watched' = (IF reading' THEN {"IN"} ELSE {}) \cup (IF writing' THEN {"OUT"} ELSE {})

\* AsyncRedisCommand::await_suspend.  On a lost link ctx_ is a dangling pointer:
\* redisAsyncCommand may refuse, and the coroutine is scheduled with an error, or
\* may take the command for good.
Submit(c, name, t, u) ==
  \/ /\ link = "up"
     /\ out' = Append(out, [name |-> name, tok |-> t, user |-> u])
     /\ waiters' = Append(waiters, c)
     /\ writing' = TRUE
     /\ UNCHANGED <<link, net, back, reading, storeVars>>
     /\ UpdateEvents
     /\ reply' = [reply EXCEPT ![c] = Pending]
  \/ /\ link = "lost"
     /\ reply' = [reply EXCEPT ![c] = Reply("error", NoUser)]
     /\ UNCHANGED <<linkVars, storeVars>>
  \/ /\ link = "lost"
     /\ reply' = [reply EXCEPT ![c] = Pending]
     /\ UNCHANGED <<linkVars, storeVars>>

\* The fd handler on EPOLLOUT: redisAsyncHandleWrite sends some commands, wishes
\* to write no more when the buffer is empty, and wishes to read.
HandleWrite ==
  /\ link = "up" /\ "OUT" \in watched
  /\ \E n \in 1..Len(out) :
       /\ net' = net \o SubSeq(out, 1, n)
       /\ out' = SubSeq(out, n + 1, Len(out))
  /\ writing' = (out' # <<>>)
  /\ reading' = TRUE
  /\ UpdateEvents
  /\ UNCHANGED <<link, back, waiters, reply, storeVars>>

\* Redis executes the next command.
Execute ==
  /\ link = "up" /\ net # <<>>
  /\ LET m == Head(net) IN
     /\ net' = Tail(net)
     /\ \/ /\ m.name = "GET"
           /\ back' = Append(back, IF m.tok \in Token /\ holder[m.tok] # NoUser
                                   THEN Reply("string", holder[m.tok])
                                   ELSE Reply("nil", NoUser))
           /\ UNCHANGED storeVars
        \/ /\ m.name = "SET"
           /\ holder' = [holder EXCEPT ![m.tok] = m.user]
           /\ eternal' = eternal \cup {m.tok}
           /\ back' = Append(back, Reply("ok", NoUser))
        \/ /\ m.name = "EXPIRE"
           /\ eternal' = eternal \ {m.tok}
           /\ back' = Append(back, Reply("ok", NoUser))
           /\ UNCHANGED holder
        \/ /\ m.name \in {"RPUSH", "LTRIM"}
           /\ back' = Append(back, Reply("ok", NoUser))
           /\ UNCHANGED storeVars
  /\ UNCHANGED <<link, out, waiters, reading, writing, watched, reply>>

\* Mutant: the reply goes to the coroutine that asked last.
HandleReadLast ==
  /\ link = "up" /\ "IN" \in watched /\ back # <<>>
  /\ reply' = [reply EXCEPT ![waiters[Len(waiters)]] = Head(back)]
  /\ waiters' = SubSeq(waiters, 1, Len(waiters) - 1)
  /\ back' = Tail(back)
  /\ UNCHANGED <<link, out, net, reading, writing, watched, storeVars>>

\* The fd handler on EPOLLIN: redisAsyncHandleRead, and command_callback fills
\* the awaiter of the oldest command and resumes its coroutine.
HandleRead ==
  /\ link = "up" /\ "IN" \in watched /\ back # <<>>
  /\ reply' = [reply EXCEPT ![Head(waiters)] = Head(back)]
  /\ waiters' = Tail(waiters)
  /\ back' = Tail(back)
  /\ UNCHANGED <<link, out, net, reading, writing, watched, storeVars>>

\* The connection to Redis breaks: every callback is made without a reply, and
\* cleanup() takes the descriptor out of epoll.
Lose ==
  /\ link = "up"
  /\ link' = "lost"
  /\ reply' = [c \in Conn |-> IF c \in Range(waiters) THEN Reply("null", NoUser) ELSE reply[c]]
  /\ out' = <<>> /\ net' = <<>> /\ back' = <<>> /\ waiters' = <<>>
  /\ watched' = {}
  /\ UNCHANGED <<reading, writing, storeVars>>

\* The hour of a token is over.
Expire(t) ==
  /\ holder[t] # NoUser /\ t \notin eternal
  /\ holder' = [holder EXCEPT ![t] = NoUser]
  /\ UNCHANGED <<linkVars, reply, eternal>>

RedisStep == HandleWrite \/ Execute \/ HandleRead
=============================================================================
