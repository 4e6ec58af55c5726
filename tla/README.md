# Formal models of the coroutine chat server

TLA+ modules for ChatApp (`src/`), a chat server built on C++20 coroutines and
epoll, with the TLC configurations that model-check them and theorems about them
that TLAPS checks. `PROJECT.json` lists the components, the runs, what every
definition models (file, lines, symbol), the hazards of the code and the theorems.

## 1. The system

### Processes and what runs on them

* `main` (main.cpp) makes the MySQL pool, the tables, the thread pool, the Workers
  and one Redis connection per Worker, and then accepts sockets in a loop. It
  registers each with the epoll of a Worker, round robin, and starts a coroutine
  that at once switches to that Worker.
* A **Worker** (coro_net.h) is a thread with an epoll instance, an eventfd, a map
  from descriptors to suspended coroutines and a queue of coroutines to resume.
  All coroutines of a connection run on its Worker and change places only at a
  `co_await`.
* A **pool thread** (async_mysql.h) takes one query at a time, borrows one of the
  MySQL connections, runs the query and schedules the coroutine on its Worker.
* MySQL, Redis and the clients are outside; the models say how they behave towards
  the server.

### Components

| Component | State | Operations | Speaks to | What is hard |
|---|---|---|---|---|
| Worker, AsyncRead/AsyncWrite, SwitchToWorker (coro_net.h) | `handles_`, `ready_events_`, `pending_resumes_`, eventfd, epoll interest | `run`, `set_client_handle`, `mod_/add_/del_client_fd`, `schedule`, `add_pending_resume`, `process_pending_resumes` | kernel, pool threads, main, Redis callback, every coroutine | edge-triggered events that come before their coroutine waits, two coroutines on one fd, wakeups from other threads, two queues swapped |
| ThreadPool, MySQLPool, AsyncMySQLQuery (async_mysql.h), start-up (main.cpp) | `tasks_`, `pool_`, two condition variables, `result_` | the constructor, `init_mysql_tables`, `submit`, `acquire` (ping, reconnect), `release`, the query | Worker (`schedule`), MySQL | lost notifications, a connection used twice, a failed reconnect, result against resumption, start-up while MySQL goes away |
| Sending to a client (websocket.h) | `send_queue`, `is_writing` | `enqueue_or_write_frame`, `client_write_loop` | AsyncWrite, socket; beside it pongs and history written by other coroutines | partial writes, frames cut by other frames, flags left set |
| Rooms (chat_app.h, WSManager) | tables `rooms`, `room_members`; Redis lists; `t_local_clients`, `t_local_rooms` of each Worker; `g_online_count` | create, join, leave, delete, send over REST; upgrade, join, leave, send over WebSocket; broadcast and eviction across Workers | MySQL, Redis, other Workers | every route is several queries with suspensions between; history against the live stream; order across Workers; stale checks |
| Connection coroutine (chat_app.h, http_server.h, websocket.h) | `raw`, `leftover`, header, mask, payload | read a request or a frame, pipelining, keep-alive, response, upgrade, cleanup | Worker, MySQL, Redis | short reads inside a header, pipelined requests, a stray resumption, cleanup on every path |
| WorkerRedis, AsyncRedisCommand (async_redis.h) | `ctx_`, event flags, fd handler, awaiters | command, callback, `update_events` | hiredis, Worker | many coroutines over one connection, refused commands, a lost connection |
| Accounts | table `users`, Redis `token:*` | register, login, token check | MySQL, Redis | SET and EXPIRE are two commands |
| Field codecs | none | JSON escape and extract, entry lines, SQL escape, URL decoding | | what goes in should come out |
| Chat page (chat_page.h) | `token`, `ws`, `wsGeneration`, `reconnTimer`, `currentRoom`, bubbles | login, logout, connect, reconnect, switch, create, join, leave, delete, send | server | async functions that go on after their `await`, sockets replaced while they connect, the page's room against the server's |
| SHA-1, Base64, hash, benchmarks, scripts, test client | | | | not modelled, section 7 |

What makes them correct:

* **Worker**: the handle of a suspended coroutine is in exactly one place; none is
  lost; no edge is missed; the Worker never blocks while a coroutine could go on;
  every connection whose peer is gone is cleaned up; received data is read.
* **MySQL pool**: a connection serves one query at a time; no notification is lost;
  a coroutine resumes with its result; every query ends.
* **Sending**: broadcast frames arrive entire, in order, none skipped or repeated;
  the queue is served while it is not empty; the bytes of a frame are contiguous.
* **Rooms**: the two directions of the registry agree on every path; a client that
  joins misses nothing between history and live messages; a sender's messages keep
  their order; a deletion is announced before it puts anybody out; a list stays
  within its limit; only the owner deletes.
* **Connection**: every item of the byte stream (a request, then a frame) is taken
  once, in order, whatever the segmentation, and served.
* **Redis, accounts**: a reply reaches the coroutine that asked; a name has one
  owner; who shows a token is served as the user whose login made it; a token
  expires.
* **Page**: one socket, one timer; the server has it in the room it shows, or has put it
  out of that room; only that room's messages are shown, as they were typed but for
  control characters; it comes online again.

## 2. The modules

| Module | Contents |
|---|---|
| `Worker` | one Worker, its coroutines and the kernel side of its sockets |
| `WorkerProofs` | its types, `HandleOnce`, `NoMissedEdge`, `NoLostCoroutine`, `NoStranded` |
| `MySQLPool` | start-up, coroutines, pool threads, connections, condition variables, the MySQL server |
| `MySQLPoolProofs` | its types, `ConnOnce`, `ResultFirst`, `NoLostConnWakeup`, `NoLostTaskWakeup` |
| `FrameStream` | abstract: what `enqueue_or_write_frame` promises |
| `WsSender` | everything that writes to one WebSocket client; refines `FrameStream` |
| `WsSenderProofs` | its types, `QueueServed`, the refinement |
| `ChatRooms` | REST room routes, WebSocket message loop, WSManager on several Workers, tables and lists |
| `ChatRoomsProofs` | its types, `RegistryAgrees`, `ListBounded`, `ToldBeforeEvicted` |
| `ChatRoomsOrderProofs` | `SenderOrder`, `NoGap` |
| `RedisLink` | one Worker's connection to Redis, its callbacks, the tokens Redis keeps |
| `Accounts` | register, login and token checks; extends `RedisLink` |
| `RequestStream` | abstract: what the reader of a connection promises |
| `Connection` | `handle_http_connection` from bytes to responses, and the frame reader; extends `Accounts`, refines `RequestStream` |
| `ConnectionProofs` | the reader keeps in step with its bytes; the refinement of `RequestStream` |
| `AccountProofs` | types, `OneOwner`, `ServedAsOwner`, `TokensExpire`, of the same module |
| `PageText` | what becomes of a text from the page that sends it to the page that shows it |
| `ChatPage` | the script of the page in one tab against a small server; extends `PageText` |
| `ChatPageProofs` | its types, `OneSocket`, `RoomAgrees`, `ShowsRoom`, `ShownAsTyped` with the codecs of `PageText` |
| `MC*` | each with its `.cfg`, the instances TLC checks |

Each module states its properties at its end, each with the lines it is about.
Definitions marked "mutant" are plausible mistakes in the code: replacing the
definition after it by the mutant makes the property that `PROJECT.json` names
fail. They are not part of any specification.

### Worker

Variables `handles`, `readyEv`, `pending`, `resuming`, `evfd` are `handles_`,
`ready_events_`, `pending_resumes_`, the local `to_resume` and the eventfd. `wpc`,
`batch` and `special` say where `run()` is and what of the last `epoll_wait` it
has still to dispatch. `EpollWait`, `DispatchWake`, `DispatchFd`,
`RedisCallback`/`RedisHandlerReturn`, `SwapPending`, `ResumeNext` and `DrainReturn`
are the steps of `run()` and `process_pending_resumes()`; an `AwaitSuspend` is
`set_client_handle` followed by `mod_client_fd`. `schedule` is two steps, push
under the mutex and `wakeup()`, because other threads run it. The kernel is
`rx`, `space`, `gone` (what a socket is ready for), `interest` and `armed` (the
edge-triggered ready list): a new event enters a watched descriptor into `armed`,
`epoll_wait` empties it, MOD enters it again if it is ready.

Coroutines are the skeleton of `handle_http_connection`: wait to be started, read,
serve with some Redis and MySQL awaits, write in one or more parts, read again,
clean up. What a request means does not matter to a Worker, so how many awaits
and writes it takes is a choice. A write loop may be started by a broadcast while
its caller runs, as a nested call (`caller`).

Simplifications: peer close merges FIN and RST (both make a socket readable and
writable, and EPOLLHUP or EPOLLERR never come without EPOLLIN or EPOLLOUT);
replies that come in while the Redis handler runs are taken by that or by the
next call, which commutes; all frames a write loop finds in its queue count as one
frame in parts; `send_history` and the coroutines of a remote broadcast are in
`WsSender` and `ChatRooms`, not here. The Worker's `done()` test before a resumption
has no effect in the model: `HandleOnce` says that the handle of a destroyed frame
is never held.

### MySQLPool

One action for each piece of code between two points where another thread can
interfere: `Submit` (push under the lock), `SubmitReturn` (notify), `TakeTask`,
`Acquire` (the `while` around `cv_.wait`), `Ping` (ping and reconnect, under the
mutex, `lock`), `Query`, `Release`, `Schedule`. A thread at `noTask` or `noConn`
waits on the condition variable; `NotifyOne` wakes one, `SpuriousWakeup` any. A
query yields a result or an error. Start-up belongs to the model because `main()` is
one more client of the pool: the thread `Main` makes the connections (those that
cannot be made are left out), borrows one in `init_mysql_tables` before any pool
thread exists, and then starts the threads and listens (`Connect`, `InitTables`,
`StartThreads`, `CreateServer`). The two queries of the tables are one.

### WsSender and FrameStream

One client's socket and all its writers: broadcasts, the write loop, the reader
coroutine (pong, room_missing) and `send_history`. A frame is `Size` parts and the
send buffer takes `Room` of them, so that a write may be entire, partial or
refused. Only the last part of each writer and the last writer are kept of the
stream (`sent`, `tail`), since a part may only follow the one before it. `Worker`
says who is resumed when; here a waiting coroutine may go on at any time, ready or
not, which also gives the EAGAIN after a stray resumption that the code takes for
an error. A history that outlives its connection (its lambda captures the
connection's frame by reference) is undefined behaviour and is not continued.

### ChatRooms

A step of an actor is one query or command at MySQL or Redis, or what the coroutine
does between two awaits. `owner` and `members` are the tables, `log` the lists,
`joined` and `roster` the two directions of the registry (`joined_rooms` of a
client, `t_local_rooms` of a Worker), `tasks` the broadcast and eviction coroutines
that have switched to a Worker and wait there in order. `live`, `got`, `cut` and
`owed` only observe: what a browser was sent, whose history broke off, who was in a
room when its deletion was announced and has neither left it nor lost its connection
since. `Frail` names the actors whose sockets and
queries may fail in an instance. Left out: routes that only read, tokens
(`Accounts` has them; a request with a bad one changes nothing), rooms joined over REST with
id `general` (nobody looks at the row), the wording of entries. Redis executes every
command; its failures are in `RedisLink`. An observation without a run:
`/api/send` and `/api/messages` use the list `chatroom:messages`, while WebSocket
messages go to `chatroom:<room>:messages`, so the REST routes described as a fallback
(chat_app.h:736, 757-766) never show what was said over WebSocket.

### RedisLink, Accounts, Connection and RequestStream

Three layers, each extending the one below, make the coroutines of one Worker as the
client sees them.

`RedisLink` is `WorkerRedis`. A command passes through the output buffer of hiredis
(`out`), the network (`net`), the server (`Execute`) and back (`back`); `waiters` is
the list of callbacks hiredis has still to make. `HandleWrite` and `HandleRead` are
the fd handler on EPOLLOUT and EPOLLIN, with `reading_`, `writing_` and
`update_events` as in the code; `HandleRead` takes one reply per step, which commutes
with taking several. hiredis and Redis are external: in order, one reply per command.
`Lose` breaks the connection: every callback is made without a reply, and because no
disconnect callback is set `ctx_` dangles. A later command is then undefined; the model
lets it be refused or swallowed.

`Accounts` has the routes that know users. `Insert` is INSERT IGNORE on a UNIQUE
name, `Select` the lookup by name and hash (a hash stands for its password) and, if it
finds somebody, SET of a token; `Stored` and `LoggedIn` go on whatever SET and EXPIRE
were answered, as the code does. `generate_token` gives a string not given before.

`Connection` has the bytes. A byte, or a run of bytes whose cutting makes no
difference, is a record of the item it belongs to and the part it is, so that a
request read together with part of its neighbour is told from a whole one (`Decode`).
`ReadRequest` receives any number of the bytes that are there; `TakeRequest` is the
search for the empty line, Content-Length, `leftover` and the choice of the route;
`WriteResponse` keeps or closes the connection; after `Handshake` `ReadField` reads
header, extended length, mask key and payload, each as the code reads it: header and
payload in loops, length and key with one read. A short read there, or a stray
resumption that the code takes for the end, leads the connection `astray`: from then on
it is out of step and nothing is claimed of it. Bytes that came with the upgrade request
are not looked at again (`Handshake`); clients wait for the 101. The Worker's scheduling
is left out here (a step is possible when its bytes or reply are there) and is in
`Worker`.

`RequestStream` is what the reader promises: items are appended, taken one at a
time in order, done, until the end. `Connection` implements it with the mapping at its
end (what is sent and not taken, what is being worked on, which connections are over).

### ChatPage and PageText

One action for each function of the script up to its next `await`, and one for
each event. `call` holds the async functions in flight with the values they have read
before their `await`; `token`, `currentRoom`, `ws`, `wsGeneration`, `reconnTimer` are the
variables of the script. A socket is the value `wsGeneration` had when it was made;
`Stale` is the test at the head of its handlers. Frames wait in `up` and `down`. The
server answers a fetch with the token it was made with, checks an upgrade (`Admit`) and
answers it later (`Upgrade`), keeps `joined` for each socket, and sends the history on a
join. A deleted room reaches clients on the Worker of the request at once (`own`); on the
other Workers the notice and the eviction are two coroutines, which wait in `tasks` and
are resumed one by one (`Resume`), with frames of the client served before, between and
after them. What can go wrong (`World`): a connection breaks, a room is deleted, a token
ends, a fetch fails.

`missed`, `untold` and `stranded` name what the code does not repair: a room switched to
while the socket connects (chat_page.h:437), a room the server puts the client out of
with no word, `loadRooms` that throws before `connectWebSocket` is reached. There are two
ways into `untold`. The client joins a room that is being deleted after the notice has run
and before the eviction has (chat_app.h:718-719): the notice did not find it there, the
eviction does. Or it sends to a room it may not enter, and the answer is a `room_missing`,
which the page does not understand.

`RoomAgrees` asks for the server to have the socket in the room the page shows and in
no other, once `up` is empty and no notice about that room is on its way to the page. In
no room at all it may be only for a room in `untold`; it does not matter whether the user
may still enter that room. That the exemption is as narrow as the code allows is what makes
it hard: a client told of the deletion, one that left and joined again, and one on the
Worker of the request all have to agree.

`PageText` follows a text through JSON.stringify, `extract_json_field`, the entry
`user|time|text`, `json_escape` and JSON.parse. Characters that some step treats on its
own are named, the others are letters: quote, backslash, bar, and five kinds of control
characters (newline, carriage return and tab, which `json_escape` writes as a letter, too;
backspace and form feed; those JSON.stringify writes as `\u`). Names have no control
characters: `doRegister` sends them with JSON.stringify and `json_get` does not undo the
escapes. Observations that contradict no line of the repository: a control character that
is typed or pasted becomes the letter behind the backslash (a tab a `t`); after a
reconnection the history is shown again below what was there; with a token that has run
out, or a room that is gone, the page tries again every two seconds for ever.

## 3. The runs

| Run | Instance | States | What it shows |
|---|---|---|---|
| `worker_http_live` | 1 connection, 2 chunks | 16,791 | `CleanupReached`, `DataConsumed` |
| `worker_ws` | 2 connections, 2 fds, 1 pool thread, 1 write loop, 1 chunk each, 1 await, 2-part responses | 846,199 | `HandleOnce`, `NoLostCoroutine`, `NoMissedEdge`, `NoStranded`, for HTTP and with two coroutines on an fd |
| `worker_ws_live` | the same | counterexample | `CleanupReached` **fails**: finding 1 |
| `mysql_pool` | start-up, 2 coroutines, 2 threads, 2 connections, 1 drop, 1 outage | 73,081 | exclusive connections, no lost notification, result first, every query ends and the server listens unless the pool is drained |
| `mysql_pool_drain` | 1 connection, 1 outage | counterexample | `Answered` **fails**: finding 2 |
| `ws_sender` | write loop, reader, 1 history, 3 frames of 2 parts, buffer of 3 | 425,656 | `QueueServed`, refinement of `FrameStream` |
| `ws_frames` | the same, 2 frames | counterexample | `FramesWhole` **fails**: finding 3 |
| `chat_rooms` | 2 Workers, 2 clients, 1 REST request, 1 group | 1,188,113 | registry, no gap, order, bounds, notice before eviction |
| `chat_rooms_live` | 1 message | 22,024 | `Delivered` |
| `chat_rooms_owner` | 3 requests, 2 users | counterexample | `OwnerDeletes` **fails**: finding 4 |
| `connection` | 2 connections, 4 scenarios, 2 users, 2 tokens | 185,224 | `OneOwner`, `ServedAsOwner`, `TokensExpire`, `Served`, refinement of `RequestStream` |
| `page` | 1 tab, 2 calls in flight, 2 logins, 3 sockets, 4 acts, 1 mishap | 897,347 | `OneSocket`, `RoomAgrees`, `ShowsRoom`, `ShownAsTyped`, `Reconnects` |

Deadlock checking is off in all of them because the instances bound what clients
do: when the connections are closed, or the messages sent, the system may rest.

**Bounds.** Two of everything that can interfere (connections, threads, Workers)
with one or two operations each reach every pair of overlapping operations; the
frame of two parts and the buffer of three make entire, partial and refused writes
and a frame that starts in a full buffer. `Keep = Recent = 1` makes the second
message push the first out of the list. One join or leave frame and one REST
request meet every step of a sender. Three requests are what the owner's race
needs. `worker_ws_live` and `mysql_pool_drain` need no more than their one write loop and
one outage. The safety part of `mysql_pool` was also run with 3 coroutines and 3
threads (5,229,931 states), with the same result.

`connection` has four scenarios because only these items meet: two registrations of one
name with a login, a login beside a check with an older token, pipelined requests (one
with a body, one malformed, one after the last) and an upgrade with a long, an empty, a
control and a closing frame. Every cutting of their bytes, every loss of the link and
every hang-up is taken. In `page` two calls in flight let each `await` meet a
second function, three sockets a stale and a live one beside one that connects; four
acts are a login, a switch, a message and one more; a room that is deleted, by its owner or
from the page, counts as a mishap. The name
ends in a backslash, the text has a quote, a bar and a backslash. What becomes of control
characters and of a name with a bar, which `ShownAsTyped` exempts by name, two assumptions of
`MCChatPage` spell out on one text each; every other text is a matter of the proof.

**Fairness.** `Worker`: the Worker's thread keeps running (one weak fairness over
everything it does: it is one thread), a pool thread that has a result schedules
it, Redis answers; peers owe nothing. `MySQLPool`: each thread keeps running, a
coroutine that was scheduled is resumed, an outage ends. No strong fairness is
needed for `AnsweredUnlessDrained` with as many coroutines as the instance has.
`ChatRooms`: each coroutine goes on when its query is answered, each Worker takes
the head of its queue; browsers owe nothing. `Connection`: each coroutine goes on when
it can, the link moves; clients owe nothing, and `Served` exempts what the code cannot
serve (`astray`, a lost link). `ChatPage`: the browser runs what is due, the server
answers; the user owes nothing. `WsSender` states no liveness.

## 4. Findings

1. `handles_` keeps one coroutine per descriptor (coro_net.h:163). When
   `client_write_loop` suspends on the fd on which its connection waits to read, the
   connection's handle and its EPOLLIN interest are overwritten; it is never
   resumed, and its cleanup never runs (chat_app.h:848 promises it on every path).
2. A connection whose reconnect fails leaves the pool for good
   (async_mysql.h:109-115); after one outage the pool may be empty and every query
   waits for ever (async_mysql.h:5 says it resumes).
3. Pongs, notices and history frames do not respect `is_writing`; a broadcast may be
   written into the middle of one (README.md:8, websocket.h:6 claim RFC 6455).
4. The owner of a room is checked in one query and the room deleted by id in later
   ones (chat_app.h:706-716); a room created meanwhile by somebody else is deleted
   (chat_app.h:692 says only the owner deletes).

## 5. The proofs

TLAPS checks every safety property of the runs that pass, for every value of the
constants: any number of connections, descriptors, threads, Workers, rooms, frames,
sockets and texts. `TypeOK` is part of each inductive invariant below.

**Worker** (`WorkerProofs`: `TypeCorrect`, `HandledOnce`, `EdgesKept`, `NobodyLost`,
`NobodyStranded`). `HandleOnce` is inductive together with types and "every coroutine
between birth and end has a descriptor". The argument is where a handle moves:
`GiveAway`, `PushBack`, `Register`, `Unregister` are lemmas about one move each, and each
action makes one. `NoMissedEdge` needs that a coroutine suspends only on an open
descriptor, that a closed one has no handle, and that no event is left to dispatch when
`run()` waits again (`EdgeInv`). `NoLostCoroutine` holds until the first write loop
starts, from `OwnFd`: until then two coroutines never work on one descriptor; a second
one on a descriptor is finding 1. `NoStranded` follows from `Looks` (before the Worker
blocks with something in `pending_resumes_`, the eventfd is set or somebody is about to
set it) and `Promised` (who waits for no descriptor is with another party or in a queue
the loop still comes to).

**MySQL pool** (`MySQLPoolProofs`: `PoolTypes`, `ConnectionsExclusive`, `ResultComplete`,
`ConnectionsAreFetched`, `TasksAreFetched`). `PoolInv` adds what ties control to data: who
holds a connection and who a task at each place (`ConnHeld`, `TaskHeld`), that no thread
exists while `main()` is in the tables (`MainFirst`), that what is in the pool has been
opened (else `Connect` could push it a second time), that a coroutine has at most one
task, queued, running or done (`OneTask`), and that the result is there before the
connection goes back (`Complete`). The two wakeup theorems count: at least as many threads
are on their way to the pool (`Comers`) as it has idle connections, or nobody waits;
likewise tasks against `Takers` and the `Notifiers` that have pushed and not yet
notified. A step moves one thread in or out of such a set, which the cardinality facts of
FiniteSetTheorems turn into a difference of one; hence the assumption that there are
finitely many threads and coroutines.

**Sending** (`WsSenderProofs`: `SenderTypes`, `QueueAlwaysServed`, `StreamKept`).
`SenderInv` adds the control state of the write loop (`Control`) and the position of the
stream (`StreamInv`): the queue holds the frames after the one being written, in order,
and only its first element may be a rest. `StreamKept` is the refinement: every step is
a step of `FrameStream` or none.

**Rooms** (`ChatRoomsProofs`: `RoomsTyped`, `RegistryAlwaysAgrees`, `ListsStayBounded`,
`NobodyEvictedUntold`; `ChatRoomsOrderProofs`: `SendersKeepTheirOrder`,
`NoMessageFallsBetween`). `RegistryAgrees` is inductive with the places a coroutine can be
at and with "a registered client is in its message loop" (`Placed`, `Registered`).
`ToldBeforeEvicted` speaks of one moment, the head of a queue; `NoticeComes` makes it
inductive: for everybody who is owed a notice, it stands in the queue of its Worker
before any eviction from that room. `ListBounded` counts the coroutines between RPUSH and
LTRIM (`Trimming`): a list exceeds its limit by no more than these, each of which will
trim it. For the order, `Ordered` says that the messages of a sender are numbered in
each queue (`Framed`, `Queued`), that what a client has got is numbered too and older than
what waits for it (`Received`), and that all of them are older than what the sender works
on. `NoGap` is inductive with `Filed` (a list has the messages sent to it): a message that
newly stands in a list waits for its broadcast (`StoredMoves`), and the broadcast reaches
whoever is in the room.

**Connection** (`ConnectionProofs`: `ReaderAlwaysInStep`, `TakesWholeInOrder`).
`StreamInv` says of each connection that is not over where its reader stands: what has
been received and what is still on the wire are, together, the bytes of the items not
yet taken (`Streaming`, with `Lays`: the place at which each item ends), the bytes of a
frame already read are those its field needs (`Framed`), and the control state fits the
item (`Scripted`, `Sided`, `Counted`, `Busy`). From it follows that `Decode` never yields
anything but the next item, entire, and so each step is a step of `RequestStream` under
the mapping or none. Once `astray`, a connection is over for the mapping.

**Accounts** (`AccountProofs`: `ConnectionTyped`, `NameHasOneOwner`, `ServedByToken`,
`TokensDoExpire`). `ServedAsOwner` rests on the alignment of the pipeline (`Piped`): the
waiters of hiredis, in order, are those of the replies in `back` followed by those of the
commands in `net` and `out`, so that the first reply belongs to the first waiter;
`Session` says what a coroutine knows at each place, `Tokens` that a token in Redis is
of a login of the user it stands for, done or under way, `Names` that the UNIQUE key holds.

**Page** (`ChatPageProofs`: `PageTyped`, `SocketIsOne`, `ServerFollows`, `RoomShown`,
`MessagesShownAsTyped`). `PageInv`: `ws` is the socket of the present generation
(`WsCurrent`); as long as two logins have not been in flight at once, no other socket
lives and only messages of the page's room are shown (`LoginInv`); the frames that wait in
`up` lead the client from the rooms it is in to the page's room, unless a notice about that
room is on its way or the room is in `untold` (`RoomFollows`, `Leads`, `Told`); what is shown
is the view, live or from the history, the codecs give of something that was sent
(`ShownAsSent`). For the deleted rooms `RoomFollows` has to say more than `RoomAgrees`, since
an eviction that waits may undo what was true: if an eviction from the page's room is first
among the tasks about that room (`Evicting`), the client is told, or not in it, or a join
waits in `up` (`Way`). A notice still before it will tell the client, and a join served
behind the notice puts the room in `untold`. `ShownAsTyped` needs the codecs,
too, for texts of every length: `ScanOfField` shows that a scan of an escaped text takes
it and nothing else, character by character, `ParsedBack` and `ExtractedBack` that it
comes out as it went in, `StringifiedPlain` that the two ways of escaping agree where no
control character is, `EntryRead` that `user|time|text` falls apart where it was put
together. The library's induction theorems cannot be used with these provers, so the
induction is over a set: the numbers up to which a scan is right contain 0 and the
successor of each, hence all (`UpTo`, from the well-foundedness of Nat); the same lemma
gives the existence of the recursive functions (`Recursion`, `Flattened`, `ScanRuns`).

**Assumptions** are the named `ASSUME`s of the modules (`WorkerAssumption`,
`PoolAssumption`, `SenderAssumption`, `ActorsAssumption`, `RoomsAssumption`,
`BoundsAssumption`, `LinkAssumption`, `AccountAssumption`, `ScenariosAssumption`,
`PageAssumption`): the constants are distinct, the bounds are numbers, the coroutines and
threads of the pool are finitely many, names and texts are sequences, and names have no
control characters.

**Only model-checked**: all liveness (`CleanupReached`, `DataConsumed`,
`AnsweredUnlessDrained`, `Listens`, `Delivered`, `Served`, `Reconnects`), because fairness
and ENABLED are beyond the prover, and the four findings, which TLC refutes.

## 6. Plan

Done, in this order: `Worker` and its proofs; `MySQLPool`, start-up and
`MySQLPoolProofs`; `FrameStream`, `WsSender` and the refinement proof; `ChatRooms`;
`RedisLink`, `Accounts`, `Connection` with `RequestStream`; `ChatPage` with
`PageText`; the theorems about `ChatRooms`, `Connection` and `Accounts`, the wakeups of
the pool, `NoStranded`, and `ChatPage` with its codecs.

Left:

1. Action properties about the models that have none yet (what a step of a sender, of a
   pool thread, of a login may never do), with theorems from the invariants above.
2. `WsSender` on two connections that use one descriptor after the other, for the
   write loop that outlives its socket (websocket.h:205).
3. The codecs without a model: `ws_encode_frame` and unmasking, `mysql_escape`, URL
   decoding, `json_get`, with the lemmas about scans that `ChatPageProofs` has.

## 7. Not modelled

SHA-1, Base64, the token generator and the password hash: pure bit arithmetic with
published test vectors (`Accounts` has fresh tokens and one hash per password).
Benchmarks, the test client, scripts and the Makefile: outside the server. Markup and
styles of the page: no state. Options, round robin and the Redis addresses of `main()`.
Header syntax beyond well-formed or not; the bits of a frame. The routes that only
read. WSManager::broadcast and `online_count`, which nobody calls.

What undefined behaviour or an uncaught exception does is listed under the hazards and
not continued by the models: a history that outlives its connection
(chat_app.h:347), the Redis context after a disconnect beyond one command refused or
swallowed (async_redis.h:67), a Content-Length that is no number (chat_app.h:248).
