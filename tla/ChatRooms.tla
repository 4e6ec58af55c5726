------------------------------ MODULE ChatRooms ------------------------------
(***************************************************************************)
(* The rooms of the chat: the routes of chat_app.h that create, join,      *)
(* leave and delete a room, the message loop of a WebSocket connection,    *)
(* and WSManager (websocket.h), whose registry of clients and rooms is     *)
(* thread_local to each Worker and is reached from another Worker only     *)
(* through a coroutine that switches to it.                                *)
(*                                                                         *)
(* An actor is a coroutine of handle_http_connection: a WebSocket          *)
(* connection, or a connection that serves one REST request.  Its step is  *)
(* what it does between two co_awaits, or the effect of the query or       *)
(* command it awaits, which MySQL and Redis run atomically; between two    *)
(* steps of an actor every other one may run.                              *)
(*                                                                         *)
(* Redis executes every command here.  A MySQL query may fail, and the     *)
(* code then goes on as it does.                                           *)
(***************************************************************************)
EXTENDS Naturals, Sequences, FiniteSets, SequencesExt

CONSTANTS
    Workers,      \* the event loops
    Conns,        \* connections that ask for the upgrade to /ws
    Requests,     \* connections that serve a REST request
    Users,
    Groups,       \* the room ids beside 'general'
    General,      \* the room every user is in, which nobody may delete
    Rest,         \* the list "chatroom:messages" that the REST routes use
    None,         \* there is no row of this room in the table rooms
    HomeOf,       \* the Worker of an actor
    UserOf,       \* the user whose token an actor presents
    Keep,         \* messages LTRIM leaves in a list (200)
    Recent,       \* messages LRANGE returns (50)
    MaxSend,      \* bound: messages of each actor
    MaxMove,      \* bound: join and leave frames of each connection
    Frail         \* bound: the actors whose peer may go, whose queries may fail

Actors == Conns \cup Requests
Rooms  == Groups \cup {General}
Lists  == Rooms \cup {Rest}

ASSUME ActorsAssumption ==
    /\ Conns \cap Requests = {}
    /\ HomeOf \in [Actors -> Workers]
    /\ UserOf \in [Actors -> Users]

ASSUME RoomsAssumption ==
    /\ General \notin Groups
    /\ Rest \notin Rooms
    /\ None \notin Users

ASSUME BoundsAssumption ==
    /\ Keep \in Nat \ {0} /\ Recent \in 1 .. Keep
    /\ Frail \subseteq Actors
    /\ MaxSend \in [Actors -> Nat] /\ MaxMove \in [Conns -> Nat]

VARIABLES
    \* MySQL
    owner,        \* rooms: the owner_username of a group, or None
    members,      \* room_members: pairs of group and user
    \* Redis
    log,          \* "chatroom:<room>:messages", oldest first
    \* WSManager
    clients,      \* the keys of t_local_clients, over all Workers
    joined,       \* joined_rooms of a client
    roster,       \* t_local_rooms of a Worker
    online,       \* g_online_count
    tasks,        \* coroutines of WSManager that switched to a Worker
    \* the coroutines
    pc,           \* what an actor does next
    room,         \* room_id of the operation at hand
    sends,        \* messages an actor has begun to send
    loads,        \* send_history coroutines that wait for LRANGE, by room
    moves,        \* join and leave frames read
    \* what the browser has been sent
    live,         \* chat messages broadcast to it, in order
    got,          \* chat messages broadcast to it or in its history
    cut,          \* connections on which send_history gave up half-way
    owed          \* who was in a room when its deletion was announced

tables    == <<owner, members>>
registry  == <<clients, joined, roster, online>>
seen      == <<live, got, cut>>
coroutine == <<pc, room, sends, loads, moves>>
vars      == <<tables, log, registry, tasks, coroutine, seen, owed>>

(***************************************************************************)
(* A message is known by its sender, its place among the sender's messages *)
(* and its list; who, when and what is in it does not matter here.         *)
(***************************************************************************)
Message(a) == [by |-> a, nth |-> sends[a], to |-> room[a]]

Frame(m)  == [type |-> "message", room |-> m.to, message |-> m]
Notice(g) == [type |-> "room_deleted", room |-> g]
Evict(g)  == [type |-> "evict", room |-> g]

HomedAt(w) == {c \in Conns : HomeOf[c] = w}

Latest(s, n) == SubSeq(s, IF Len(s) > n THEN Len(s) - n + 1 ELSE 1, Len(s))

(***************************************************************************)
(* The tables keep what earlier runs of the server have left in them; the  *)
(* lists are empty and no browser is connected.                            *)
(***************************************************************************)
Init ==
    /\ owner \in [Groups -> Users \cup {None}]
    /\ members \in SUBSET (Groups \X Users)
    /\ log = [l \in Lists |-> <<>>]
    /\ clients = {} /\ online = 0
    /\ joined = [c \in Conns |-> {}]
    /\ roster = [w \in Workers |-> [r \in Rooms |-> {}]]
    /\ tasks = [w \in Workers |-> <<>>]
    /\ pc = [a \in Actors |-> IF a \in Conns THEN "http" ELSE "idle"]
    /\ room = [a \in Actors |-> General]
    /\ sends = [a \in Actors |-> 0]
    /\ loads = [c \in Conns |-> [r \in Rooms |-> 0]]
    /\ moves = [c \in Conns |-> 0]
    /\ live = [c \in Conns |-> <<>>]
    /\ got = [c \in Conns |-> {}]
    /\ cut = {} /\ owed = {}

(***************************************************************************)
(* The registry.  Each operation belongs to the Worker of its clients and  *)
(* is one step of it.                                                      *)
(***************************************************************************)
JoinedWithout(gone) == [c \in Conns |-> IF c \in gone THEN {} ELSE joined[c]]

\* mutant: t_local_rooms keeps a client that is removed
RosterKept(gone) == roster

RosterWithout(gone) ==
    [w \in Workers |-> [r \in Rooms |-> roster[w][r] \ {c \in gone : r \in joined[c]}]]

\* mutant: the counter goes down for a client that was removed before
UnregisterAgain(gone) ==
    /\ clients' = clients \ gone
    /\ online' = online - Cardinality(gone)
    /\ joined' = JoinedWithout(gone)
    /\ roster' = RosterWithout(gone)

\* WSManager::remove, and the same code in client_write_loop and
\* enqueue_or_write_frame
Unregister(gone) ==
    /\ clients' = clients \ gone
    /\ online' = online - Cardinality(clients \cap gone)
    /\ joined' = JoinedWithout(gone)
    /\ roster' = RosterWithout(gone)

JoinRoom(c, r) ==
    /\ IF c \in clients
       THEN /\ joined' = [joined EXCEPT ![c] = @ \cup {r}]
            /\ roster' = [roster EXCEPT ![HomeOf[c]][r] = @ \cup {c}]
       ELSE UNCHANGED <<joined, roster>>
    /\ UNCHANGED <<clients, online>>

LeaveRoom(c, r) ==
    /\ IF c \in clients
       THEN /\ joined' = [joined EXCEPT ![c] = @ \ {r}]
            /\ roster' = [roster EXCEPT ![HomeOf[c]][r] = @ \ {c}]
       ELSE UNCHANGED <<joined, roster>>
    /\ UNCHANGED <<clients, online>>

\* send_history runs up to its LRANGE
StartHistory(c, r) == loads' = [loads EXCEPT ![c][r] = @ + 1]

\* those who are told, or who have left or lost their connection, are owed no
\* notice any more
StillOwed(told) == {d \in owed \ told : d[1] \in roster'[HomeOf[d[1]]][d[2]]}

Settle(told) == owed' = StillOwed(told)

(***************************************************************************)
(* The upgrade of a connection to WebSocket.                               *)
(***************************************************************************)
Become(a, label)    == pc' = [pc EXCEPT ![a] = label]
Begin(a, label, r)  == Become(a, label) /\ room' = [room EXCEPT ![a] = r]
Finish(a)           == Begin(a, "done", General)

Upgrade(c, r) ==
    /\ pc[c] = "http"
    /\ Begin(c, IF r = General THEN "handshake" ELSE "admission", r)
    /\ UNCHANGED <<tables, log, registry, tasks, sends, loads, moves, seen, owed>>

\* the JOIN of rooms and room_members
IsMember(u, g) == owner[g] # None /\ <<g, u>> \in members

NotMember(c) == c \in Frail \/ ~ IsMember(UserOf[c], room[c])

Admission(c) ==
    /\ pc[c] = "admission"
    /\ \/ IsMember(UserOf[c], room[c]) /\ Become(c, "handshake") /\ UNCHANGED room
       \/ NotMember(c) /\ Finish(c)             \* 403
    /\ UNCHANGED <<tables, log, registry, tasks, sends, loads, moves, seen, owed>>

Handshake(c) ==
    /\ pc[c] = "handshake"
    /\ Become(c, "loop")
    /\ clients' = clients \cup {c} /\ online' = online + 1
    /\ joined' = [joined EXCEPT ![c] = {room[c]}]
    /\ roster' = [roster EXCEPT ![HomeOf[c]][room[c]] = @ \cup {c}]
    /\ StartHistory(c, room[c])
    /\ room' = [room EXCEPT ![c] = General]
    /\ UNCHANGED <<tables, log, tasks, sends, moves, seen, owed>>

HandshakeFails(c) ==
    /\ pc[c] = "handshake" /\ c \in Frail
    /\ Finish(c)
    /\ UNCHANGED <<tables, log, registry, tasks, sends, loads, moves, seen, owed>>

(***************************************************************************)
(* send_history: the frames are written to the socket one by one, and the  *)
(* coroutine returns at the first write that fails.                        *)
(***************************************************************************)
History(c, r, n) ==
    LET reply == Latest(log[r], Recent)
    IN  /\ pc[c] # "done" /\ loads[c][r] > 0 /\ n \in 0 .. Len(reply)
        /\ c \in Frail \/ n = Len(reply)
        /\ loads' = [loads EXCEPT ![c][r] = @ - 1]
        /\ got' = [got EXCEPT ![c] = @ \cup ToSet(SubSeq(reply, 1, n))]
        /\ cut' = IF n < Len(reply) THEN cut \cup {c} ELSE cut
        /\ UNCHANGED <<tables, log, registry, tasks, pc, room, sends, moves,
                       live, owed>>

(***************************************************************************)
(* The message loop.  A client may name any room in any frame; one that    *)
(* names none gets current_room, which is again one of them.               *)
(***************************************************************************)
\* mutant: no history is sent for a join frame
JoinFrameNoHistory(c, r) ==
    /\ pc[c] = "loop" /\ moves[c] < MaxMove[c]
    /\ moves' = [moves EXCEPT ![c] = @ + 1]
    /\ JoinRoom(c, r)
    /\ UNCHANGED <<tables, log, tasks, pc, room, sends, loads, seen, owed>>

JoinFrame(c, r) ==
    /\ pc[c] = "loop" /\ moves[c] < MaxMove[c]
    /\ moves' = [moves EXCEPT ![c] = @ + 1]
    /\ JoinRoom(c, r)
    /\ StartHistory(c, r)
    /\ UNCHANGED <<tables, log, tasks, pc, room, sends, seen, owed>>

LeaveFrame(c, r) ==
    /\ pc[c] = "loop" /\ moves[c] < MaxMove[c]
    /\ moves' = [moves EXCEPT ![c] = @ + 1]
    /\ LeaveRoom(c, r)
    /\ Settle({})
    /\ UNCHANGED <<tables, log, tasks, pc, room, sends, loads, seen>>

SendFrame(c, r) ==
    /\ pc[c] = "loop" /\ sends[c] < MaxSend[c]
    /\ sends' = [sends EXCEPT ![c] = @ + 1]
    /\ Begin(c, IF r = General THEN "push" ELSE "membership", r)
    /\ UNCHANGED <<tables, log, registry, tasks, loads, moves, seen, owed>>

Membership(c) ==
    /\ pc[c] = "membership"
    /\ IsMember(UserOf[c], room[c])
    /\ Become(c, "push")
    /\ UNCHANGED <<tables, log, registry, tasks, room, sends, loads, moves, seen, owed>>

\* the client is told room_missing
NoMembership(c) ==
    /\ pc[c] = "membership"
    /\ NotMember(c)
    /\ LeaveRoom(c, room[c])
    /\ Settle({})
    /\ Begin(c, "loop", General)
    /\ UNCHANGED <<tables, log, tasks, sends, loads, moves, seen>>

\* the peer is gone, or a write of this coroutine failed: ws_cleanup
Close(c) ==
    /\ pc[c] = "loop" /\ c \in Frail
    /\ Finish(c)
    /\ Unregister({c})
    /\ Settle({})
    /\ loads' = [loads EXCEPT ![c] = [r \in Rooms |-> 0]]
    /\ UNCHANGED <<tables, log, tasks, sends, moves, seen>>

\* client_write_loop fails: the client leaves the registry, its coroutine
\* is still to notice
Drop(c) ==
    /\ c \in clients \cap Frail
    /\ Unregister({c})
    /\ Settle({})
    /\ UNCHANGED <<tables, log, tasks, coroutine, seen>>

(***************************************************************************)
(* A message is appended to its list, the list is cut, and the message is  *)
(* broadcast; POST /api/send does the first two.                           *)
(***************************************************************************)
Push(a) ==
    /\ pc[a] = "push"
    /\ log' = [log EXCEPT ![room[a]] = Append(@, Message(a))]
    /\ Become(a, "trim")
    /\ UNCHANGED <<tables, registry, tasks, room, sends, loads, moves, seen, owed>>

\* mutant: LTRIM with one index off
TrimOff(a) ==
    /\ pc[a] = "trim"
    /\ log' = [log EXCEPT ![room[a]] = Latest(@, Keep + 1)]
    /\ IF a \in Conns THEN Become(a, "cast") /\ UNCHANGED room ELSE Finish(a)
    /\ UNCHANGED <<tables, registry, tasks, sends, loads, moves, seen, owed>>

Trim(a) ==
    /\ pc[a] = "trim"
    /\ log' = [log EXCEPT ![room[a]] = Latest(@, Keep)]
    /\ IF a \in Conns THEN Become(a, "cast") /\ UNCHANGED room ELSE Finish(a)
    /\ UNCHANGED <<tables, registry, tasks, sends, loads, moves, seen, owed>>

\* broadcast_to_local_room: enqueue_or_write_frame for every client in the
\* room; the sockets of the clients in gone refuse the frame
Deliver(w, f, gone) ==
    LET reached == roster[w][f.room] \ gone
    IN  /\ IF f.type = "message"
           THEN /\ live' = [c \in Conns |-> IF c \in reached
                              THEN Append(live[c], f.message) ELSE live[c]]
                /\ got' = [c \in Conns |-> IF c \in reached
                              THEN got[c] \cup {f.message} ELSE got[c]]
           ELSE UNCHANGED <<live, got>>
        /\ UNCHANGED cut

\* mutant: the newest coroutine is resumed first
SwitchLast(w, fs) ==
    tasks' = [v \in Workers |-> IF v = w THEN tasks[v] ELSE fs \o tasks[v]]

\* broadcast_to_room and evict_room start a coroutine for every Worker but
\* their own, which SwitchToWorker schedules there
Switch(w, fs) ==
    tasks' = [v \in Workers |-> IF v = w THEN tasks[v] ELSE tasks[v] \o fs]

\* mutant: only the sender's own Worker broadcasts
CastHere(c) ==
    LET w == HomeOf[c]
        f == Frame(Message(c))
    IN  /\ pc[c] = "cast"
        /\ \E gone \in SUBSET (roster[w][f.room] \cap Frail) : Deliver(w, f, gone) /\ Unregister(gone)
        /\ Settle({})
        /\ Begin(c, "loop", General)
        /\ UNCHANGED <<tables, log, tasks, sends, loads, moves>>

Cast(c) ==
    LET w == HomeOf[c]
        f == Frame(Message(c))
    IN  /\ pc[c] = "cast"
        /\ \E gone \in SUBSET (roster[w][f.room] \cap Frail) : Deliver(w, f, gone) /\ Unregister(gone)
        /\ Settle({})
        /\ Switch(w, <<f>>)
        /\ Begin(c, "loop", General)
        /\ UNCHANGED <<tables, log, sends, loads, moves>>

(***************************************************************************)
(* A Worker resumes the coroutine that switched to it first.               *)
(***************************************************************************)
InRoomAt(w, r) == {<<c, r>> : c \in roster[w][r]}

RunBroadcast(w) ==
    /\ tasks[w] # <<>> /\ Head(tasks[w]).type # "evict"
    /\ LET f == Head(tasks[w])
       IN  /\ \E gone \in SUBSET (roster[w][f.room] \cap Frail) : Deliver(w, f, gone) /\ Unregister(gone)
           /\ Settle(IF f.type = "room_deleted" THEN InRoomAt(w, f.room) ELSE {})
    /\ tasks' = [tasks EXCEPT ![w] = Tail(@)]
    /\ UNCHANGED <<tables, log, coroutine>>

\* evict_local_room
RunEvict(w) ==
    /\ tasks[w] # <<>> /\ Head(tasks[w]).type = "evict"
    /\ LET g == Head(tasks[w]).room
       IN  /\ joined' = [c \in Conns |-> IF c \in roster[w][g] \cap clients
                           THEN joined[c] \ {g} ELSE joined[c]]
           /\ roster' = [roster EXCEPT ![w][g] = {}]
    /\ tasks' = [tasks EXCEPT ![w] = Tail(@)]
    /\ UNCHANGED <<tables, log, clients, online, coroutine, seen, owed>>

(***************************************************************************)
(* The REST routes.  The token has been checked; a route that only reads   *)
(* is left out.  INSERT IGNORE and DELETE change nothing when the row is   *)
(* there, or gone, and the code never looks at their result.               *)
(***************************************************************************)
Request(q, g, label) ==
    /\ pc[q] = "idle"
    /\ Begin(q, label, g)
    /\ UNCHANGED <<tables, log, registry, tasks, sends, loads, moves, seen, owed>>

RestSend(q) ==
    /\ pc[q] = "idle" /\ sends[q] < MaxSend[q]
    /\ sends' = [sends EXCEPT ![q] = @ + 1]
    /\ Begin(q, "push", Rest)
    /\ UNCHANGED <<tables, log, registry, tasks, loads, moves, seen, owed>>

\* room_id is UNIQUE in rooms
InsertRoom(q) ==
    LET g == room[q]
    IN  /\ pc[q] = "insert room"
        /\ \/ /\ owner[g] = None
              /\ owner' = [owner EXCEPT ![g] = UserOf[q]]
              /\ Become(q, "insert member") /\ UNCHANGED room
           \/ /\ q \in Frail \/ owner[g] # None        \* 409
              /\ Finish(q) /\ UNCHANGED owner
        /\ UNCHANGED <<members, log, registry, tasks, sends, loads, moves, seen, owed>>

FindRoom(q) ==
    /\ pc[q] = "find room"
    /\ \/ owner[room[q]] # None /\ Become(q, "insert member") /\ UNCHANGED room
       \/ (q \in Frail \/ owner[room[q]] = None) /\ Finish(q)              \* 404
    /\ UNCHANGED <<tables, log, registry, tasks, sends, loads, moves, seen, owed>>

InsertMember(q) ==
    /\ pc[q] = "insert member"
    /\ \/ members' = members \cup {<<room[q], UserOf[q]>>}
       \/ q \in Frail /\ UNCHANGED members
    /\ Finish(q)
    /\ UNCHANGED <<owner, log, registry, tasks, sends, loads, moves, seen, owed>>

DeleteMember(q) ==
    /\ pc[q] = "delete member"
    /\ \/ members' = members \ {<<room[q], UserOf[q]>>}
       \/ q \in Frail /\ UNCHANGED members
    /\ Finish(q)
    /\ UNCHANGED <<owner, log, registry, tasks, sends, loads, moves, seen, owed>>

FindOwner(q) ==
    /\ pc[q] = "find owner"
    /\ \/ owner[room[q]] = UserOf[q] /\ Become(q, "delete members") /\ UNCHANGED room
       \/ (q \in Frail \/ owner[room[q]] # UserOf[q]) /\ Finish(q)         \* 404, 403
    /\ UNCHANGED <<tables, log, registry, tasks, sends, loads, moves, seen, owed>>

DeleteMembers(q) ==
    /\ pc[q] = "delete members"
    /\ \/ members' = {m \in members : m[1] # room[q]}
       \/ q \in Frail /\ UNCHANGED members
    /\ Become(q, "delete room")
    /\ UNCHANGED <<owner, log, registry, tasks, room, sends, loads, moves, seen, owed>>

DeleteRoom(q) ==
    /\ pc[q] = "delete room"
    /\ \/ owner' = [owner EXCEPT ![room[q]] = None]
       \/ q \in Frail /\ UNCHANGED owner
    /\ Become(q, "delete history")
    /\ UNCHANGED <<members, log, registry, tasks, room, sends, loads, moves, seen, owed>>

DeleteHistory(q) ==
    /\ pc[q] = "delete history"
    /\ log' = [log EXCEPT ![room[q]] = <<>>]
    /\ Become(q, "announce")
    /\ UNCHANGED <<tables, registry, tasks, room, sends, loads, moves, seen, owed>>

\* who will still be in the room when the notice gets there
Audience(w, g) ==
    {d \in UNION {InRoomAt(v, g) : v \in Workers \ {w}} :
        Evict(g) \notin ToSet(tasks[HomeOf[d[1]]])}

\* mutant: the room is emptied before the notice is broadcast
AnnounceLate(q) ==
    LET w == HomeOf[q]
        g == room[q]
    IN  /\ pc[q] = "announce"
        /\ \E gone \in SUBSET (roster[w][g] \cap Frail) :
              /\ clients' = clients \ gone
              /\ online' = online - Cardinality(clients \cap gone)
              /\ joined' = [c \in Conns |-> IF c \in roster[w][g]
                              THEN JoinedWithout(gone)[c] \ {g} ELSE joined[c]]
              /\ roster' = [RosterWithout(gone) EXCEPT ![w][g] = {}]
        /\ owed' = StillOwed(InRoomAt(w, g)) \cup Audience(w, g)
        /\ Switch(w, <<Evict(g), Notice(g)>>)
        /\ Finish(q)
        /\ UNCHANGED <<tables, log, sends, loads, moves, seen>>

Announce(q) ==
    LET w == HomeOf[q]
        g == room[q]
    IN  /\ pc[q] = "announce"
        /\ \E gone \in SUBSET (roster[w][g] \cap Frail) :
              /\ clients' = clients \ gone
              /\ online' = online - Cardinality(clients \cap gone)
              /\ joined' = [c \in Conns |-> IF c \in roster[w][g]
                              THEN JoinedWithout(gone)[c] \ {g} ELSE joined[c]]
              /\ roster' = [RosterWithout(gone) EXCEPT ![w][g] = {}]
        /\ owed' = StillOwed(InRoomAt(w, g)) \cup Audience(w, g)
        /\ Switch(w, <<Notice(g), Evict(g)>>)
        /\ Finish(q)
        /\ UNCHANGED <<tables, log, sends, loads, moves, seen>>

(***************************************************************************)
(* The system.                                                             *)
(***************************************************************************)
Routes == {"insert room", "find room", "delete member", "find owner"}

\* what a browser does, and sockets that fail
Environment ==
    \/ \E c \in Conns : HandshakeFails(c) \/ Close(c) \/ Drop(c)
    \/ \E c \in Conns, r \in Rooms :
          Upgrade(c, r) \/ JoinFrame(c, r) \/ LeaveFrame(c, r) \/ SendFrame(c, r)
    \/ \E q \in Requests : RestSend(q)
    \/ \E q \in Requests, g \in Groups, label \in Routes : Request(q, g, label)

ConnStep(c) ==
    Admission(c) \/ Handshake(c) \/ Membership(c) \/ NoMembership(c) \/ Cast(c)

RequestStep(q) ==
    \/ InsertRoom(q) \/ FindRoom(q) \/ InsertMember(q) \/ DeleteMember(q)
    \/ FindOwner(q) \/ DeleteMembers(q) \/ DeleteRoom(q) \/ DeleteHistory(q)
    \/ Announce(q)

ActorStep(a) ==
    \/ Push(a) \/ Trim(a)
    \/ a \in Conns /\ ConnStep(a)
    \/ a \in Requests /\ RequestStep(a)

HistoryStep(c, r) == \E n \in 0 .. Recent : History(c, r, n)

WorkerStep(w) == RunBroadcast(w) \/ RunEvict(w)

Next ==
    \/ Environment
    \/ \E a \in Actors : ActorStep(a)
    \/ \E c \in Conns, r \in Rooms : HistoryStep(c, r)
    \/ \E w \in Workers : WorkerStep(w)

Spec == Init /\ [][Next]_vars

(***************************************************************************)
(* MySQL and Redis answer, and a Worker resumes what is scheduled on it.   *)
(* Nothing is expected of a browser.                                       *)
(***************************************************************************)
Fairness ==
    /\ \A a \in Actors : WF_vars(ActorStep(a))
    /\ \A c \in Conns, r \in Rooms : WF_vars(HistoryStep(c, r))
    /\ \A w \in Workers : WF_vars(WorkerStep(w))

FairSpec == Spec /\ Fairness

(***************************************************************************)
(* Properties.                                                             *)
(***************************************************************************)
Sent == UNION {[by : {a}, nth : 1 .. MaxSend[a], to : Lists] : a \in Actors}

Tasks ==
    [type : {"message"}, room : Rooms, message : Sent]
        \cup [type : {"room_deleted", "evict"}, room : Groups]

Labels ==
    {"http", "admission", "handshake", "loop", "membership", "cast", "idle",
     "insert room", "insert member", "find room", "delete member", "find owner",
     "delete members", "delete room", "delete history", "announce",
     "push", "trim", "done"}

\* The tables, the lists, the registry and the coroutines have their types.
TypeOK ==
    /\ owner \in [Groups -> Users \cup {None}]
    /\ members \subseteq Groups \X Users
    /\ log \in [Lists -> Seq(Sent)]
    /\ clients \subseteq Conns /\ online \in Nat
    /\ joined \in [Conns -> SUBSET Rooms]
    /\ roster \in [Workers -> [Rooms -> SUBSET Conns]]
    /\ tasks \in [Workers -> Seq(Tasks)]
    /\ pc \in [Actors -> Labels] /\ room \in [Actors -> Lists]
    /\ sends \in [Actors -> Nat] /\ \A a \in Actors : sends[a] <= MaxSend[a]
    /\ loads \in [Conns -> [Rooms -> Nat]]
    /\ moves \in [Conns -> Nat] /\ \A c \in Conns : moves[c] <= MaxMove[c]
    /\ live \in [Conns -> Seq(Sent)] /\ got \in [Conns -> SUBSET Sent]
    /\ cut \subseteq Conns /\ owed \subseteq Conns \X Groups

\* The two directions of the registry agree: a Worker's roster of a room holds
\* exactly its own registered clients that have joined the room, and the global
\* counter is the number of registered clients.  Every path that removes a
\* client (remove, client_write_loop, enqueue_or_write_frame, evict) has to
\* undo both directions (websocket.h:181-352).
RegistryAgrees ==
    /\ \A w \in Workers, r \in Rooms :
          roster[w][r] = {c \in clients : HomeOf[c] = w /\ r \in joined[c]}
    /\ \A c \in Conns \ clients : joined[c] = {}
    /\ online = Cardinality(clients)

InRoom(c, r) == c \in roster[HomeOf[c]][r]

\* message m has been broadcast on Worker w
BroadcastOn(w, m) ==
    /\ pc[m.by] \in {"trim", "cast"} => Message(m.by) # m
    /\ \A i \in DOMAIN tasks[w] : tasks[w][i].type = "message" => tasks[w][i].message # m

\* A client in a room, whose histories have been answered in full, has every
\* one of the latest messages of the room's list, in its history or live: no
\* message falls between the two, because the client moves before LRANGE
\* (chat_app.h:345, 375, 448-449) and a message is stored before it is
\* broadcast (483-490), on another Worker too.
NoGap ==
    \A c \in clients \ cut : \A r \in joined[c] :
        loads[c][r] = 0 =>
            \A m \in ToSet(Latest(log[r], Recent)) :
                BroadcastOn(HomeOf[c], m) => m \in got[c]

\* A client gets the messages of one sender in the order they were sent, each
\* once, also over a Worker's queue (coro_net.h:366-375, websocket.h:335-341).
SenderOrder ==
    \A c \in Conns : \A i, j \in DOMAIN live[c] :
        i < j /\ live[c][i].by = live[c][j].by => live[c][i].nth < live[c][j].nth

\* A list is over its limit only by the messages whose sender has not yet cut
\* it (chat_app.h:483-484).
ListBounded ==
    \A l \in Lists :
        Len(log[l]) <= Keep + Cardinality({a \in Actors : pc[a] = "trim" /\ room[a] = l})

\* Whoever is in a room when its deletion is announced, and whose Worker has no
\* earlier eviction of it in its queue, is in the room until it is told: it is
\* never put out silently (chat_app.h:717-718).
ToldBeforeEvicted == \A d \in owed : InRoom(d[1], d[2])

\* A message in the list of a room reaches a client of the room, unless the
\* client leaves, newer messages displace it or its history was cut short.
Delivered ==
    \A c \in Conns, m \in Sent :
        m.to \in Rooms =>
            (m \in ToSet(log[m.to]) /\ InRoom(c, m.to))
                ~> (\/ m \in got[c] \/ ~ InRoom(c, m.to) \/ c \in cut
                    \/ m \notin ToSet(Latest(log[m.to], Recent)))

\* "删除房间，仅 owner 可删" (chat_app.h:692): a room is deleted only by a
\* request of its owner.
OwnerDeletes ==
    [][\A g \in Groups : owner[g] # None /\ owner'[g] = None =>
          \E q \in Requests :
             pc[q] = "delete room" /\ pc'[q] # pc[q] /\ UserOf[q] = owner[g]]_vars

=============================================================================
