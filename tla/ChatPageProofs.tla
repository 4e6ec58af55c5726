--------------------------- MODULE ChatPageProofs ---------------------------
(***************************************************************************)
(* What ChatPage promises, for any number of async functions, sockets,      *)
(* tokens, rooms and texts.  The invariant has four parts: ws is the socket *)
(* of the present generation; with one login at a time no other socket and  *)
(* no second timer exists; the frames that wait in up lead the client from  *)
(* the rooms it is in to the one the page shows, and no eviction that waits *)
(* on its Worker undoes this with no word; what is shown was sent.          *)
(* That it also looks as it was sent is a fact about the codecs of PageText. *)
(***************************************************************************)
EXTENDS ChatPage, SequenceTheorems, WellFoundedInduction, TLAPS

-----------------------------------------------------------------------------
(* Types. *)

ReadyStates == {"none", "connecting", "open", "closing", "closed"}
Peers == {"none", "asked", "admitted", "serving", "gone"}
CallType ==
  [fn: {"none", "login", "enter", "exit"}, at: {"idle", "fetch", "ok", "rooms"},
   room: AllRooms, tok: 0..MaxToken]

\* What the page may show of a message: of what was sent, one of the two views.
Look == {Views[n][t].live : n \in Names, t \in Texts} \cup {Views[n][t].history : n \in Names, t \in Texts}
Rendered(m) ==
  m.from \in {"live", "history"} /\ m.view = Views[m.sent.user][m.sent.text][m.from]

UpFrame == [type: {"leave", "join"}, room: AllRooms] \cup [type: {"send"}, room: AllRooms, text: Texts]
DownFrame ==
  [type: {"open"}] \cup [type: {"deleted"}, room: Rooms] \cup [type: {"missing"}, room: AllRooms]
  \cup {m \in [type: {"message"}, room: AllRooms, from: {"live", "history"}, view: Look,
                        sent: [user: Names, text: Texts]] : Rendered(m)}
Task == [type: {"deleted", "evict"}, room: Rooms]

PageTypes ==
  /\ token \in 0..MaxToken /\ currentRoom \in AllRooms
  /\ wsGeneration \in 0..MaxSocket /\ ws \in 0..wsGeneration
  /\ timers \in Nat /\ reconnTimer \in BOOLEAN
  /\ call \in [Calls -> CallType]
  /\ issued \in 0..MaxToken

NetTypes ==
  /\ readyState \in [Sockets -> ReadyStates]
  /\ up \in [Sockets -> Seq(UpFrame)]
  /\ down \in [Sockets -> Seq(DownFrame)]
  /\ peer \in [Sockets -> Peers]
  /\ url \in [Sockets -> [tok: 0..MaxToken, room: AllRooms]]
  /\ joined \in [Sockets -> SUBSET AllRooms]
  /\ tasks \in [Sockets -> Seq(Task)]
  /\ untold \in [Sockets -> SUBSET AllRooms]

ServerTypes ==
  /\ valid \subseteq 1..issued
  /\ member \subseteq Rooms
  /\ log \in [AllRooms -> Seq(Texts)]
  /\ name \in Names

\* An async function that is in flight knows what it works for.
Known(c) ==
  /\ c.fn = "none" <=> c.at = "idle"
  /\ c.fn \in {"enter", "exit"} => c.room \in Rooms
  /\ c.fn = "login" /\ c.at \in {"ok", "rooms"} => c.tok # 0

CallsKnown == \A k \in Calls : Known(call[k])

Typed == PageTypes /\ NetTypes /\ ServerTypes /\ CallsKnown

-----------------------------------------------------------------------------
(* The sockets. *)

\* ws is the socket of the present generation, with the token of the page.
WsCurrent ==
  ws # 0 => /\ ws = wsGeneration
            /\ readyState[ws] \in {"connecting", "open"}
            /\ url[ws].tok = token

\* What has not been made is blank; what the server does not serve is in no room
\* and sends nothing; a socket without a token is never admitted.
Blank(g) ==
  /\ g > wsGeneration => readyState[g] = "none" /\ peer[g] = "none"
  /\ peer[g] # "serving" => joined[g] = {} /\ down[g] = <<>>
  /\ peer[g] \in {"admitted", "serving"} => url[g].tok # 0
  /\ readyState[g] \in {"none", "connecting"} => up[g] = <<>>

SocketsBlank == \A g \in Sockets : Blank(g)

\* With one login at a time: there is no other; where it is, no socket and no timer
\* is in its way; a timer that is due is the only one; ws is the only socket.
OneLogin ==
  /\ \A j, k \in Calls : call[j].fn = "login" /\ call[k].fn = "login" => j = k
  /\ \A k \in Calls : call[k].fn = "login" /\ call[k].at = "rooms" => ws = 0 /\ timers = 0
  /\ \A k \in Calls : call[k].fn = "login" /\ call[k].at # "rooms" => token = 0
  /\ timers > 0 => reconnTimer /\ timers = 1 /\ Live = {} /\ token # 0
  /\ Live \subseteq {ws}

\* The messages shown.
Shown ==
  /\ \A b \in bubbles : b.room = currentRoom
  /\ token = 0 => bubbles = {}

\* What is shown was sent, and is shown as one of its views.
ShownAsSent == \A b \in bubbles : b.sent \in [user: Names, text: Texts] /\ Rendered(b)

LoginInv == ~overlapped => OneLogin /\ Shown

-----------------------------------------------------------------------------
(* The rooms the server has the socket in. *)

Is(u, i, type) == i \in DOMAIN u /\ u[i].type = type

\* The frames u, served in their order, take a client that is in the rooms J to
\* the room c, and from one room to the next; or the client has been evicted from
\* c, and is still to be told, or never will be.
Leads(u, J, c, told) ==
  /\ \A i \in DOMAIN u : u[i].type = "leave" => Is(u, i + 1, "join")
  /\ \A i \in DOMAIN u : u[i].type = "join" /\ i # 1 => Is(u, i - 1, "leave")
  /\ \A i \in DOMAIN u : u[i].type = "join" =>
       \/ u[i].room = c
       \/ \E j \in DOMAIN u : j > i /\ u[j].type = "join"
  /\ \A i, j \in DOMAIN u : i < j /\ u[i].type = "join" /\ u[j].type = "leave" =>
       \/ u[j].room = u[i].room
       \/ \E k \in DOMAIN u : i < k /\ k < j /\ u[k].type = "join"
  /\ \A j \in DOMAIN u : u[j].type = "leave" =>
       \/ J \subseteq {u[j].room}
       \/ \E k \in DOMAIN u : k < j /\ u[k].type = "join"
  /\ Is(u, 1, "join") => J = {}
  /\ \/ \E k \in DOMAIN u : u[k].type = "join"
     \/ J = {c}
     \/ J = {} /\ told

\* Among the frames q is the news that the room c is gone.
Tells(q, c) == \E i \in DOMAIN q : q[i].type = "deleted" /\ q[i].room = c

\* The client is told of it, or may never be: one of the rooms W has it leave unheard.
Told(q, W, c) == Tells(q, c) \/ c \in W

Joining(u) == \E i \in DOMAIN u : u[i].type = "join"

\* The frames lead to c, and no eviction that waits among the tasks q undoes this
\* with no word: the client has been told, or is on its way through another room.
Way(u, J, q, c, told) ==
  Leads(u, J, c, told) /\ (Evicting(q, c) /\ c \in J => told \/ Joining(u))

RoomFollows ==
  ws # 0 /\ ws \notin missed =>
    /\ readyState[ws] = "connecting" => url[ws].room = currentRoom
    /\ peer[ws] = "serving" =>
         Way(up[ws], joined[ws], tasks[ws], currentRoom, Told(down[ws], untold[ws], currentRoom))

PageInv == Typed /\ WsCurrent /\ SocketsBlank /\ LoginInv /\ ShownAsSent /\ RoomFollows

-----------------------------------------------------------------------------
(* Frames on their way. *)

LEMMA TailOf ==
  ASSUME NEW S, NEW q \in Seq(S), q # <<>>
  PROVE  /\ Tail(q) \in Seq(S) /\ Head(q) \in S /\ Head(q) = q[1]
         /\ Len(q) \in Nat \ {0} /\ DOMAIN q = 1..Len(q) /\ DOMAIN Tail(q) = 1..(Len(q) - 1)
         /\ \A i \in DOMAIN Tail(q) : i + 1 \in DOMAIN q /\ Tail(q)[i] = q[i + 1]
OBVIOUS

LEMMA AppendOf ==
  ASSUME NEW S, NEW q \in Seq(S), NEW x \in S
  PROVE  /\ Append(q, x) \in Seq(S) /\ Len(q) \in Nat /\ DOMAIN q = 1..Len(q)
         /\ DOMAIN Append(q, x) = 1..(Len(q) + 1)
         /\ \A i \in DOMAIN q : Append(q, x)[i] = q[i]
         /\ Append(q, x)[Len(q) + 1] = x
OBVIOUS

LEMMA ConcatOf ==
  ASSUME NEW S, NEW p \in Seq(S), NEW q \in Seq(S)
  PROVE  /\ p \o q \in Seq(S) /\ Len(p) \in Nat /\ Len(q) \in Nat
         /\ DOMAIN p = 1..Len(p) /\ DOMAIN q = 1..Len(q)
         /\ DOMAIN (p \o q) = 1..(Len(p) + Len(q))
         /\ \A i \in DOMAIN p : (p \o q)[i] = p[i]
         /\ \A i \in DOMAIN q : (p \o q)[Len(p) + i] = q[i]
OBVIOUS

\* The server has taken the oldest frame, a text: the rest leads where it led.
LEMMA LeadsPastSend ==
  ASSUME NEW u \in Seq(UpFrame), u # <<>>, u[1].type = "send",
         NEW J, NEW c, NEW told \in BOOLEAN, Leads(u, J, c, told)
  PROVE  Leads(Tail(u), J, c, told) /\ (Joining(u) => Joining(Tail(u)))
<1> DEFINE v == Tail(u)
<1>1. /\ Len(u) \in Nat \ {0} /\ DOMAIN u = 1..Len(u) /\ DOMAIN v = 1..(Len(u) - 1)
      /\ \A i \in DOMAIN v : i + 1 \in DOMAIN u /\ v[i] = u[i + 1]
  BY TailOf
<1>2. \A k \in DOMAIN u : u[k].type # "send" => k - 1 \in DOMAIN v /\ v[k - 1] = u[k]
  <2> SUFFICES ASSUME NEW k \in DOMAIN u, u[k].type # "send" PROVE k - 1 \in DOMAIN v /\ v[k - 1] = u[k]
    OBVIOUS
  <2>1. k # 1 /\ k \in Nat /\ k - 1 \in DOMAIN v /\ (k - 1) + 1 = k
    BY <1>1
  <2> QED
    BY <1>1, <2>1
<1> HIDE DEF v
<1>3. ASSUME NEW i \in DOMAIN v, v[i].type = "leave" PROVE Is(v, i + 1, "join")
  <2>1. Is(u, (i + 1) + 1, "join")
    BY <1>1, <1>3 DEF Leads
  <2> QED
    BY <1>1, <1>2, <1>3, <2>1 DEF Is
<1>4. ASSUME NEW i \in DOMAIN v, v[i].type = "join" PROVE i # 1 /\ Is(v, i - 1, "leave")
  <2>1. i + 1 \in DOMAIN u /\ u[i + 1].type = "join" /\ i + 1 # 1 /\ (i + 1) - 1 = i
    BY <1>1, <1>4
  <2>2. Is(u, i, "leave")
    BY <2>1 DEF Leads
  <2>3. i # 1
    BY <2>2 DEF Is
  <2>4. i - 1 \in DOMAIN v /\ v[i - 1] = u[i]
    BY <1>2, <2>2 DEF Is
  <2> QED
    BY <2>2, <2>3, <2>4 DEF Is
<1>5. ASSUME NEW i \in DOMAIN v, v[i].type = "join"
      PROVE  v[i].room = c \/ \E j \in DOMAIN v : j > i /\ v[j].type = "join"
  <2>1. u[i + 1].room = c \/ \E j \in DOMAIN u : j > i + 1 /\ u[j].type = "join"
    BY <1>1, <1>5 DEF Leads
  <2>2. ASSUME NEW j \in DOMAIN u, j > i + 1, u[j].type = "join"
        PROVE  j - 1 \in DOMAIN v /\ j - 1 > i /\ v[j - 1].type = "join"
    BY <1>1, <1>2, <2>2
  <2> QED
    BY <1>1, <2>1, <2>2
<1>6. ASSUME NEW i \in DOMAIN v, NEW j \in DOMAIN v, i < j, v[i].type = "join", v[j].type = "leave"
      PROVE  v[j].room = v[i].room \/ \E k \in DOMAIN v : i < k /\ k < j /\ v[k].type = "join"
  <2>1. /\ i + 1 \in DOMAIN u /\ j + 1 \in DOMAIN u /\ i + 1 < j + 1
        /\ u[i + 1].type = "join" /\ u[j + 1].type = "leave"
    BY <1>1, <1>6
  <2>2. \/ u[j + 1].room = u[i + 1].room
        \/ \E k \in DOMAIN u : i + 1 < k /\ k < j + 1 /\ u[k].type = "join"
    BY <2>1 DEF Leads
  <2>3. ASSUME NEW k \in DOMAIN u, i + 1 < k, k < j + 1, u[k].type = "join"
        PROVE  k - 1 \in DOMAIN v /\ i < k - 1 /\ k - 1 < j /\ v[k - 1].type = "join"
    BY <1>1, <1>2, <2>3
  <2> QED
    BY <1>1, <2>2, <2>3
<1>7. ASSUME NEW j \in DOMAIN v, v[j].type = "leave"
      PROVE  J \subseteq {v[j].room} \/ \E k \in DOMAIN v : k < j /\ v[k].type = "join"
  <2>1. j + 1 \in DOMAIN u /\ u[j + 1].type = "leave"
    BY <1>1, <1>7
  <2>2. J \subseteq {u[j + 1].room} \/ \E k \in DOMAIN u : k < j + 1 /\ u[k].type = "join"
    BY <2>1 DEF Leads
  <2>3. ASSUME NEW k \in DOMAIN u, k < j + 1, u[k].type = "join"
        PROVE  k - 1 \in DOMAIN v /\ k - 1 < j /\ v[k - 1].type = "join"
    BY <1>1, <1>2, <2>3
  <2> QED
    BY <1>1, <2>2, <2>3
<1>8. (\E k \in DOMAIN v : v[k].type = "join") \/ J = {c} \/ (J = {} /\ told)
  <2>1. (\E k \in DOMAIN u : u[k].type = "join") \/ J = {c} \/ (J = {} /\ told)
    BY DEF Leads
  <2>2. ASSUME NEW k \in DOMAIN u, u[k].type = "join"
        PROVE  k - 1 \in DOMAIN v /\ v[k - 1].type = "join"
    BY <1>2, <2>2
  <2> QED
    BY <2>1, <2>2
<1>9. ~Is(v, 1, "join")
  BY <1>4 DEF Is
<1>10. Leads(v, J, c, told)
  BY <1>3, <1>4, <1>5, <1>6, <1>7, <1>8, <1>9 DEF Leads
<1>11. Joining(u) => Joining(v)
  BY <1>2 DEF Joining
<1> QED
  BY <1>10, <1>11 DEF v

\* The server has left a room: a frame to join one is next.
LEMMA LeadsPastLeave ==
  ASSUME NEW u \in Seq(UpFrame), u # <<>>, u[1].type = "leave",
         NEW J, NEW c, NEW told \in BOOLEAN, NEW b \in BOOLEAN, Leads(u, J, c, told)
  PROVE  Leads(Tail(u), J \ {u[1].room}, c, b) /\ Joining(Tail(u))
<1> DEFINE v == Tail(u)
<1> DEFINE K == J \ {u[1].room}
<1>1. /\ Len(u) \in Nat \ {0} /\ DOMAIN u = 1..Len(u) /\ DOMAIN v = 1..(Len(u) - 1)
      /\ \A i \in DOMAIN v : i + 1 \in DOMAIN u /\ v[i] = u[i + 1]
  BY TailOf
<1>2. \A k \in DOMAIN u : k # 1 => k - 1 \in DOMAIN v /\ v[k - 1] = u[k]
  <2> SUFFICES ASSUME NEW k \in DOMAIN u, k # 1 PROVE k - 1 \in DOMAIN v /\ v[k - 1] = u[k]
    OBVIOUS
  <2>1. k \in Nat /\ k - 1 \in DOMAIN v /\ (k - 1) + 1 = k
    BY <1>1
  <2> QED
    BY <1>1, <2>1
<1>a. 1 \in DOMAIN u /\ Is(u, 1 + 1, "join") /\ 1 + 1 = 2
  BY <1>1 DEF Leads
<1>b. 1 \in DOMAIN v /\ v[1].type = "join"
  BY <1>1, <1>a DEF Is
<1>c. K = {}
  <2>1. J \subseteq {u[1].room} \/ \E k \in DOMAIN u : k < 1 /\ u[k].type = "join"
    BY <1>a DEF Leads
  <2> QED
    BY <1>1, <2>1
<1> HIDE DEF v, K
<1>3. ASSUME NEW i \in DOMAIN v, v[i].type = "leave" PROVE Is(v, i + 1, "join")
  <2>1. Is(u, (i + 1) + 1, "join")
    BY <1>1, <1>3 DEF Leads
  <2>2. (i + 1) + 1 # 1 /\ ((i + 1) + 1) - 1 = i + 1
    BY <1>1
  <2> QED
    BY <1>2, <2>1, <2>2 DEF Is
<1>4. ASSUME NEW i \in DOMAIN v, v[i].type = "join", i # 1 PROVE Is(v, i - 1, "leave")
  <2>1. i + 1 \in DOMAIN u /\ u[i + 1].type = "join" /\ i + 1 # 1 /\ (i + 1) - 1 = i
    BY <1>1, <1>4
  <2>2. Is(u, i, "leave")
    BY <2>1 DEF Leads
  <2>3. i - 1 \in DOMAIN v /\ v[i - 1] = u[i]
    BY <1>2, <1>4, <2>2 DEF Is
  <2> QED
    BY <2>2, <2>3 DEF Is
<1>5. ASSUME NEW i \in DOMAIN v, v[i].type = "join"
      PROVE  v[i].room = c \/ \E j \in DOMAIN v : j > i /\ v[j].type = "join"
  <2>1. u[i + 1].room = c \/ \E j \in DOMAIN u : j > i + 1 /\ u[j].type = "join"
    BY <1>1, <1>5 DEF Leads
  <2>2. ASSUME NEW j \in DOMAIN u, j > i + 1, u[j].type = "join"
        PROVE  j - 1 \in DOMAIN v /\ j - 1 > i /\ v[j - 1].type = "join"
    BY <1>1, <1>2, <2>2
  <2> QED
    BY <1>1, <2>1, <2>2
<1>6. ASSUME NEW i \in DOMAIN v, NEW j \in DOMAIN v, i < j, v[i].type = "join", v[j].type = "leave"
      PROVE  v[j].room = v[i].room \/ \E k \in DOMAIN v : i < k /\ k < j /\ v[k].type = "join"
  <2>1. /\ i + 1 \in DOMAIN u /\ j + 1 \in DOMAIN u /\ i + 1 < j + 1
        /\ u[i + 1].type = "join" /\ u[j + 1].type = "leave"
    BY <1>1, <1>6
  <2>2. \/ u[j + 1].room = u[i + 1].room
        \/ \E k \in DOMAIN u : i + 1 < k /\ k < j + 1 /\ u[k].type = "join"
    BY <2>1 DEF Leads
  <2>3. ASSUME NEW k \in DOMAIN u, i + 1 < k, k < j + 1, u[k].type = "join"
        PROVE  k - 1 \in DOMAIN v /\ i < k - 1 /\ k - 1 < j /\ v[k - 1].type = "join"
    BY <1>1, <1>2, <2>3
  <2> QED
    BY <1>1, <2>2, <2>3
<1>7. \A j \in DOMAIN v : K \subseteq {v[j].room}
  BY <1>c
<1>8. \E k \in DOMAIN v : v[k].type = "join"
  BY <1>b
<1>9. Leads(v, K, c, b)
  BY <1>c, <1>3, <1>4, <1>5, <1>6, <1>7, <1>8 DEF Leads
<1>10. Joining(v)
  BY <1>8 DEF Joining
<1> QED
  BY <1>9, <1>10 DEF v, K

\* The server has joined a room: the next frame to leave leaves this one.
LEMMA LeadsPastJoin ==
  ASSUME NEW u \in Seq(UpFrame), u # <<>>, u[1].type = "join",
         NEW J, NEW c, NEW told \in BOOLEAN, NEW b \in BOOLEAN, Leads(u, J, c, told)
  PROVE  Leads(Tail(u), J \cup {u[1].room}, c, b) /\ (u[1].room = c \/ Joining(Tail(u)))
<1> DEFINE v == Tail(u)
<1> DEFINE K == J \cup {u[1].room}
<1>1. /\ Len(u) \in Nat \ {0} /\ DOMAIN u = 1..Len(u) /\ DOMAIN v = 1..(Len(u) - 1)
      /\ \A i \in DOMAIN v : i + 1 \in DOMAIN u /\ v[i] = u[i + 1]
  BY TailOf
<1>2. \A k \in DOMAIN u : k # 1 => k - 1 \in DOMAIN v /\ v[k - 1] = u[k]
  <2> SUFFICES ASSUME NEW k \in DOMAIN u, k # 1 PROVE k - 1 \in DOMAIN v /\ v[k - 1] = u[k]
    OBVIOUS
  <2>1. k \in Nat /\ k - 1 \in DOMAIN v /\ (k - 1) + 1 = k
    BY <1>1
  <2> QED
    BY <1>1, <2>1
<1>a. 1 \in DOMAIN u
  BY <1>1
<1>b. K = {u[1].room}
  BY <1>a DEF Leads, Is
<1> HIDE DEF v, K
<1>3. ASSUME NEW i \in DOMAIN v, v[i].type = "leave" PROVE Is(v, i + 1, "join")
  <2>1. Is(u, (i + 1) + 1, "join")
    BY <1>1, <1>3 DEF Leads
  <2>2. (i + 1) + 1 # 1 /\ ((i + 1) + 1) - 1 = i + 1
    BY <1>1
  <2> QED
    BY <1>2, <2>1, <2>2 DEF Is
<1>4. ASSUME NEW i \in DOMAIN v, v[i].type = "join" PROVE i # 1 /\ Is(v, i - 1, "leave")
  <2>1. i + 1 \in DOMAIN u /\ u[i + 1].type = "join" /\ i + 1 # 1 /\ (i + 1) - 1 = i
    BY <1>1, <1>4
  <2>2. Is(u, i, "leave")
    BY <2>1 DEF Leads
  <2>3. i # 1
    BY <2>2 DEF Is
  <2>4. i - 1 \in DOMAIN v /\ v[i - 1] = u[i]
    BY <1>2, <2>2, <2>3 DEF Is
  <2> QED
    BY <2>2, <2>3, <2>4 DEF Is
<1>5. ASSUME NEW i \in DOMAIN v, v[i].type = "join"
      PROVE  v[i].room = c \/ \E j \in DOMAIN v : j > i /\ v[j].type = "join"
  <2>1. u[i + 1].room = c \/ \E j \in DOMAIN u : j > i + 1 /\ u[j].type = "join"
    BY <1>1, <1>5 DEF Leads
  <2>2. ASSUME NEW j \in DOMAIN u, j > i + 1, u[j].type = "join"
        PROVE  j - 1 \in DOMAIN v /\ j - 1 > i /\ v[j - 1].type = "join"
    BY <1>1, <1>2, <2>2
  <2> QED
    BY <1>1, <2>1, <2>2
<1>6. ASSUME NEW i \in DOMAIN v, NEW j \in DOMAIN v, i < j, v[i].type = "join", v[j].type = "leave"
      PROVE  v[j].room = v[i].room \/ \E k \in DOMAIN v : i < k /\ k < j /\ v[k].type = "join"
  <2>1. /\ i + 1 \in DOMAIN u /\ j + 1 \in DOMAIN u /\ i + 1 < j + 1
        /\ u[i + 1].type = "join" /\ u[j + 1].type = "leave"
    BY <1>1, <1>6
  <2>2. \/ u[j + 1].room = u[i + 1].room
        \/ \E k \in DOMAIN u : i + 1 < k /\ k < j + 1 /\ u[k].type = "join"
    BY <2>1 DEF Leads
  <2>3. ASSUME NEW k \in DOMAIN u, i + 1 < k, k < j + 1, u[k].type = "join"
        PROVE  k - 1 \in DOMAIN v /\ i < k - 1 /\ k - 1 < j /\ v[k - 1].type = "join"
    BY <1>1, <1>2, <2>3
  <2> QED
    BY <1>1, <2>2, <2>3
<1>7. ASSUME NEW j \in DOMAIN v, v[j].type = "leave"
      PROVE  K \subseteq {v[j].room} \/ \E k \in DOMAIN v : k < j /\ v[k].type = "join"
  <2>1. j + 1 \in DOMAIN u /\ 1 < j + 1 /\ u[j + 1].type = "leave"
    BY <1>1, <1>7
  <2>2. u[j + 1].room = u[1].room \/ \E k \in DOMAIN u : 1 < k /\ k < j + 1 /\ u[k].type = "join"
    BY <1>a, <2>1 DEF Leads
  <2>3. ASSUME NEW k \in DOMAIN u, 1 < k, k < j + 1, u[k].type = "join"
        PROVE  k - 1 \in DOMAIN v /\ k - 1 < j /\ v[k - 1].type = "join"
    BY <1>1, <1>2, <2>3
  <2> QED
    BY <1>1, <1>b, <2>2, <2>3
<1>8. Joining(v) \/ u[1].room = c
  <2>1. u[1].room = c \/ \E j \in DOMAIN u : j > 1 /\ u[j].type = "join"
    BY <1>a DEF Leads
  <2>2. ASSUME NEW k \in DOMAIN u, k > 1, u[k].type = "join"
        PROVE  k - 1 \in DOMAIN v /\ v[k - 1].type = "join"
    BY <1>1, <1>2, <2>2
  <2> QED
    BY <2>1, <2>2 DEF Joining
<1>9. ~Is(v, 1, "join")
  BY <1>4 DEF Is
<1>10. Leads(v, K, c, b)
  <2>1. (\E k \in DOMAIN v : v[k].type = "join") \/ K = {c}
    BY <1>b, <1>8 DEF Joining
  <2> QED
    BY <1>3, <1>4, <1>5, <1>6, <1>7, <1>9, <2>1 DEF Leads
<1> QED
  BY <1>8, <1>10 DEF v, K

\* doSend: the text waits behind.
LEMMA LeadsWithSend ==
  ASSUME NEW u \in Seq(UpFrame), NEW m \in UpFrame, m.type = "send",
         NEW J, NEW c, NEW told \in BOOLEAN, Leads(u, J, c, told)
  PROVE  Leads(Append(u, m), J, c, told) /\ (Joining(u) => Joining(Append(u, m)))
<1> DEFINE v == Append(u, m)
<1>1. /\ Len(u) \in Nat /\ DOMAIN u = 1..Len(u) /\ DOMAIN v = 1..(Len(u) + 1)
      /\ \A i \in DOMAIN u : v[i] = u[i]
      /\ v[Len(u) + 1] = m
  BY AppendOf
<1>2. \A i \in DOMAIN v : v[i].type # "send" => i \in DOMAIN u /\ v[i] = u[i]
  <2> SUFFICES ASSUME NEW i \in DOMAIN v, i \notin DOMAIN u PROVE v[i] = m
    BY <1>1
  <2>1. i = Len(u) + 1
    BY <1>1
  <2> QED
    BY <1>1, <2>1
<1>3. \A i \in DOMAIN u : i \in DOMAIN v
  BY <1>1
<1> HIDE DEF v
<1>4. \A i, type : Is(u, i, type) => Is(v, i, type)
  BY <1>1, <1>3 DEF Is
<1>5. ~Is(u, 1, "join") => ~Is(v, 1, "join")
  BY <1>2 DEF Is
<1>6. /\ \A k \in DOMAIN v : v[k].type = "leave" => Is(v, k + 1, "join")
      /\ \A k \in DOMAIN v : v[k].type = "join" /\ k # 1 => Is(v, k - 1, "leave")
  BY <1>1, <1>2, <1>4 DEF Leads
<1>7. \A k \in DOMAIN v : v[k].type = "join" =>
        v[k].room = c \/ \E j \in DOMAIN v : j > k /\ v[j].type = "join"
  BY <1>1, <1>2, <1>3 DEF Leads
<1>8. \A i, j \in DOMAIN v : i < j /\ v[i].type = "join" /\ v[j].type = "leave" =>
        v[j].room = v[i].room \/ \E k \in DOMAIN v : i < k /\ k < j /\ v[k].type = "join"
  <2> SUFFICES ASSUME NEW i \in DOMAIN v, NEW j \in DOMAIN v, i < j,
                      v[i].type = "join", v[j].type = "leave"
               PROVE  v[j].room = v[i].room \/ \E k \in DOMAIN v : i < k /\ k < j /\ v[k].type = "join"
    OBVIOUS
  <2>1. i \in DOMAIN u /\ v[i] = u[i] /\ j \in DOMAIN u /\ v[j] = u[j]
    BY <1>2
  <2>2. u[j].room = u[i].room \/ \E k \in DOMAIN u : i < k /\ k < j /\ u[k].type = "join"
    BY <2>1 DEF Leads
  <2>3. \A k \in DOMAIN u : k \in DOMAIN v /\ v[k] = u[k]
    BY <1>1, <1>3
  <2> QED
    BY <2>1, <2>2, <2>3
<1>9. \A j \in DOMAIN v : v[j].type = "leave" =>
        J \subseteq {v[j].room} \/ \E k \in DOMAIN v : k < j /\ v[k].type = "join"
  BY <1>1, <1>2, <1>3 DEF Leads
<1>10. (\E k \in DOMAIN v : v[k].type = "join") \/ J = {c} \/ (J = {} /\ told)
  BY <1>1, <1>3 DEF Leads
<1>11. Is(v, 1, "join") => J = {}
  BY <1>5 DEF Leads
<1>12. Leads(v, J, c, told)
  BY <1>6, <1>7, <1>8, <1>9, <1>10, <1>11 DEF Leads
<1>13. Joining(u) => Joining(v)
  BY <1>1, <1>3 DEF Joining
<1> QED
  BY <1>12, <1>13 DEF v

\* switchRoom: leave the room where the frames lead, join another.
LEMMA LeadsWithSwitch ==
  ASSUME NEW u \in Seq(UpFrame), NEW c \in AllRooms, NEW r \in AllRooms,
         NEW J, NEW told \in BOOLEAN, NEW b \in BOOLEAN, Leads(u, J, c, told)
  PROVE  LET v == u \o <<[type |-> "leave", room |-> c], [type |-> "join", room |-> r]>>
         IN  Leads(v, J, r, b) /\ Joining(v)
<1> DEFINE p == [type |-> "leave", room |-> c]
<1> DEFINE q == [type |-> "join", room |-> r]
<1> DEFINE w == <<p, q>>
           v == u \o w
<1> DEFINE n == Len(u)
<1>1. p \in UpFrame /\ q \in UpFrame /\ p.type = "leave" /\ p.room = c /\ q.type = "join" /\ q.room = r
  BY DEF UpFrame
<1> HIDE DEF p, q
<1>2. w \in Seq(UpFrame) /\ Len(w) = 2 /\ w[1] = p /\ w[2] = q
  BY <1>1
<1> HIDE DEF w
<1>3. /\ n \in Nat /\ DOMAIN u = 1..n /\ DOMAIN v = 1..(n + 2)
      /\ \A i \in DOMAIN u : v[i] = u[i]
      /\ \A i \in DOMAIN w : v[n + i] = w[i]
  BY <1>2, ConcatOf
<1>4. v[n + 1] = p /\ v[n + 2] = q
  BY <1>2, <1>3
<1> HIDE DEF v, n
<1>5. \A i \in DOMAIN v : i \in DOMAIN u \/ i = n + 1 \/ i = n + 2
  BY <1>3
<1>6. \A i \in DOMAIN u : i \in DOMAIN v /\ i < n + 1 /\ i < n + 2 /\ i # n + 1 /\ i # n + 2
  BY <1>3
<1>7. n + 1 \in DOMAIN v /\ n + 2 \in DOMAIN v /\ (n + 1) + 1 = n + 2 /\ (n + 2) - 1 = n + 1 /\ n + 2 # 1
  BY <1>3
<1>8. \A i \in DOMAIN u : v[i] = u[i]
  BY <1>3
<1>9. \A i, type : Is(u, i, type) => Is(v, i, type)
  BY <1>6, <1>8 DEF Is
<1>10. \A i \in DOMAIN v : v[i].type = "leave" => Is(v, i + 1, "join")
  <2> SUFFICES ASSUME NEW i \in DOMAIN v, v[i].type = "leave" PROVE Is(v, i + 1, "join")
    OBVIOUS
  <2>1. CASE i \in DOMAIN u
    BY <1>8, <1>9, <2>1 DEF Leads
  <2>2. CASE i = n + 1
    BY <1>1, <1>4, <1>7, <2>2 DEF Is
  <2>3. CASE i = n + 2
    BY <1>1, <1>4, <2>3
  <2> QED
    BY <1>5, <2>1, <2>2, <2>3
<1>11. \A i \in DOMAIN v : v[i].type = "join" /\ i # 1 => Is(v, i - 1, "leave")
  <2> SUFFICES ASSUME NEW i \in DOMAIN v, v[i].type = "join", i # 1 PROVE Is(v, i - 1, "leave")
    OBVIOUS
  <2>1. CASE i \in DOMAIN u
    BY <1>8, <1>9, <2>1 DEF Leads
  <2>2. CASE i = n + 1
    BY <1>1, <1>4, <2>2
  <2>3. CASE i = n + 2
    BY <1>1, <1>4, <1>7, <2>3 DEF Is
  <2> QED
    BY <1>5, <2>1, <2>2, <2>3
<1>12. \A i \in DOMAIN v : v[i].type = "join" =>
         v[i].room = r \/ \E j \in DOMAIN v : j > i /\ v[j].type = "join"
  <2> SUFFICES ASSUME NEW i \in DOMAIN v, v[i].type = "join"
               PROVE  v[i].room = r \/ \E j \in DOMAIN v : j > i /\ v[j].type = "join"
    OBVIOUS
  <2>1. CASE i \in DOMAIN u
    <3>1. n + 2 > i
      BY <1>3, <1>6, <2>1
    <3> QED
      BY <1>1, <1>4, <1>7, <3>1
  <2>2. CASE i = n + 1
    BY <1>1, <1>4, <2>2
  <2>3. CASE i = n + 2
    BY <1>1, <1>4, <2>3
  <2> QED
    BY <1>5, <2>1, <2>2, <2>3
<1>13. \A i, j \in DOMAIN v : i < j /\ v[i].type = "join" /\ v[j].type = "leave" =>
         v[j].room = v[i].room \/ \E k \in DOMAIN v : i < k /\ k < j /\ v[k].type = "join"
  <2> SUFFICES ASSUME NEW i \in DOMAIN v, NEW j \in DOMAIN v, i < j,
                      v[i].type = "join", v[j].type = "leave"
               PROVE  v[j].room = v[i].room \/ \E k \in DOMAIN v : i < k /\ k < j /\ v[k].type = "join"
    OBVIOUS
  <2>0. i \in DOMAIN u
    <3>1. i # n + 1
      BY <1>1, <1>4
    <3>2. i # n + 2
      BY <1>3
    <3> QED
      BY <1>5, <3>1, <3>2
  <2>1. CASE j \in DOMAIN u
    <3>1. u[j].room = u[i].room \/ \E k \in DOMAIN u : i < k /\ k < j /\ u[k].type = "join"
      BY <1>8, <2>0, <2>1 DEF Leads
    <3> QED
      BY <1>6, <1>8, <2>0, <2>1, <3>1
  <2>2. CASE j = n + 1
    <3>1. u[i].room = c \/ \E k \in DOMAIN u : k > i /\ u[k].type = "join"
      BY <1>8, <2>0 DEF Leads
    <3>2. ASSUME NEW k \in DOMAIN u, k > i, u[k].type = "join"
          PROVE  k \in DOMAIN v /\ i < k /\ k < j /\ v[k].type = "join"
      <4>1. k \in Nat /\ i \in Nat /\ k < j
        BY <1>3, <1>6, <2>0, <2>2
      <4> QED
        BY <1>6, <1>8, <3>2, <4>1
    <3> QED
      BY <1>1, <1>4, <1>8, <2>0, <2>2, <3>1, <3>2
  <2>3. CASE j = n + 2
    BY <1>1, <1>4, <2>3
  <2> QED
    BY <1>5, <2>1, <2>2, <2>3
<1>14. \A j \in DOMAIN v : v[j].type = "leave" =>
         J \subseteq {v[j].room} \/ \E k \in DOMAIN v : k < j /\ v[k].type = "join"
  <2> SUFFICES ASSUME NEW j \in DOMAIN v, v[j].type = "leave"
               PROVE  J \subseteq {v[j].room} \/ \E k \in DOMAIN v : k < j /\ v[k].type = "join"
    OBVIOUS
  <2>1. CASE j \in DOMAIN u
    <3>1. J \subseteq {u[j].room} \/ \E k \in DOMAIN u : k < j /\ u[k].type = "join"
      BY <1>8, <2>1 DEF Leads
    <3> QED
      BY <1>6, <1>8, <2>1, <3>1
  <2>2. CASE j = n + 1
    <3>1. (\E k \in DOMAIN u : u[k].type = "join") \/ J \subseteq {c}
      BY DEF Leads
    <3> QED
      BY <1>1, <1>4, <1>6, <1>8, <2>2, <3>1
  <2>3. CASE j = n + 2
    BY <1>1, <1>4, <2>3
  <2> QED
    BY <1>5, <2>1, <2>2, <2>3
<1>15. Is(v, 1, "join") => J = {}
  <2>1. Is(u, 1, "join") => J = {}
    BY DEF Leads
  <2>2. ASSUME Is(v, 1, "join") PROVE Is(u, 1, "join")
    <3>1. 1 # n + 2 /\ (1 = n + 1 => v[1].type = "leave")
      BY <1>1, <1>4, <1>7
    <3> QED
      BY <1>5, <1>8, <2>2, <3>1 DEF Is
  <2> QED
    BY <2>1, <2>2
<1>16. \E k \in DOMAIN v : v[k].type = "join"
  BY <1>1, <1>4, <1>7
<1>17. Leads(v, J, r, b)
  BY <1>10, <1>11, <1>12, <1>13, <1>14, <1>15, <1>16 DEF Leads
<1>18. Joining(v)
  BY <1>16 DEF Joining
<1> QED
  BY <1>17, <1>18 DEF v, w, p, q

\* The client is evicted from d: if it was to stay there it is told.
LEMMA LeadsEvicted ==
  ASSUME NEW u, NEW J, NEW c, NEW d, NEW told \in BOOLEAN, NEW now \in BOOLEAN,
         Leads(u, J, c, told), told => now, d = c /\ d \in J => now \/ Joining(u)
  PROVE  Leads(u, J \ {d}, c, now)
<1>1. (\E k \in DOMAIN u : u[k].type = "join") \/ J \ {d} = {c} \/ (J \ {d} = {} /\ now)
  <2>1. (\E k \in DOMAIN u : u[k].type = "join") \/ J = {c} \/ (J = {} /\ told)
    BY DEF Leads
  <2>2. ASSUME J = {c} PROVE J \ {d} = {c} \/ (J \ {d} = {} /\ now) \/ Joining(u)
    BY <2>2
  <2> QED
    BY <2>1, <2>2 DEF Joining
<1>2. \A j \in DOMAIN u : J \subseteq {u[j].room} => J \ {d} \subseteq {u[j].room}
  OBVIOUS
<1>3. J = {} => J \ {d} = {}
  OBVIOUS
<1> QED
  BY <1>1, <1>2, <1>3 DEF Leads

\* Nothing is on its way: the client is where it should be.
LEMMA LeadsNowhere ==
  ASSUME NEW c, NEW told \in BOOLEAN
  PROVE  Leads(<<>>, {c}, c, told)
BY DEF Leads, Is

-----------------------------------------------------------------------------
(* Types are kept. *)

LEMMA FrameFields ==
  /\ \A m \in DownFrame : m.type = "deleted" => m.room \in Rooms
  /\ \A m \in UpFrame : m.type \in {"leave", "join", "send"} /\ m.room \in AllRooms
  /\ \A m \in UpFrame : m.type = "send" => m.text \in Texts
  /\ \A r \in AllRooms : [type |-> "leave", room |-> r] \in UpFrame /\ [type |-> "join", room |-> r] \in UpFrame
  /\ \A r \in AllRooms, t \in Texts : [type |-> "send", room |-> r, text |-> t] \in UpFrame
  /\ \A r \in AllRooms : [type |-> "missing", room |-> r] \in DownFrame
  /\ \A r \in Rooms : [type |-> "deleted", room |-> r] \in DownFrame
  /\ [type |-> "open"] \in DownFrame
  /\ \A t \in Task : t.type \in {"deleted", "evict"} /\ t.room \in Rooms /\ (t.type = "deleted" => t \in DownFrame)
  /\ \A r \in Rooms : [type |-> "deleted", room |-> r] \in Task /\ [type |-> "evict", room |-> r] \in Task
<1>1. \A m \in DownFrame : m.type = "deleted" => m.room \in Rooms
  BY DEF DownFrame
<1>2. \A m \in UpFrame : m.type \in {"leave", "join", "send"} /\ m.room \in AllRooms
  BY DEF UpFrame
<1>3. \A m \in UpFrame : m.type = "send" => m.text \in Texts
  BY DEF UpFrame
<1>4. \A r \in AllRooms : [type |-> "leave", room |-> r] \in UpFrame /\ [type |-> "join", room |-> r] \in UpFrame
  BY DEF UpFrame
<1>5. \A r \in AllRooms, t \in Texts : [type |-> "send", room |-> r, text |-> t] \in UpFrame
  BY DEF UpFrame
<1>6. \A r \in AllRooms : [type |-> "missing", room |-> r] \in DownFrame
  BY DEF DownFrame
<1>7. \A r \in Rooms : [type |-> "deleted", room |-> r] \in DownFrame
  BY DEF DownFrame
<1>8. [type |-> "open"] \in DownFrame
  BY DEF DownFrame
<1>9. \A t \in Task : t.type \in {"deleted", "evict"} /\ t.room \in Rooms
  BY DEF Task
<1>10. \A t \in Task : t.type = "deleted" => t \in DownFrame
  BY DEF Task, DownFrame
<1>11. \A r \in Rooms : [type |-> "deleted", room |-> r] \in Task /\ [type |-> "evict", room |-> r] \in Task
  BY DEF Task
<1> QED
  BY <1>1, <1>2, <1>3, <1>4, <1>5, <1>6, <1>7, <1>8, <1>9, <1>10, <1>11

LEMMA ShownTypes ==
  ASSUME NEW t \in Texts, NEW r \in AllRooms, name \in Names
  PROVE  Frame(r, t, "live") \in DownFrame /\ Frame(r, t, "history") \in DownFrame
<1>1. Views[name][t].live \in Look /\ Views[name][t].history \in Look
  BY DEF Look
<1>2. Views[name][t]["live"] = Views[name][t].live /\ Views[name][t]["history"] = Views[name][t].history
  OBVIOUS
<1>3. ASSUME NEW from \in {"live", "history"} PROVE Frame(r, t, from) \in DownFrame
  <2> DEFINE m == Frame(r, t, from)
  <2>1. /\ m.type = "message" /\ m.room = r /\ m.from = from /\ m.view = Views[name][t][from]
        /\ m.sent = [user |-> name, text |-> t]
    BY DEF Frame
  <2>2. m.view \in Look
    BY <1>1, <1>2, <2>1
  <2>3. Rendered(m)
    BY <2>1 DEF Rendered
  <2>4. m \in [type: {"message"}, room: AllRooms, from: {"live", "history"}, view: Look,
                sent: [user: Names, text: Texts]]
    BY <2>1, <2>2 DEF Frame
  <2> HIDE DEF m
  <2>5. m \in DownFrame
    BY <2>3, <2>4 DEF DownFrame
  <2> QED
    BY <2>5 DEF m
<1> QED
  BY <1>3

LEMMA HistoryTypes ==
  ASSUME NetTypes, ServerTypes, NEW r \in AllRooms
  PROVE  History(r) \in Seq(DownFrame)
<1>1. log[r] \in Seq(Texts) /\ name \in Names
  BY DEF ServerTypes
<1>2. Len(log[r]) \in Nat /\ DOMAIN log[r] = 1..Len(log[r]) /\ \A i \in DOMAIN log[r] : log[r][i] \in Texts
  BY <1>1
<1>3. \A i \in DOMAIN log[r] : Frame(r, log[r][i], "history") \in DownFrame
  BY <1>1, <1>2, ShownTypes
<1>4. History(r) = [i \in 1..Len(log[r]) |-> Frame(r, log[r][i], "history")]
  BY <1>2 DEF History
<1> QED
  BY <1>2, <1>3, <1>4

LEMMA JoinedTypes ==
  ASSUME NEW J \in [Sockets -> SUBSET AllRooms], NEW g \in Sockets, NEW S \in SUBSET AllRooms
  PROVE  [J EXCEPT ![g] = S] \in [Sockets -> SUBSET AllRooms]
OBVIOUS

LEMMA JoinTypes ==
  ASSUME Typed, NEW g \in Sockets, NEW r \in AllRooms, JoinRoom(g, r)
  PROVE  joined' \in [Sockets -> SUBSET AllRooms] /\ untold' \in [Sockets -> SUBSET AllRooms]
<1>1. joined \in [Sockets -> SUBSET AllRooms] /\ untold \in [Sockets -> SUBSET AllRooms]
  BY DEF Typed, NetTypes
<1>2. joined[g] \cup {r} \in SUBSET AllRooms /\ untold[g] \cup {r} \in SUBSET AllRooms
  BY <1>1
<1>3. joined' = [joined EXCEPT ![g] = @ \cup {r}] /\ (untold' = untold \/ untold' = [untold EXCEPT ![g] = @ \cup {r}])
  BY DEF JoinRoom
<1> QED
  BY <1>1, <1>2, <1>3, JoinedTypes

LEMMA MemberTypes == \A g \in Sockets : g \in Nat /\ g # 0 /\ g <= MaxSocket
BY PageAssumption DEF Sockets

\* One async function goes on.
LEMMA CallTypes ==
  ASSUME Typed, NEW k \in Calls, NEW c \in CallType, Known(c), call' = [call EXCEPT ![k] = c]
  PROVE  call' \in [Calls -> CallType] /\ CallsKnown'
<1>1. call \in [Calls -> CallType] /\ CallsKnown
  BY DEF Typed, PageTypes
<1>2. call' \in [Calls -> CallType] /\ \A j \in Calls : call'[j] = IF j = k THEN c ELSE call[j]
  BY <1>1
<1>3. \A j \in Calls : Known(call'[j])
  BY <1>1, <1>2 DEF CallsKnown
<1>4. CallsKnown'
  BY <1>3 DEF CallsKnown
<1> QED
  BY <1>2, <1>4

LEMMA CallFields ==
  ASSUME Typed, NEW k \in Calls
  PROVE  /\ call[k] \in CallType
         /\ call[k].fn \in {"none", "login", "enter", "exit"} /\ call[k].at \in {"idle", "fetch", "ok", "rooms"}
         /\ call[k].room \in AllRooms /\ call[k].tok \in 0..MaxToken
         /\ call[k].fn = "none" <=> call[k].at = "idle"
         /\ call[k].fn \in {"enter", "exit"} => call[k].room \in Rooms
         /\ call[k].fn = "login" /\ call[k].at \in {"ok", "rooms"} => call[k].tok # 0
<1>1. call[k] \in CallType
  BY DEF Typed, PageTypes
<1>2. Known(call[k])
  BY DEF Typed, CallsKnown
<1> QED
  BY <1>1, <1>2 DEF CallType, Known

LEMMA IdleCall == Idle \in CallType /\ Known(Idle) /\ Idle.fn = "none"
BY PageAssumption DEF Idle, CallType, Known, AllRooms

LEMMA SwitchTypes ==
  ASSUME Typed, NEW r \in AllRooms, SwitchRoom(r)
  PROVE  currentRoom' \in AllRooms /\ up' \in [Sockets -> Seq(UpFrame)]
<1>1. up \in [Sockets -> Seq(UpFrame)] /\ currentRoom \in AllRooms
  BY DEF Typed, NetTypes, PageTypes
<1> DEFINE w == <<[type |-> "leave", room |-> currentRoom], [type |-> "join", room |-> r]>>
<1>2. w \in Seq(UpFrame)
  <2> DEFINE p == [type |-> "leave", room |-> currentRoom]
  <2> DEFINE q == [type |-> "join", room |-> r]
  <2>1. p \in UpFrame /\ q \in UpFrame
    BY <1>1, FrameFields
  <2> HIDE DEF p, q
  <2>2. <<p, q>> \in Seq(UpFrame)
    BY <2>1
  <2> QED
    BY <2>2 DEF p, q
<1>3. up' = up \/ up' = [up EXCEPT ![ws] = @ \o w]
  BY DEF SwitchRoom
<1> HIDE DEF w
<1>4. ASSUME NEW g \in Sockets PROVE up[g] \o w \in Seq(UpFrame)
  BY <1>1, <1>2
<1>5. ASSUME up' = [up EXCEPT ![ws] = @ \o w] PROVE up' \in [Sockets -> Seq(UpFrame)]
  BY <1>1, <1>4, <1>5
<1> QED
  BY <1>1, <1>3, <1>5 DEF SwitchRoom

LEMMA ConnectTypes ==
  ASSUME Typed, ConnectWebSocket
  PROVE  /\ wsGeneration' \in 0..MaxSocket /\ ws' \in 0..wsGeneration'
         /\ readyState' \in [Sockets -> ReadyStates]
         /\ peer' \in [Sockets -> Peers]
         /\ url' \in [Sockets -> [tok: 0..MaxToken, room: AllRooms]]
<1>1. token \in 0..MaxToken /\ currentRoom \in AllRooms /\ wsGeneration \in 0..MaxSocket
  BY DEF Typed, PageTypes
<1>2. wsGeneration' \in 0..MaxSocket /\ ws' \in 0..wsGeneration'
  BY <1>1, PageAssumption DEF ConnectWebSocket
<1>3. readyState' \in [Sockets -> ReadyStates] /\ peer' \in [Sockets -> Peers]
  BY DEF ConnectWebSocket, Typed, NetTypes, ReadyStates, Peers
<1>4. url' \in [Sockets -> [tok: 0..MaxToken, room: AllRooms]]
  BY <1>1 DEF ConnectWebSocket, Typed, NetTypes
<1> QED
  BY <1>2, <1>3, <1>4

LEMMA DeleteTypes ==
  ASSUME Typed, NEW r \in Rooms, NEW own, DeleteRoom(r, own)
  PROVE  /\ member' \subseteq Rooms /\ log' \in [AllRooms -> Seq(Texts)]
         /\ down' \in [Sockets -> Seq(DownFrame)] /\ joined' \in [Sockets -> SUBSET AllRooms]
         /\ tasks' \in [Sockets -> Seq(Task)]
<1>0. <<>> \in Seq(Texts)
  OBVIOUS
<1>1. member' \subseteq Rooms /\ log' \in [AllRooms -> Seq(Texts)]
  BY <1>0 DEF DeleteRoom, Typed, ServerTypes
<1>2. joined' \in [Sockets -> SUBSET AllRooms]
  BY DEF DeleteRoom, Typed, NetTypes
<1>3. ASSUME NEW g \in Sockets PROVE Append(down[g], [type |-> "deleted", room |-> r]) \in Seq(DownFrame)
  <2>1. [type |-> "deleted", room |-> r] \in DownFrame /\ down[g] \in Seq(DownFrame)
    BY FrameFields DEF Typed, NetTypes
  <2> QED
    BY <2>1
<1>4. down' \in [Sockets -> Seq(DownFrame)]
  BY <1>3 DEF DeleteRoom, Typed, NetTypes
<1> DEFINE w == <<[type |-> "deleted", room |-> r], [type |-> "evict", room |-> r]>>
<1>5. w \in Seq(Task)
  <2> DEFINE p == [type |-> "deleted", room |-> r]
  <2> DEFINE q == [type |-> "evict", room |-> r]
  <2>1. p \in Task /\ q \in Task
    BY FrameFields
  <2> HIDE DEF p, q
  <2>2. <<p, q>> \in Seq(Task)
    BY <2>1
  <2> QED
    BY <2>2 DEF p, q
<1>6. tasks' = [h \in Sockets |-> IF h \in Served \ own THEN tasks[h] \o w ELSE tasks[h]]
  BY DEF DeleteRoom
<1> HIDE DEF w
<1>7. ASSUME NEW g \in Sockets PROVE tasks[g] \in Seq(Task) /\ tasks[g] \o w \in Seq(Task)
  BY <1>5 DEF Typed, NetTypes
<1>8. tasks' \in [Sockets -> Seq(Task)]
  BY <1>6, <1>7
<1> QED
  BY <1>1, <1>2, <1>4, <1>8

LEMMA GoneTypes ==
  ASSUME Typed, NEW g \in Sockets, Gone(g)
  PROVE  NetTypes'
<1>0. <<>> \in Seq(UpFrame) /\ <<>> \in Seq(DownFrame) /\ <<>> \in Seq(Task)
  OBVIOUS
<1>1. peer' \in [Sockets -> Peers] /\ joined' \in [Sockets -> SUBSET AllRooms]
  BY DEF Gone, Typed, NetTypes, Peers
<1>2. up' \in [Sockets -> Seq(UpFrame)] /\ down' \in [Sockets -> Seq(DownFrame)] /\ tasks' \in [Sockets -> Seq(Task)]
  BY <1>0 DEF Gone, Typed, NetTypes
<1> QED
  BY <1>1, <1>2 DEF Gone, Typed, NetTypes, seenVars

LEMMA CloseTypes ==
  ASSUME Typed, CloseSocket
  PROVE  ws' = 0 /\ readyState' \in [Sockets -> ReadyStates]
<1>1. "closing" \in ReadyStates /\ readyState \in [Sockets -> ReadyStates]
  BY DEF Typed, NetTypes, ReadyStates
<1>2. readyState' = readyState \/ readyState' = [readyState EXCEPT ![ws] = "closing"]
  BY DEF CloseSocket
<1> QED
  BY <1>1, <1>2 DEF CloseSocket

LEMMA TimerTypes ==
  ASSUME Typed, ClearTimer
  PROVE  timers' \in Nat /\ reconnTimer' \in BOOLEAN
<1>1. timers \in Nat
  BY DEF Typed, PageTypes
<1>2. timers' = timers \/ (timers > 0 /\ timers' = timers - 1)
  BY DEF ClearTimer
<1>3. reconnTimer' \in BOOLEAN
  BY DEF ClearTimer
<1>4. timers' \in Nat
  BY <1>1, <1>2
<1> QED
  BY <1>3, <1>4

\* The function k stays itself and goes on to a.
LEMMA GoesOn ==
  ASSUME Typed, NEW k \in Calls, NEW a \in {"ok", "rooms"}, call' = [call EXCEPT ![k].at = a],
         call[k].fn # "none", call[k].fn = "login" => call[k].tok # 0
  PROVE  call' \in [Calls -> CallType] /\ CallsKnown'
<1> DEFINE c == [call[k] EXCEPT !.at = a]
<1>1. c \in CallType /\ Known(c)
  <2>1. call[k] \in CallType
    BY CallFields
  <2>2. c \in CallType
    BY <2>1 DEF CallType
  <2>3. c.fn = call[k].fn /\ c.at = a /\ c.room = call[k].room /\ c.tok = call[k].tok
    BY <2>1 DEF CallType
  <2> HIDE DEF c
  <2>4. Known(c)
    BY <2>3, CallFields DEF Known
  <2> QED
    BY <2>2, <2>4
<1>2. call' = [call EXCEPT ![k] = c]
  OBVIOUS
<1> HIDE DEF c
<1> QED
  BY <1>1, <1>2, CallTypes

LEMMA EndsCall ==
  ASSUME Typed, NEW k \in Calls, call' = [call EXCEPT ![k] = Idle]
  PROVE  call' \in [Calls -> CallType] /\ CallsKnown'
BY IdleCall, CallTypes

LEMMA SameTypes ==
  ASSUME Typed
  PROVE  /\ UNCHANGED call => CallsKnown'
         /\ UNCHANGED <<netVars, peer, url, joined, tasks, untold>> => NetTypes'
         /\ UNCHANGED <<valid, issued, member, log, name>> => ServerTypes'
<1>1. UNCHANGED call => CallsKnown'
  BY DEF Typed, CallsKnown
<1>2. UNCHANGED <<netVars, peer, url, joined, tasks, untold>> => NetTypes'
  BY DEF Typed, NetTypes, netVars
<1>3. UNCHANGED <<valid, issued, member, log, name>> => ServerTypes'
  BY DEF Typed, ServerTypes
<1> QED
  BY <1>1, <1>2, <1>3

\* A step of the program keeps the types, whatever it does.
LEMMA TypesKept ==
  ASSUME Typed, [Next]_vars
  PROVE  Typed'
<1> USE DEF pageVars, timerVars, netVars, serverVars, boundVars, seenVars
<1>0. PageTypes /\ NetTypes /\ ServerTypes /\ CallsKnown
  BY DEF Typed
<1>1. ASSUME NEW k \in Calls, Login(k) PROVE Typed'
  <2> DEFINE c == [Idle EXCEPT !.fn = "login", !.at = "fetch"]
  <2>1. c \in CallType /\ Known(c)
    <3>1. c \in CallType
      BY IdleCall DEF CallType
    <3>2. c.fn = "login" /\ c.at = "fetch"
      BY IdleCall DEF CallType
    <3> HIDE DEF c
    <3> QED
      BY <3>1, <3>2 DEF Known
  <2>2. call' = [call EXCEPT ![k] = c]
    BY <1>1 DEF Login
  <2> HIDE DEF c
  <2>3. call' \in [Calls -> CallType] /\ CallsKnown'
    BY <2>1, <2>2, CallTypes
  <2>4. NetTypes' /\ ServerTypes'
    BY <1>1, SameTypes DEF Login
  <2>5. PageTypes'
    BY <1>0, <1>1, <2>3 DEF Login, PageTypes
  <2> QED
    BY <2>3, <2>4, <2>5 DEF Typed
<1>2. ASSUME Logout PROVE Typed'
  <2>1. CloseSocket /\ ClearTimer
    BY <1>2 DEF Logout
  <2>2. ws' = 0 /\ readyState' \in [Sockets -> ReadyStates] /\ timers' \in Nat /\ reconnTimer' \in BOOLEAN
    BY <2>1, CloseTypes, TimerTypes
  <2>3. CallsKnown' /\ ServerTypes'
    BY <1>2, SameTypes DEF Logout
  <2>4. NetTypes'
    BY <1>0, <1>2, <2>2 DEF Logout, NetTypes
  <2>5. token' \in 0..MaxToken /\ currentRoom' \in AllRooms /\ wsGeneration' \in 0..MaxSocket
    BY <1>0, <1>2, PageAssumption DEF Logout, PageTypes, AllRooms
  <2>6. PageTypes'
    BY <1>0, <1>2, <2>2, <2>5 DEF Logout, PageTypes
  <2> QED
    BY <2>3, <2>4, <2>6 DEF Typed
<1>3. ASSUME NEW r \in AllRooms, ClickRoom(r) PROVE Typed'
  <2>1. currentRoom' \in AllRooms /\ up' \in [Sockets -> Seq(UpFrame)]
    BY <1>3, SwitchTypes DEF ClickRoom
  <2>2. CallsKnown' /\ ServerTypes'
    BY <1>3, SameTypes DEF ClickRoom
  <2>3. NetTypes'
    BY <1>0, <1>3, <2>1 DEF ClickRoom, NetTypes
  <2>4. PageTypes'
    BY <1>0, <1>3, <2>1 DEF ClickRoom, PageTypes
  <2> QED
    BY <2>2, <2>3, <2>4 DEF Typed
<1>4. ASSUME NEW k \in Calls, NEW fn \in {"enter", "exit"}, NEW r \in Rooms, Start(k, fn, r) PROVE Typed'
  <2> DEFINE c == [fn |-> fn, at |-> "fetch", room |-> r, tok |-> token]
  <2>1. c \in CallType /\ Known(c)
    BY <1>0 DEF CallType, Known, AllRooms, PageTypes
  <2>2. call' = [call EXCEPT ![k] = c]
    BY <1>4 DEF Start
  <2> HIDE DEF c
  <2>3. call' \in [Calls -> CallType] /\ CallsKnown'
    BY <2>1, <2>2, CallTypes
  <2>4. NetTypes' /\ ServerTypes'
    BY <1>4, SameTypes DEF Start
  <2>5. PageTypes'
    BY <1>0, <1>4, <2>3 DEF Start, PageTypes
  <2> QED
    BY <2>3, <2>4, <2>5 DEF Typed
<1>5. ASSUME NEW t \in Texts, Send(t) PROVE Typed'
  <2> DEFINE m == [type |-> "send", room |-> currentRoom, text |-> t]
  <2>1. m \in UpFrame
    BY <1>0, FrameFields DEF PageTypes
  <2>2. up' = [up EXCEPT ![ws] = Append(@, m)]
    BY <1>5 DEF Send
  <2> HIDE DEF m
  <2>3. \A g \in Sockets : Append(up[g], m) \in Seq(UpFrame)
    BY <1>0, <2>1 DEF NetTypes
  <2>4. up' \in [Sockets -> Seq(UpFrame)]
    BY <1>0, <2>2, <2>3 DEF NetTypes
  <2>5. CallsKnown' /\ ServerTypes'
    BY <1>5, SameTypes DEF Send
  <2>6. NetTypes'
    BY <1>0, <1>5, <2>4 DEF Send, NetTypes
  <2>7. PageTypes'
    BY <1>0, <1>5 DEF Send, PageTypes
  <2> QED
    BY <2>5, <2>6, <2>7 DEF Typed
<1>6. ASSUME NEW k \in Calls, LoginReturns(k) PROVE Typed'
  <2>1. CloseSocket /\ ClearTimer
    BY <1>6 DEF LoginReturns
  <2>2. ws' = 0 /\ readyState' \in [Sockets -> ReadyStates] /\ timers' \in Nat /\ reconnTimer' \in BOOLEAN
    BY <2>1, CloseTypes, TimerTypes
  <2>3. call[k].fn = "login" /\ call[k].at = "ok" /\ call' = [call EXCEPT ![k].at = "rooms"]
    BY <1>6 DEF LoginReturns
  <2>4. call[k].tok # 0 /\ call[k].tok \in 0..MaxToken
    BY <2>3, CallFields
  <2>5. call' \in [Calls -> CallType] /\ CallsKnown'
    BY <2>3, <2>4, GoesOn
  <2>6. ServerTypes'
    BY <1>6, SameTypes DEF LoginReturns
  <2>7. NetTypes'
    BY <1>0, <1>6, <2>2 DEF LoginReturns, NetTypes
  <2>8. token' \in 0..MaxToken /\ currentRoom' \in AllRooms
    BY <1>6, <2>4 DEF LoginReturns, AllRooms
  <2>9. wsGeneration' \in 0..MaxSocket
    BY <1>0, <1>6, PageAssumption DEF LoginReturns, PageTypes
  <2>10. PageTypes'
    BY <1>0, <1>6, <2>2, <2>5, <2>8, <2>9 DEF LoginReturns, PageTypes
  <2> QED
    BY <2>5, <2>6, <2>7, <2>10 DEF Typed
<1>7. ASSUME NEW k \in Calls, CallReturns(k) PROVE Typed'
  <2>1. call[k].fn # "login" /\ call[k].at = "ok" /\ call' = [call EXCEPT ![k].at = "rooms"]
    BY <1>7 DEF CallReturns
  <2>2. call[k].fn # "none"
    BY <2>1, CallFields
  <2>3. call' \in [Calls -> CallType] /\ CallsKnown'
    BY <2>1, <2>2, GoesOn
  <2>4. SwitchRoom(General) \/ UNCHANGED <<currentRoom, bubbles, up, missed>>
    BY <1>7 DEF CallReturns
  <2>5. currentRoom' \in AllRooms /\ up' \in [Sockets -> Seq(UpFrame)]
    <3>1. General \in AllRooms
      BY DEF AllRooms
    <3> QED
      BY <1>0, <2>4, <3>1, SwitchTypes DEF NetTypes, PageTypes
  <2>6. ServerTypes'
    BY <1>7, SameTypes DEF CallReturns
  <2>7. NetTypes'
    BY <1>0, <1>7, <2>5 DEF CallReturns, NetTypes
  <2>8. PageTypes'
    BY <1>0, <1>7, <2>3, <2>5 DEF CallReturns, PageTypes
  <2> QED
    BY <2>3, <2>6, <2>7, <2>8 DEF Typed
<1>8. ASSUME NEW k \in Calls, LoginConnects(k) PROVE Typed'
  <2>1. ConnectWebSocket /\ call' = [call EXCEPT ![k] = Idle]
    BY <1>8 DEF LoginConnects
  <2>2. call' \in [Calls -> CallType] /\ CallsKnown'
    BY <2>1, EndsCall
  <2>3. /\ wsGeneration' \in 0..MaxSocket /\ ws' \in 0..wsGeneration'
        /\ readyState' \in [Sockets -> ReadyStates]
        /\ peer' \in [Sockets -> Peers]
        /\ url' \in [Sockets -> [tok: 0..MaxToken, room: AllRooms]]
    BY <2>1, ConnectTypes
  <2>4. ServerTypes'
    BY <1>8, SameTypes DEF LoginConnects
  <2>5. NetTypes'
    BY <1>0, <1>8, <2>3 DEF LoginConnects, NetTypes
  <2>6. PageTypes'
    BY <1>0, <1>8, <2>2, <2>3 DEF LoginConnects, PageTypes
  <2> QED
    BY <2>2, <2>4, <2>5, <2>6 DEF Typed
<1>9. ASSUME NEW k \in Calls, CallEnds(k) PROVE Typed'
  <2>1. call' = [call EXCEPT ![k] = Idle]
    BY <1>9 DEF CallEnds
  <2>2. call' \in [Calls -> CallType] /\ CallsKnown'
    BY <2>1, EndsCall
  <2>3. SwitchRoom(call[k].room) \/ UNCHANGED <<currentRoom, bubbles, up, missed>>
    BY <1>9 DEF CallEnds
  <2>4. currentRoom' \in AllRooms /\ up' \in [Sockets -> Seq(UpFrame)]
    <3>1. call[k].room \in AllRooms
      BY CallFields
    <3> QED
      BY <1>0, <2>3, <3>1, SwitchTypes DEF NetTypes, PageTypes
  <2>5. ServerTypes'
    BY <1>9, SameTypes DEF CallEnds
  <2>6. NetTypes'
    BY <1>0, <1>9, <2>4 DEF CallEnds, NetTypes
  <2>7. PageTypes'
    BY <1>0, <1>9, <2>2, <2>4 DEF CallEnds, PageTypes
  <2> QED
    BY <2>2, <2>5, <2>6, <2>7 DEF Typed
<1>10. ASSUME NEW g \in Sockets, Receive(g) PROVE Typed'
  <2> DEFINE m == Head(down[g])
  <2>1. down[g] \in Seq(DownFrame) /\ down[g] # <<>>
    BY <1>0, <1>10 DEF Receive, NetTypes
  <2>2. Tail(down[g]) \in Seq(DownFrame)
    BY <2>1, TailOf
  <2>3. down' \in [Sockets -> Seq(DownFrame)]
    BY <1>0, <1>10, <2>2 DEF Receive, NetTypes
  <2>4. readyState' \in [Sockets -> ReadyStates]
    <3>1. readyState' = readyState \/ readyState' = [readyState EXCEPT ![g] = "open"]
      BY <1>10 DEF Receive
    <3> QED
      BY <1>0, <3>1 DEF NetTypes, ReadyStates
  <2>5. SwitchRoom(General) \/ UNCHANGED <<currentRoom, up>>
    BY <1>10 DEF Receive
  <2>6. currentRoom' \in AllRooms /\ up' \in [Sockets -> Seq(UpFrame)]
    <3>1. General \in AllRooms
      BY DEF AllRooms
    <3> QED
      BY <1>0, <2>5, <3>1, SwitchTypes DEF NetTypes, PageTypes
  <2>7. CallsKnown' /\ ServerTypes'
    BY <1>10, SameTypes DEF Receive
  <2>8. NetTypes'
    BY <1>0, <1>10, <2>3, <2>4, <2>6 DEF Receive, NetTypes
  <2>9. PageTypes'
    BY <1>0, <1>10, <2>6 DEF Receive, PageTypes
  <2> QED
    BY <2>7, <2>8, <2>9 DEF Typed
<1>11. ASSUME NEW g \in Sockets, OnClose(g) PROVE Typed'
  <2>1. readyState' \in [Sockets -> ReadyStates]
    BY <1>0, <1>11 DEF OnClose, NetTypes, ReadyStates
  <2>2. ws' \in 0..wsGeneration /\ timers' \in Nat /\ reconnTimer' \in BOOLEAN
    <3>1. CASE Stale(g)
      BY <1>0, <1>11, <3>1 DEF OnClose, PageTypes
    <3>2. CASE ~Stale(g)
      <4>1. ws' = 0 /\ (timers' = timers \/ timers' = timers + 1)
        BY <1>11, <3>2 DEF OnClose
      <4>2. reconnTimer' \in BOOLEAN
        BY <1>11, <3>2 DEF OnClose
      <4> QED
        BY <1>0, <4>1, <4>2 DEF PageTypes
    <3> QED
      BY <3>1, <3>2
  <2>3. CallsKnown' /\ ServerTypes'
    BY <1>11, SameTypes DEF OnClose
  <2>4. NetTypes'
    BY <1>0, <1>11, <2>1 DEF OnClose, NetTypes
  <2>5. PageTypes'
    BY <1>0, <1>11, <2>2 DEF OnClose, PageTypes
  <2> QED
    BY <2>3, <2>4, <2>5 DEF Typed
<1>12. ASSUME TimerFires PROVE Typed'
  <2>1. ConnectWebSocket
    BY <1>12 DEF TimerFires
  <2>2. /\ wsGeneration' \in 0..MaxSocket /\ ws' \in 0..wsGeneration'
        /\ readyState' \in [Sockets -> ReadyStates]
        /\ peer' \in [Sockets -> Peers]
        /\ url' \in [Sockets -> [tok: 0..MaxToken, room: AllRooms]]
    BY <2>1, ConnectTypes
  <2>3. CallsKnown' /\ ServerTypes'
    BY <1>12, SameTypes DEF TimerFires
  <2>4. NetTypes'
    BY <1>0, <1>12, <2>2 DEF TimerFires, NetTypes
  <2>5. timers' \in Nat
    BY <1>0, <1>12 DEF TimerFires, PageTypes
  <2>6. PageTypes'
    BY <1>0, <1>12, <2>2, <2>5 DEF TimerFires, PageTypes
  <2> QED
    BY <2>3, <2>4, <2>6 DEF Typed
<1>13. ASSUME NEW g \in Sockets, Upgrade(g) PROVE Typed'
  <2>1. url[g].room \in AllRooms
    BY <1>0 DEF NetTypes
  <2>2. [type |-> "open"] \in DownFrame
    BY FrameFields
  <2>3. <<[type |-> "open"]>> \in Seq(DownFrame)
    BY <2>2
  <2>4. History(url[g].room) \in Seq(DownFrame)
    BY <1>0, <2>1, HistoryTypes
  <2>5. <<[type |-> "open"]>> \o History(url[g].room) \in Seq(DownFrame)
    BY <2>3, <2>4, ConcatOf
  <2>6. down' = [down EXCEPT ![g] = <<[type |-> "open"]>> \o History(url[g].room)]
    BY <1>13 DEF Upgrade
  <2>7. down' \in [Sockets -> Seq(DownFrame)]
    BY <1>0, <2>5, <2>6 DEF NetTypes
  <2>8. joined' \in [Sockets -> SUBSET AllRooms] /\ untold' \in [Sockets -> SUBSET AllRooms]
    BY <1>13, <2>1, JoinTypes DEF Upgrade
  <2>9. peer' \in [Sockets -> Peers]
    BY <1>0, <1>13 DEF Upgrade, NetTypes, Peers
  <2>10. CallsKnown' /\ ServerTypes'
    BY <1>13, SameTypes DEF Upgrade
  <2>11. NetTypes'
    BY <1>0, <1>13, <2>7, <2>8, <2>9 DEF Upgrade, NetTypes
  <2>12. PageTypes'
    BY <1>0, <1>13 DEF Upgrade, PageTypes
  <2> QED
    BY <2>10, <2>11, <2>12 DEF Typed
<1>14. ASSUME NEW g \in Sockets, Serve(g) PROVE Typed'
  <2> DEFINE m == Head(up[g])
  <2>1. up[g] \in Seq(UpFrame) /\ up[g] # <<>>
    BY <1>0, <1>14 DEF Serve, NetTypes
  <2>2. Tail(up[g]) \in Seq(UpFrame) /\ m \in UpFrame
    BY <2>1, TailOf
  <2>3. m.room \in AllRooms /\ (m.type = "send" => m.text \in Texts)
    BY <2>2, FrameFields
  <2>4. up' \in [Sockets -> Seq(UpFrame)]
    BY <1>0, <1>14, <2>2 DEF Serve, NetTypes
  <2> HIDE DEF m
  <2>5. joined' \in [Sockets -> SUBSET AllRooms] /\ untold' \in [Sockets -> SUBSET AllRooms]
    <3>0. \/ UNCHANGED <<joined, untold>>
          \/ JoinRoom(g, m.room)
          \/ joined' = [joined EXCEPT ![g] = @ \ {m.room}] /\ untold' = [untold EXCEPT ![g] = @ \ {m.room}]
          \/ joined' = [joined EXCEPT ![g] = @ \ {m.room}] /\ untold' = [untold EXCEPT ![g] = @ \cup {m.room}]
      BY <1>14 DEF Serve, m
    <3>1. joined \in [Sockets -> SUBSET AllRooms] /\ untold \in [Sockets -> SUBSET AllRooms]
      BY <1>0 DEF NetTypes
    <3>2. /\ joined[g] \ {m.room} \in SUBSET AllRooms /\ untold[g] \ {m.room} \in SUBSET AllRooms
          /\ untold[g] \cup {m.room} \in SUBSET AllRooms
      BY <2>3, <3>1
    <3>3. /\ [joined EXCEPT ![g] = @ \ {m.room}] \in [Sockets -> SUBSET AllRooms]
          /\ [untold EXCEPT ![g] = @ \ {m.room}] \in [Sockets -> SUBSET AllRooms]
          /\ [untold EXCEPT ![g] = @ \cup {m.room}] \in [Sockets -> SUBSET AllRooms]
      BY <3>1, <3>2, JoinedTypes
    <3>4. CASE JoinRoom(g, m.room)
      BY <2>3, <3>4, JoinTypes
    <3> QED
      BY <3>0, <3>1, <3>3, <3>4
  <2>6. log' \in [AllRooms -> Seq(Texts)]
    <3>1. log' = log \/ (m.type = "send" /\ log' = [log EXCEPT ![m.room] = Append(@, m.text)])
      BY <1>14 DEF Serve, m
    <3>2. log \in [AllRooms -> Seq(Texts)]
      BY <1>0 DEF ServerTypes
    <3>3. ASSUME m.type = "send" PROVE [log EXCEPT ![m.room] = Append(@, m.text)] \in [AllRooms -> Seq(Texts)]
      <4>1. \A r \in AllRooms : Append(log[r], m.text) \in Seq(Texts)
        BY <2>3, <3>2, <3>3
      <4> QED
        BY <3>2, <4>1
    <3> QED
      BY <3>1, <3>2, <3>3
  <2>7. down' \in [Sockets -> Seq(DownFrame)]
    <3>1. \A h \in Sockets : down[h] \in Seq(DownFrame)
      BY <1>0 DEF NetTypes
    <3>2. CASE down' = down
      BY <1>0, <3>2 DEF NetTypes
    <3>3. CASE down' = [down EXCEPT ![g] = @ \o History(m.room)]
      <4>1. down[g] \o History(m.room) \in Seq(DownFrame)
        <5>1. History(m.room) \in Seq(DownFrame)
          BY <1>0, <2>3, HistoryTypes
        <5> QED
          BY <3>1, <5>1, ConcatOf
      <4> QED
        BY <1>0, <3>3, <4>1 DEF NetTypes
    <3>4. CASE /\ m.type = "send"
               /\ down' = [h \in Sockets |-> IF m.room \in joined[h]
                      THEN Append(down[h], Frame(m.room, m.text, "live")) ELSE down[h]]
      <4> DEFINE f == Frame(m.room, m.text, "live")
      <4>1. f \in DownFrame
        BY <1>0, <2>3, <3>4, ShownTypes DEF ServerTypes
      <4>2. \A h \in Sockets : down'[h] = Append(down[h], f) \/ down'[h] = down[h]
        BY <3>4
      <4>3. down' = [h \in Sockets |-> down'[h]]
        BY <3>4
      <4> HIDE DEF f
      <4>4. ASSUME NEW h \in Sockets PROVE down'[h] \in Seq(DownFrame)
        <5>1. down[h] \in Seq(DownFrame) /\ Append(down[h], f) \in Seq(DownFrame)
          BY <3>1, <4>1, AppendOf
        <5> QED
          BY <4>2, <5>1
      <4> QED
        BY <4>3, <4>4
    <3>5. CASE down' = [down EXCEPT ![g] = Append(@, [type |-> "missing", room |-> m.room])]
      <4>1. [type |-> "missing", room |-> m.room] \in DownFrame
        BY <2>3, FrameFields
      <4>2. Append(down[g], [type |-> "missing", room |-> m.room]) \in Seq(DownFrame)
        BY <3>1, <4>1
      <4> QED
        BY <1>0, <3>5, <4>2 DEF NetTypes
    <3> QED
      BY <1>14, <3>2, <3>3, <3>4, <3>5 DEF Serve, m
  <2>8. CallsKnown'
    BY <1>14, SameTypes DEF Serve
  <2>9. NetTypes'
    BY <1>0, <1>14, <2>4, <2>5, <2>7 DEF Serve, NetTypes
  <2>10. ServerTypes'
    BY <1>0, <1>14, <2>6 DEF Serve, ServerTypes
  <2>11. PageTypes'
    BY <1>0, <1>14 DEF Serve, PageTypes
  <2> QED
    BY <2>8, <2>9, <2>10, <2>11 DEF Typed
<1>15. ASSUME NEW g \in Sockets, ServerEnds(g) \/ Lose(g) PROVE Typed'
  <2>1. Gone(g)
    BY <1>15 DEF ServerEnds, Lose
  <2>2. NetTypes'
    BY <2>1, GoneTypes
  <2>3. CallsKnown' /\ ServerTypes'
    BY <2>1, SameTypes DEF Gone
  <2>4. PageTypes'
    BY <1>0, <2>1 DEF Gone, PageTypes
  <2> QED
    BY <2>2, <2>3, <2>4 DEF Typed
<1>16. ASSUME NEW k \in Calls, Answer(k) PROVE Typed'
  <2>1. call[k].at = "fetch"
    BY <1>16 DEF Answer
  <2>2. call[k].fn # "none"
    BY <2>1, CallFields
  <2>3. CASE call[k].fn = "login"
    <3> DEFINE c == [call[k] EXCEPT !.at = "ok", !.tok = issued + 1]
    <3>1. call' = [call EXCEPT ![k] = c]
      BY <1>16, <2>3 DEF Answer
    <3>2. issued + 1 \in 0..MaxToken /\ issued + 1 # 0 /\ issued' \in 0..MaxToken
      BY <1>0, <1>16, <2>3, PageAssumption DEF Answer, PageTypes
    <3>3. c \in CallType /\ Known(c)
      <4>1. call[k] \in CallType
        BY CallFields
      <4>2. c \in CallType
        BY <3>2, <4>1 DEF CallType
      <4>3. c.fn = call[k].fn /\ c.at = "ok" /\ c.tok = issued + 1
        BY <4>1 DEF CallType
      <4> HIDE DEF c
      <4> QED
        BY <2>3, <3>2, <4>2, <4>3 DEF Known
    <3> HIDE DEF c
    <3>4. call' \in [Calls -> CallType] /\ CallsKnown'
      BY <3>1, <3>3, CallTypes
    <3>5. NetTypes'
      BY <1>0, <1>16, <2>3 DEF Answer, NetTypes
    <3>6. valid' \subseteq 1..issued'
      BY <1>0, <1>16, <2>3 DEF Answer, ServerTypes, PageTypes
    <3>7. ServerTypes'
      BY <1>0, <1>16, <2>3, <3>6 DEF Answer, ServerTypes
    <3>8. PageTypes'
      BY <1>0, <1>16, <3>2, <3>4 DEF Answer, PageTypes
    <3> QED
      BY <3>4, <3>5, <3>7, <3>8 DEF Typed
  <2>4. CASE call[k].fn # "login"
    <3>1. call[k].room \in Rooms
      BY <2>2, <2>4, CallFields
    <3>2. call' = [call EXCEPT ![k].at = "ok"]
      BY <1>16, <2>4 DEF Answer
    <3>3. call' \in [Calls -> CallType] /\ CallsKnown'
      BY <2>2, <2>4, <3>2, GoesOn
    <3>4. \/ member' = member \cup {call[k].room} /\ UNCHANGED <<down, joined, tasks, log>>
          \/ member' = member \ {call[k].room} /\ UNCHANGED <<down, joined, tasks, log>>
          \/ \E own \in SUBSET Served : DeleteRoom(call[k].room, own)
      BY <1>16, <2>4 DEF Answer
    <3>5. /\ member' \subseteq Rooms /\ log' \in [AllRooms -> Seq(Texts)]
          /\ down' \in [Sockets -> Seq(DownFrame)] /\ joined' \in [Sockets -> SUBSET AllRooms]
          /\ tasks' \in [Sockets -> Seq(Task)]
      <4>1. CASE /\ UNCHANGED <<down, joined, tasks, log>>
                 /\ member' = member \cup {call[k].room} \/ member' = member \ {call[k].room}
        BY <1>0, <3>1, <4>1 DEF NetTypes, ServerTypes
      <4>2. CASE \E own \in SUBSET Served : DeleteRoom(call[k].room, own)
        BY <3>1, <4>2, DeleteTypes
      <4> QED
        BY <3>4, <4>1, <4>2
    <3>6. NetTypes'
      BY <1>0, <1>16, <3>5 DEF Answer, NetTypes
    <3>7. ServerTypes'
      BY <1>0, <1>16, <2>4, <3>5 DEF Answer, ServerTypes
    <3>8. PageTypes'
      BY <1>0, <1>16, <2>4, <3>3 DEF Answer, PageTypes
    <3> QED
      BY <3>3, <3>6, <3>7, <3>8 DEF Typed
  <2> QED
    BY <2>3, <2>4
<1>17. ASSUME NEW r \in Rooms, OwnerDeletes(r) PROVE Typed'
  <2>1. /\ member' \subseteq Rooms /\ log' \in [AllRooms -> Seq(Texts)]
        /\ down' \in [Sockets -> Seq(DownFrame)] /\ joined' \in [Sockets -> SUBSET AllRooms]
        /\ tasks' \in [Sockets -> Seq(Task)]
    BY <1>17, DeleteTypes DEF OwnerDeletes
  <2>2. CallsKnown'
    BY <1>17, SameTypes DEF OwnerDeletes
  <2>3. NetTypes'
    BY <1>0, <1>17, <2>1 DEF OwnerDeletes, NetTypes
  <2>4. ServerTypes'
    BY <1>0, <1>17, <2>1 DEF OwnerDeletes, ServerTypes
  <2>5. PageTypes'
    BY <1>0, <1>17 DEF OwnerDeletes, PageTypes
  <2> QED
    BY <2>2, <2>3, <2>4, <2>5 DEF Typed
<1>18. ASSUME NEW t \in 1..MaxToken, TokenEnds(t) PROVE Typed'
  <2>1. CallsKnown' /\ NetTypes'
    BY <1>18, SameTypes DEF TokenEnds
  <2>2. ServerTypes'
    BY <1>0, <1>18 DEF TokenEnds, ServerTypes
  <2>3. PageTypes'
    BY <1>0, <1>18 DEF TokenEnds, PageTypes
  <2> QED
    BY <2>1, <2>2, <2>3 DEF Typed
<1>19. ASSUME NEW k \in Calls, CallFails(k) PROVE Typed'
  <2>1. call' \in [Calls -> CallType] /\ CallsKnown'
    BY <1>19, EndsCall DEF CallFails
  <2>2. NetTypes' /\ ServerTypes'
    BY <1>19, SameTypes DEF CallFails
  <2>3. PageTypes'
    BY <1>0, <1>19, <2>1 DEF CallFails, PageTypes
  <2> QED
    BY <2>1, <2>2, <2>3 DEF Typed
<1>21. ASSUME NEW g \in Sockets, Admit(g) PROVE Typed'
  <2>1. peer' \in [Sockets -> Peers]
    <3>1. peer' = [peer EXCEPT ![g] = "admitted"] \/ peer' = [peer EXCEPT ![g] = "gone"]
      BY <1>21 DEF Admit
    <3> QED
      BY <1>0, <3>1 DEF NetTypes, Peers
  <2>2. CallsKnown' /\ ServerTypes'
    BY <1>21, SameTypes DEF Admit
  <2>3. NetTypes'
    BY <1>0, <1>21, <2>1 DEF Admit, NetTypes
  <2>4. PageTypes'
    BY <1>0, <1>21 DEF Admit, PageTypes
  <2> QED
    BY <2>2, <2>3, <2>4 DEF Typed
<1>22. ASSUME NEW g \in Sockets, Resume(g) PROVE Typed'
  <2> DEFINE t == Head(tasks[g])
  <2>1. tasks[g] \in Seq(Task) /\ tasks[g] # <<>> /\ down[g] \in Seq(DownFrame)
    BY <1>0, <1>22 DEF Resume, NetTypes
  <2>2. Tail(tasks[g]) \in Seq(Task) /\ t \in Task
    BY <2>1, TailOf
  <2>3. tasks' \in [Sockets -> Seq(Task)]
    BY <1>0, <1>22, <2>2 DEF Resume, NetTypes
  <2> HIDE DEF t
  <2>4. \/ t.type = "deleted" /\ UNCHANGED joined /\ (down' = down \/ down' = [down EXCEPT ![g] = Append(@, t)])
        \/ joined' = [joined EXCEPT ![g] = @ \ {t.room}] /\ UNCHANGED down
    BY <1>22 DEF Resume, t
  <2>5. down' \in [Sockets -> Seq(DownFrame)] /\ joined' \in [Sockets -> SUBSET AllRooms]
    <3>1. t.type = "deleted" => Append(down[g], t) \in Seq(DownFrame)
      BY <2>1, <2>2, FrameFields
    <3>2. joined \in [Sockets -> SUBSET AllRooms] /\ joined[g] \ {t.room} \in SUBSET AllRooms
      BY <1>0 DEF NetTypes
    <3>3. [joined EXCEPT ![g] = @ \ {t.room}] \in [Sockets -> SUBSET AllRooms]
      BY <3>2, JoinedTypes
    <3> QED
      BY <1>0, <2>4, <3>1, <3>2, <3>3 DEF NetTypes
  <2>6. CallsKnown' /\ ServerTypes'
    BY <1>22, SameTypes DEF Resume
  <2>7. NetTypes'
    BY <1>0, <1>22, <2>3, <2>5 DEF Resume, NetTypes
  <2>8. PageTypes'
    BY <1>0, <1>22 DEF Resume, PageTypes
  <2> QED
    BY <2>6, <2>7, <2>8 DEF Typed
<1>20. ASSUME UNCHANGED vars PROVE Typed'
  <2>1. CallsKnown' /\ NetTypes' /\ ServerTypes'
    BY <1>20, SameTypes DEF vars
  <2>2. PageTypes'
    BY <1>0, <1>20 DEF vars, PageTypes
  <2> QED
    BY <2>1, <2>2 DEF Typed
<1> QED
  BY <1>1, <1>2, <1>3, <1>4, <1>5, <1>6, <1>7, <1>8, <1>9, <1>10, <1>11, <1>12, <1>13, <1>14, <1>15,
     <1>16, <1>17, <1>18, <1>19, <1>20, <1>21, <1>22 DEF Next, User, Page, Server, World

-----------------------------------------------------------------------------
(* The sockets. *)

LEMMA Connects ==
  ASSUME Typed, ConnectWebSocket
  PROVE  /\ ws' \in Sockets /\ ws' = wsGeneration' /\ wsGeneration' = wsGeneration + 1
         /\ readyState'[ws'] = "connecting" /\ peer'[ws'] = "asked"
         /\ url'[ws'].tok = token /\ url'[ws'].room = currentRoom
         /\ \A g \in Sockets : g # ws' =>
              /\ readyState'[g] = readyState[g] /\ peer'[g] = peer[g] /\ url'[g] = url[g]
<1> DEFINE h == wsGeneration + 1
<1>1. h \in Sockets /\ ws' = h /\ wsGeneration' = h
  BY PageAssumption DEF ConnectWebSocket, Sockets, Typed, PageTypes
<1>2. /\ readyState' = [readyState EXCEPT ![h] = "connecting"]
      /\ peer' = [peer EXCEPT ![h] = "asked"]
      /\ url' = [url EXCEPT ![h] = [tok |-> token, room |-> currentRoom]]
  BY DEF ConnectWebSocket
<1> HIDE DEF h
<1>3. readyState'[h] = "connecting" /\ peer'[h] = "asked"
  BY <1>1, <1>2 DEF Typed, NetTypes
<1>4. url'[h] = [tok |-> token, room |-> currentRoom]
  BY <1>1, <1>2 DEF Typed, NetTypes
<1>5. url'[h].tok = token /\ url'[h].room = currentRoom
  BY <1>4
<1>6. \A g \in Sockets : g # h =>
        /\ readyState'[g] = readyState[g] /\ peer'[g] = peer[g] /\ url'[g] = url[g]
  BY <1>1, <1>2 DEF Typed, NetTypes
<1> QED
  BY <1>1, <1>3, <1>5, <1>6 DEF h

LEMMA Closes ==
  ASSUME Typed, CloseSocket
  PROVE  /\ ws' = 0
         /\ \A g \in Sockets : g # ws => readyState'[g] = readyState[g]
         /\ ws \in Sockets => readyState'[ws] = "closing"
<1>1. ws = 0 => ws \notin Sockets
  BY MemberTypes
<1>2. ws' = 0
  BY DEF CloseSocket
<1>3. CASE ws = 0
  BY <1>1, <1>2, <1>3 DEF CloseSocket
<1>4. CASE ws # 0
  <2>1. readyState' = [readyState EXCEPT ![ws] = "closing"]
    BY <1>4 DEF CloseSocket
  <2> QED
    BY <1>2, <2>1 DEF Typed, NetTypes
<1> QED
  BY <1>3, <1>4

LEMMA Numbered ==
  ASSUME Typed
  PROVE  wsGeneration \in Nat /\ ws \in Nat /\ ws <= wsGeneration /\ (ws # 0 => ws \in Sockets) /\ 0 \notin Sockets
BY PageAssumption DEF Typed, PageTypes, Sockets

\* An event of a socket that is not stale is one of ws.
LEMMA FreshIsWs ==
  ASSUME WsCurrent, NEW g, ws # 0
  PROVE  Stale(g) <=> g # ws
BY DEF WsCurrent, Stale

LEMMA CurrentKept ==
  ASSUME Typed, WsCurrent, [Next]_vars
  PROVE  WsCurrent'
<1> USE DEF pageVars, timerVars, netVars, serverVars, boundVars, seenVars
<1>0. ws # 0 => /\ ws \in Sockets /\ ws = wsGeneration /\ url[ws].tok = token
                /\ readyState[ws] \in {"connecting", "open"}
  BY Numbered DEF WsCurrent
<1>a. ASSUME ws' = 0 PROVE WsCurrent'
  BY <1>a DEF WsCurrent
<1>b. ASSUME UNCHANGED <<token, ws, wsGeneration, readyState, url>> PROVE WsCurrent'
  BY <1>b DEF WsCurrent
<1>c. ASSUME ConnectWebSocket, UNCHANGED token PROVE WsCurrent'
  BY <1>c, Connects DEF WsCurrent
<1>1. ASSUME NEW k \in Calls, Login(k) PROVE WsCurrent'
  BY <1>1, <1>b DEF Login
<1>2. ASSUME Logout PROVE WsCurrent'
  BY <1>2, <1>a DEF Logout, CloseSocket
<1>3. ASSUME NEW r \in AllRooms, ClickRoom(r) PROVE WsCurrent'
  BY <1>3, <1>b DEF ClickRoom
<1>4. ASSUME NEW k \in Calls, NEW fn \in {"enter", "exit"}, NEW r \in Rooms, Start(k, fn, r) PROVE WsCurrent'
  BY <1>4, <1>b DEF Start
<1>5. ASSUME NEW t \in Texts, Send(t) PROVE WsCurrent'
  BY <1>5, <1>b DEF Send
<1>6. ASSUME NEW k \in Calls, LoginReturns(k) PROVE WsCurrent'
  BY <1>6, <1>a DEF LoginReturns, CloseSocket
<1>7. ASSUME NEW k \in Calls, CallReturns(k) PROVE WsCurrent'
  BY <1>7, <1>b DEF CallReturns
<1>8. ASSUME NEW k \in Calls, LoginConnects(k) PROVE WsCurrent'
  BY <1>8, <1>c DEF LoginConnects
<1>9. ASSUME NEW k \in Calls, CallEnds(k) PROVE WsCurrent'
  BY <1>9, <1>b DEF CallEnds
<1>10. ASSUME NEW g \in Sockets, Receive(g) PROVE WsCurrent'
  <2>1. CASE readyState' = readyState
    BY <1>10, <1>b, <2>1 DEF Receive
  <2>2. CASE readyState' = [readyState EXCEPT ![g] = "open"]
    <3>1. \A h \in Sockets : readyState'[h] = "open" \/ readyState'[h] = readyState[h]
      BY <2>2 DEF Typed, NetTypes
    <3> QED
      BY <1>0, <1>10, <3>1 DEF Receive, WsCurrent
  <2> QED
    BY <1>10, <2>1, <2>2 DEF Receive
<1>11. ASSUME NEW g \in Sockets, OnClose(g) PROVE WsCurrent'
  <2>1. CASE ws = 0
    BY <1>11, <1>a, <2>1 DEF OnClose
  <2>2. CASE ws # 0 /\ g = ws
    <3>1. ~Stale(g)
      BY <2>2, FreshIsWs
    <3> QED
      BY <1>11, <1>a, <3>1 DEF OnClose
  <2>3. CASE ws # 0 /\ g # ws
    <3>1. Stale(g)
      BY <2>3, FreshIsWs
    <3>2. UNCHANGED <<ws, wsGeneration, url, token>>
      BY <1>11, <3>1 DEF OnClose
    <3>3. readyState' = [readyState EXCEPT ![g] = "closed"]
      BY <1>11 DEF OnClose
    <3>4. readyState'[ws] = readyState[ws]
      BY <1>0, <2>3, <3>3 DEF Typed, NetTypes
    <3> QED
      BY <1>0, <3>2, <3>4 DEF WsCurrent
  <2> QED
    BY <2>1, <2>2, <2>3
<1>12. ASSUME TimerFires PROVE WsCurrent'
  BY <1>12, <1>c DEF TimerFires
<1>13. ASSUME NEW g \in Sockets, Upgrade(g) PROVE WsCurrent'
  BY <1>13, <1>b DEF Upgrade
<1>14. ASSUME NEW g \in Sockets, Serve(g) PROVE WsCurrent'
  BY <1>14, <1>b DEF Serve
<1>15. ASSUME NEW g \in Sockets, ServerEnds(g) \/ Lose(g) PROVE WsCurrent'
  BY <1>15, <1>b DEF ServerEnds, Lose, Gone
<1>16. ASSUME NEW k \in Calls, Answer(k) PROVE WsCurrent'
  BY <1>16, <1>b DEF Answer
<1>17. ASSUME NEW r \in Rooms, OwnerDeletes(r) PROVE WsCurrent'
  BY <1>17, <1>b DEF OwnerDeletes
<1>18. ASSUME NEW t \in 1..MaxToken, TokenEnds(t) PROVE WsCurrent'
  BY <1>18, <1>b DEF TokenEnds
<1>19. ASSUME NEW k \in Calls, CallFails(k) PROVE WsCurrent'
  BY <1>19, <1>b DEF CallFails
<1>21. ASSUME NEW g \in Sockets, Admit(g) PROVE WsCurrent'
  BY <1>21, <1>b DEF Admit
<1>22. ASSUME NEW g \in Sockets, Resume(g) PROVE WsCurrent'
  BY <1>22, <1>b DEF Resume
<1>20. ASSUME UNCHANGED vars PROVE WsCurrent'
  BY <1>20, <1>b DEF vars
<1> QED
  BY <1>1, <1>2, <1>3, <1>4, <1>5, <1>6, <1>7, <1>8, <1>9, <1>10, <1>11, <1>12, <1>13, <1>14, <1>15,
     <1>16, <1>17, <1>18, <1>19, <1>20, <1>21, <1>22 DEF Next, User, Page, Server, World

LEMMA BlankKept ==
  ASSUME Typed, WsCurrent, SocketsBlank, [Next]_vars
  PROVE  SocketsBlank'
<1> USE DEF pageVars, timerVars, netVars, serverVars, boundVars, seenVars
<1>0. \A g \in Sockets : Blank(g)
  BY DEF SocketsBlank
<1>t. /\ readyState \in [Sockets -> ReadyStates] /\ up \in [Sockets -> Seq(UpFrame)]
      /\ down \in [Sockets -> Seq(DownFrame)] /\ peer \in [Sockets -> Peers]
      /\ joined \in [Sockets -> SUBSET AllRooms]
  BY DEF Typed, NetTypes
<1>d. SocketsBlank' <=> \A g \in Sockets : Blank(g)'
  BY DEF SocketsBlank
<1>n. wsGeneration \in Nat /\ \A g \in Sockets : g \in Nat
  BY Numbered, MemberTypes
<1>s. ASSUME NEW g \in Sockets,
             readyState'[g] = readyState[g], up'[g] = up[g], down'[g] = down[g], peer'[g] = peer[g],
             url'[g] = url[g], joined'[g] = joined[g],
             wsGeneration' \in {wsGeneration, wsGeneration + 1}
      PROVE  Blank(g)'
  BY <1>0, <1>n, <1>s DEF Blank
<1>u. ASSUME UNCHANGED <<readyState, up, down, peer, url, joined>>,
             wsGeneration' \in {wsGeneration, wsGeneration + 1}
      PROVE  SocketsBlank'
  BY <1>d, <1>s, <1>u
<1>w. ASSUME NEW r \in AllRooms, SwitchRoom(r), NEW g \in Sockets
      PROVE  up'[g] = up[g] \/ (g = ws /\ readyState[g] = "open")
  <2>1. up' = up \/ (readyState[ws] = "open" /\ \E w : up' = [up EXCEPT ![ws] = w])
    BY <1>w DEF SwitchRoom
  <2> QED
    BY <1>t, <2>1
<1>v. ASSUME NEW r \in AllRooms, SwitchRoom(r), UNCHANGED <<readyState, down, peer, url, joined, wsGeneration>>
      PROVE  SocketsBlank'
  <2>1. ASSUME NEW g \in Sockets, up'[g] = up[g] PROVE Blank(g)'
    BY <1>s, <1>v, <2>1
  <2>2. ASSUME NEW g \in Sockets, g = ws, readyState[g] = "open" PROVE Blank(g)'
    BY <1>0, <1>v, <2>2 DEF Blank
  <2> QED
    BY <1>d, <1>v, <1>w, <2>1, <2>2
<1>c. ASSUME ConnectWebSocket, UNCHANGED <<up, down, joined>> PROVE SocketsBlank'
  <2>1. ASSUME NEW g \in Sockets, g # ws' PROVE Blank(g)'
    BY <1>c, <1>s, <2>1, Connects
  <2>2. ASSUME NEW g \in Sockets, g = ws' PROVE Blank(g)'
    <3>1. g = wsGeneration' /\ g = wsGeneration + 1 /\ readyState'[g] = "connecting" /\ peer'[g] = "asked"
      BY <1>c, <2>2, Connects
    <3>2. readyState[g] = "none" /\ peer[g] = "none"
      BY <1>0, <1>n, <3>1 DEF Blank
    <3>3. joined[g] = {} /\ down[g] = <<>> /\ up[g] = <<>>
      BY <1>0, <3>2 DEF Blank
    <3>4. ~(g > wsGeneration')
      BY <1>n, <3>1
    <3> QED
      BY <1>c, <3>1, <3>3, <3>4 DEF Blank
  <2> QED
    BY <1>d, <2>1, <2>2
<1>k. ASSUME CloseSocket, UNCHANGED <<up, down, peer, url, joined>>,
             wsGeneration' \in {wsGeneration, wsGeneration + 1}
      PROVE  SocketsBlank'
  <2>1. ASSUME NEW g \in Sockets, g # ws PROVE Blank(g)'
    BY <1>k, <1>s, <2>1, Closes
  <2>2. ASSUME NEW g \in Sockets, g = ws PROVE Blank(g)'
    <3>1. readyState'[g] = "closing"
      BY <1>k, <2>2, Closes
    <3>2. ~(g > wsGeneration')
      BY <1>k, <1>n, <2>2, Numbered
    <3> QED
      BY <1>0, <1>k, <3>1, <3>2 DEF Blank
  <2> QED
    BY <1>d, <2>1, <2>2
<1>1. ASSUME NEW k \in Calls, Login(k) PROVE SocketsBlank'
  BY <1>1, <1>u DEF Login
<1>2. ASSUME Logout PROVE SocketsBlank'
  BY <1>2, <1>k DEF Logout
<1>3. ASSUME NEW r \in AllRooms, ClickRoom(r) PROVE SocketsBlank'
  BY <1>3, <1>v DEF ClickRoom
<1>4. ASSUME NEW k \in Calls, NEW fn \in {"enter", "exit"}, NEW r \in Rooms, Start(k, fn, r) PROVE SocketsBlank'
  BY <1>4, <1>u DEF Start
<1>5. ASSUME NEW t \in Texts, Send(t) PROVE SocketsBlank'
  <2>1. readyState[ws] = "open" /\ \E w : up' = [up EXCEPT ![ws] = w]
    BY <1>5 DEF Send
  <2>2. ASSUME NEW g \in Sockets, g # ws PROVE Blank(g)'
    <3>1. up'[g] = up[g]
      BY <1>t, <2>1, <2>2
    <3> QED
      BY <1>5, <1>s, <3>1 DEF Send
  <2>3. ASSUME NEW g \in Sockets, g = ws PROVE Blank(g)'
    BY <1>0, <1>5, <2>1, <2>3 DEF Blank, Send
  <2> QED
    BY <1>d, <2>2, <2>3
<1>6. ASSUME NEW k \in Calls, LoginReturns(k) PROVE SocketsBlank'
  BY <1>6, <1>k DEF LoginReturns
<1>7. ASSUME NEW k \in Calls, CallReturns(k) PROVE SocketsBlank'
  <2>1. General \in AllRooms
    BY DEF AllRooms
  <2>2. CASE SwitchRoom(General)
    BY <1>7, <1>v, <2>1, <2>2 DEF CallReturns
  <2>3. CASE UNCHANGED up
    BY <1>7, <1>u, <2>3 DEF CallReturns
  <2> QED
    BY <1>7, <2>2, <2>3 DEF CallReturns
<1>8. ASSUME NEW k \in Calls, LoginConnects(k) PROVE SocketsBlank'
  BY <1>8, <1>c DEF LoginConnects
<1>9. ASSUME NEW k \in Calls, CallEnds(k) PROVE SocketsBlank'
  <2>1. call[k].room \in AllRooms
    BY CallFields
  <2>2. CASE SwitchRoom(call[k].room)
    BY <1>9, <1>v, <2>1, <2>2 DEF CallEnds
  <2>3. CASE UNCHANGED up
    BY <1>9, <1>u, <2>3 DEF CallEnds
  <2> QED
    BY <1>9, <2>2, <2>3 DEF CallEnds
<1>10. ASSUME NEW g \in Sockets, Receive(g) PROVE SocketsBlank'
  <2>1. /\ readyState[g] \in {"connecting", "open"} /\ down[g] # <<>>
        /\ down' = [down EXCEPT ![g] = Tail(@)]
        /\ UNCHANGED <<peer, url, joined, wsGeneration>>
    BY <1>10 DEF Receive
  <2>2. peer[g] = "serving"
    BY <1>0, <2>1 DEF Blank
  <2>3. General \in AllRooms
    BY DEF AllRooms
  <2>4. CASE readyState' = [readyState EXCEPT ![g] = "open"] /\ UNCHANGED up
    <3>1. ASSUME NEW h \in Sockets, h # g PROVE Blank(h)'
      BY <1>s, <1>t, <2>1, <2>4, <3>1
    <3>2. readyState'[g] = "open"
      BY <1>t, <2>4
    <3>3. Blank(g)'
      BY <1>0, <2>1, <2>2, <3>2 DEF Blank
    <3> QED
      BY <1>d, <3>1, <3>3
  <2>5. CASE UNCHANGED readyState /\ (UNCHANGED up \/ SwitchRoom(General))
    <3>0. ASSUME NEW h \in Sockets PROVE up'[h] = up[h] \/ readyState[h] = "open"
      BY <1>w, <2>3, <2>5
    <3>1. ASSUME NEW h \in Sockets, h # g PROVE Blank(h)'
      <4>1. down'[h] = down[h]
        BY <1>t, <2>1, <3>1
      <4>2. CASE up'[h] = up[h]
        BY <1>s, <2>1, <2>5, <4>1, <4>2
      <4>3. CASE readyState[h] = "open"
        BY <1>0, <2>1, <2>5, <4>1, <4>3 DEF Blank
      <4> QED
        BY <3>0, <4>2, <4>3
    <3>3. Blank(g)'
      <4>1. up'[g] = up[g] \/ readyState[g] = "open"
        BY <3>0
      <4> QED
        BY <1>0, <2>1, <2>2, <2>5, <4>1 DEF Blank
    <3> QED
      BY <1>d, <3>1, <3>3
  <2> QED
    BY <1>10, <2>4, <2>5 DEF Receive
<1>11. ASSUME NEW g \in Sockets, OnClose(g) PROVE SocketsBlank'
  <2>1. readyState' = [readyState EXCEPT ![g] = "closed"] /\ UNCHANGED <<up, down, peer, url, joined, wsGeneration>>
    BY <1>11 DEF OnClose
  <2>2. ASSUME NEW h \in Sockets, h # g PROVE Blank(h)'
    BY <1>s, <1>t, <2>1, <2>2
  <2>3. readyState'[g] = "closed"
    BY <1>t, <2>1
  <2>4. peer[g] = "gone"
    BY <1>11 DEF OnClose
  <2>5. Blank(g)'
    BY <1>0, <2>1, <2>3, <2>4 DEF Blank
  <2> QED
    BY <1>d, <2>2, <2>5
<1>12. ASSUME TimerFires PROVE SocketsBlank'
  BY <1>12, <1>c DEF TimerFires
<1>13. ASSUME NEW g \in Sockets, Upgrade(g) PROVE SocketsBlank'
  <2>1. /\ peer[g] = "admitted" /\ peer' = [peer EXCEPT ![g] = "serving"]
        /\ UNCHANGED <<readyState, up, url, wsGeneration>>
    BY <1>13 DEF Upgrade
  <2>2. ASSUME NEW h \in Sockets, h # g PROVE Blank(h)'
    <3>1. peer'[h] = peer[h] /\ joined'[h] = joined[h] /\ down'[h] = down[h]
      BY <1>13, <1>t, <2>2 DEF Upgrade, JoinRoom
    <3> QED
      BY <1>s, <2>1, <3>1
  <2>3. ~(g > wsGeneration) /\ url[g].tok # 0
    BY <1>0, <2>1 DEF Blank
  <2>4. peer'[g] = "serving"
    BY <1>t, <2>1
  <2> QED
    BY <1>0, <1>d, <2>1, <2>2, <2>3, <2>4 DEF Blank
<1>14. ASSUME NEW g \in Sockets, Serve(g) PROVE SocketsBlank'
  <2>1. /\ peer[g] = "serving" /\ up[g] # <<>> /\ up' = [up EXCEPT ![g] = Tail(@)]
        /\ UNCHANGED <<readyState, peer, url, wsGeneration>>
    BY <1>14 DEF Serve
  <2>2. ASSUME NEW h \in Sockets, h # g PROVE Blank(h)'
    <3>1. up'[h] = up[h] /\ joined'[h] = joined[h]
      BY <1>14, <1>t, <2>2 DEF Serve, JoinRoom
    <3>2. down'[h] = down[h] \/ joined[h] # {}
      BY <1>14, <1>t, <2>2 DEF Serve
    <3> QED
      BY <1>0, <2>1, <3>1, <3>2 DEF Blank
  <2>3. Blank(g)'
    BY <1>0, <2>1 DEF Blank
  <2> QED
    BY <1>d, <2>2, <2>3
<1>15. ASSUME NEW g \in Sockets, ServerEnds(g) \/ Lose(g) PROVE SocketsBlank'
  <2>1. Gone(g) /\ peer[g] \in {"asked", "admitted", "serving"}
    BY <1>15 DEF ServerEnds, Lose, Served
  <2>2. ASSUME NEW h \in Sockets, h # g PROVE Blank(h)'
    <3>1. peer'[h] = peer[h] /\ joined'[h] = joined[h] /\ down'[h] = down[h] /\ up'[h] = up[h]
      BY <1>t, <2>1, <2>2 DEF Gone
    <3> QED
      BY <1>s, <2>1, <3>1 DEF Gone
  <2>3. peer'[g] = "gone" /\ joined'[g] = {} /\ down'[g] = <<>> /\ up'[g] = <<>>
    BY <1>t, <2>1 DEF Gone
  <2>4. Blank(g)'
    BY <1>0, <2>1, <2>3 DEF Blank, Gone
  <2> QED
    BY <1>d, <2>2, <2>4
<1>e. ASSUME NEW r \in Rooms, NEW own, DeleteRoom(r, own), UNCHANGED <<readyState, up, peer, url, wsGeneration>>
      PROVE  SocketsBlank'
  <2>1. ASSUME NEW g \in Sockets PROVE Blank(g)'
    <3>1. joined'[g] \subseteq joined[g] /\ (r \notin joined[g] => down'[g] = down[g])
      BY <1>e DEF DeleteRoom
    <3> QED
      BY <1>0, <1>e, <3>1 DEF Blank
  <2> QED
    BY <1>d, <2>1
<1>16. ASSUME NEW k \in Calls, Answer(k) PROVE SocketsBlank'
  <2>1. CASE UNCHANGED <<down, joined>>
    BY <1>16, <1>u, <2>1 DEF Answer
  <2>2. CASE call[k].fn = "exit" /\ \E own \in SUBSET Served : DeleteRoom(call[k].room, own)
    <3>1. call[k].room \in Rooms
      BY <2>2, CallFields
    <3> QED
      BY <1>16, <1>e, <2>2, <3>1 DEF Answer
  <2> QED
    BY <1>16, <2>1, <2>2 DEF Answer
<1>17. ASSUME NEW r \in Rooms, OwnerDeletes(r) PROVE SocketsBlank'
  BY <1>17, <1>e DEF OwnerDeletes
<1>18. ASSUME NEW t \in 1..MaxToken, TokenEnds(t) PROVE SocketsBlank'
  BY <1>18, <1>u DEF TokenEnds
<1>19. ASSUME NEW k \in Calls, CallFails(k) PROVE SocketsBlank'
  BY <1>19, <1>u DEF CallFails
<1>21. ASSUME NEW g \in Sockets, Admit(g) PROVE SocketsBlank'
  <2>1. /\ peer[g] = "asked" /\ UNCHANGED <<readyState, up, down, url, joined, wsGeneration>>
        /\ \/ peer' = [peer EXCEPT ![g] = "admitted"] /\ url[g].tok \in valid
           \/ peer' = [peer EXCEPT ![g] = "gone"]
    BY <1>21 DEF Admit
  <2>2. ASSUME NEW h \in Sockets, h # g PROVE Blank(h)'
    <3>1. peer'[h] = peer[h]
      BY <1>t, <2>1, <2>2
    <3> QED
      BY <1>s, <2>1, <3>1
  <2>3. \/ peer'[g] = "admitted" /\ url[g].tok # 0
        \/ peer'[g] = "gone"
    <3>1. 0 \notin valid
      BY PageAssumption DEF Typed, ServerTypes, PageTypes
    <3> QED
      BY <1>t, <2>1, <3>1
  <2>4. Blank(g)'
    BY <1>0, <2>1, <2>3 DEF Blank
  <2> QED
    BY <1>d, <2>2, <2>4
<1>22. ASSUME NEW g \in Sockets, Resume(g) PROVE SocketsBlank'
  <2>1. /\ UNCHANGED <<readyState, up, peer, url, wsGeneration>>
        /\ \/ down' = [down EXCEPT ![g] = Append(@, Head(tasks[g]))] /\ joined[g] # {} /\ UNCHANGED joined
           \/ UNCHANGED <<down, joined>>
           \/ joined' = [joined EXCEPT ![g] = @ \ {Head(tasks[g]).room}] /\ UNCHANGED down
    BY <1>22 DEF Resume
  <2>2. ASSUME NEW h \in Sockets, h # g PROVE Blank(h)'
    <3>1. joined'[h] = joined[h] /\ down'[h] = down[h]
      BY <1>t, <2>1, <2>2
    <3> QED
      BY <1>s, <2>1, <3>1
  <2>3. joined'[g] \subseteq joined[g] /\ (down'[g] = down[g] \/ joined[g] # {})
    BY <1>t, <2>1
  <2>4. Blank(g)'
    BY <1>0, <2>1, <2>3 DEF Blank
  <2> QED
    BY <1>d, <2>2, <2>4
<1>20. ASSUME UNCHANGED vars PROVE SocketsBlank'
  BY <1>20, <1>u DEF vars
<1> QED
  BY <1>1, <1>2, <1>3, <1>4, <1>5, <1>6, <1>7, <1>8, <1>9, <1>10, <1>11, <1>12, <1>13, <1>14, <1>15,
     <1>16, <1>17, <1>18, <1>19, <1>20, <1>21, <1>22 DEF Next, User, Page, Server, World

-----------------------------------------------------------------------------
(* Logins, timers and the messages shown. *)

LEMMA LiveIs == \A g : g \in Live <=> g \in Sockets /\ readyState[g] \in {"connecting", "open"}
BY DEF Live

LEMMA OneLoginKept ==
  ASSUME Typed, WsCurrent, SocketsBlank, OneLogin, [Next]_vars, ~overlapped'
  PROVE  OneLogin'
<1> USE DEF pageVars, timerVars, netVars, serverVars, boundVars, seenVars
<1>0. /\ \A j, k \in Calls : call[j].fn = "login" /\ call[k].fn = "login" => j = k
      /\ \A k \in Calls : call[k].fn = "login" /\ call[k].at = "rooms" => ws = 0 /\ timers = 0
      /\ \A k \in Calls : call[k].fn = "login" /\ call[k].at # "rooms" => token = 0
      /\ timers > 0 => reconnTimer /\ timers = 1 /\ Live = {} /\ token # 0
      /\ Live \subseteq {ws}
  BY DEF OneLogin
<1>t. timers \in Nat /\ readyState \in [Sockets -> ReadyStates] /\ call \in [Calls -> CallType]
  BY DEF Typed, PageTypes, NetTypes
<1>l. \A g : g \in Live' <=> g \in Sockets /\ readyState'[g] \in {"connecting", "open"}
  BY DEF Live
<1>r. ASSUME UNCHANGED readyState PROVE Live' = Live
  BY <1>r DEF Live
<1>c. ASSUME NEW k \in Calls, NEW c \in CallType, call' = [call EXCEPT ![k] = c],
             c.fn # "login" \/ call[k].fn = "login",
             c.at = "rooms" <=> call[k].at = "rooms"
      PROVE  \A j \in Calls : call'[j].fn = "login" =>
               call[j].fn = "login" /\ (call'[j].at = "rooms" <=> call[j].at = "rooms")
  <2>1. \A j \in Calls : (j = k /\ call'[j] = c) \/ call'[j] = call[j]
    BY <1>c, <1>t
  <2> QED
    BY <1>c, <2>1
<1>b. ASSUME NEW k \in Calls, NEW c \in CallType, call' = [call EXCEPT ![k] = c], c.fn # "login"
      PROVE  \A j \in Calls : call'[j].fn = "login" => j # k /\ call'[j] = call[j]
  <2>1. \A j \in Calls : (j = k /\ call'[j] = c) \/ (j # k /\ call'[j] = call[j])
    BY <1>b, <1>t
  <2> QED
    BY <1>b, <2>1
<1>s. ASSUME UNCHANGED <<token, ws, timers, reconnTimer>>, Live' = Live,
             \A j \in Calls : call'[j].fn = "login" =>
               call[j].fn = "login" /\ (call'[j].at = "rooms" <=> call[j].at = "rooms")
      PROVE  OneLogin'
  BY <1>0, <1>s DEF OneLogin
<1>u. ASSUME UNCHANGED <<token, ws, timers, reconnTimer, readyState, call>> PROVE OneLogin'
  BY <1>r, <1>s, <1>u
<1>i. ASSUME NEW k \in Calls,
             \/ call' = [call EXCEPT ![k] = Idle]
             \/ call[k].fn # "login" /\ \E a : call' = [call EXCEPT ![k].at = a],
             UNCHANGED <<token, ws, timers, reconnTimer, readyState>>
      PROVE  OneLogin'
  <2>1. \A j \in Calls : call'[j].fn = "login" => call'[j] = call[j]
    <3>1. CASE call' = [call EXCEPT ![k] = Idle]
      BY <1>b, <3>1, IdleCall
    <3>2. CASE call[k].fn # "login" /\ \E a : call' = [call EXCEPT ![k].at = a]
      <4>1. PICK a : call' = [call EXCEPT ![k].at = a]
        BY <3>2
      <4>2. call'[k].fn = call[k].fn
        BY <1>t, <4>1 DEF CallType
      <4>3. \A j \in Calls : j # k => call'[j] = call[j]
        BY <1>t, <4>1
      <4> QED
        BY <3>2, <4>2, <4>3
    <3> QED
      BY <1>i, <3>1, <3>2
  <2> QED
    BY <1>i, <1>r, <1>s, <2>1
<1>1. ASSUME NEW k \in Calls, Login(k) PROVE OneLogin'
  <2> DEFINE c == [Idle EXCEPT !.fn = "login", !.at = "fetch"]
  <2>1. c.at = "fetch"
    BY IdleCall DEF CallType
  <2>2. call' = [call EXCEPT ![k] = c] /\ token = 0 /\ UNCHANGED <<token, ws, timers, reconnTimer, readyState>>
    BY <1>1 DEF Login
  <2> HIDE DEF c
  <2>3. \A j \in Calls : call[j].fn # "login"
    BY <1>1 DEF Login
  <2>4. \A j \in Calls : call'[j].fn = "login" => j = k /\ call'[j].at = "fetch"
    BY <1>t, <2>1, <2>2, <2>3
  <2>5. Live' = Live
    BY <1>r, <2>2
  <2> QED
    BY <1>0, <2>2, <2>4, <2>5 DEF OneLogin
<1>2. ASSUME Logout PROVE OneLogin'
  <2>1. ws' = 0 /\ token' = 0 /\ UNCHANGED call /\ CloseSocket /\ ClearTimer
    BY <1>2 DEF Logout, CloseSocket
  <2>2. timers' = 0
    BY <1>0, <1>t, <2>1 DEF ClearTimer
  <2>3. Live' = {}
    <3>1. \A g \in Sockets : g # ws => readyState'[g] = readyState[g]
      BY <2>1, Closes
    <3>2. ws \in Sockets => readyState'[ws] = "closing"
      BY <2>1, Closes
    <3> QED
      BY <1>0, <1>l, <3>1, <3>2, LiveIs
  <2> QED
    BY <1>0, <2>1, <2>2, <2>3 DEF OneLogin
<1>3. ASSUME NEW r \in AllRooms, ClickRoom(r) PROVE OneLogin'
  BY <1>3, <1>u DEF ClickRoom
<1>4. ASSUME NEW k \in Calls, NEW fn \in {"enter", "exit"}, NEW r \in Rooms, Start(k, fn, r) PROVE OneLogin'
  <2> DEFINE c == [fn |-> fn, at |-> "fetch", room |-> r, tok |-> token]
  <2>1. c \in CallType /\ c.fn # "login"
    BY DEF CallType, AllRooms, Typed, PageTypes
  <2>2. call' = [call EXCEPT ![k] = c]
    BY <1>4 DEF Start
  <2> HIDE DEF c
  <2>3. \A j \in Calls : call'[j].fn = "login" => call'[j] = call[j]
    BY <1>b, <2>1, <2>2
  <2> QED
    BY <1>4, <1>r, <1>s, <2>3 DEF Start
<1>5. ASSUME NEW t \in Texts, Send(t) PROVE OneLogin'
  BY <1>5, <1>u DEF Send
<1>6. ASSUME NEW k \in Calls, LoginReturns(k) PROVE OneLogin'
  <2>1. /\ call[k].fn = "login" /\ call[k].at = "ok" /\ call' = [call EXCEPT ![k].at = "rooms"]
        /\ CloseSocket /\ ClearTimer
    BY <1>6 DEF LoginReturns
  <2>2. token = 0 /\ timers = 0
    BY <1>0, <1>t, <2>1
  <2>3. timers' = 0 /\ ws' = 0
    BY <2>1, <2>2 DEF ClearTimer, CloseSocket
  <2>4. Live' = {}
    <3>1. \A g \in Sockets : g # ws => readyState'[g] = readyState[g]
      BY <2>1, Closes
    <3>2. ws \in Sockets => readyState'[ws] = "closing"
      BY <2>1, Closes
    <3> QED
      BY <1>0, <1>l, <3>1, <3>2, LiveIs
  <2>5. \A j \in Calls : j # k => call'[j] = call[j]
    BY <1>t, <2>1
  <2>6. call'[k].fn = "login" /\ call'[k].at = "rooms"
    BY <1>t, <2>1 DEF CallType
  <2>7. \A j \in Calls : call'[j].fn = "login" => j = k
    BY <1>0, <2>1, <2>5
  <2> QED
    BY <2>3, <2>4, <2>6, <2>7 DEF OneLogin
<1>7. ASSUME NEW k \in Calls, CallReturns(k) PROVE OneLogin'
  BY <1>7, <1>i DEF CallReturns
<1>n. ASSUME ConnectWebSocket, Live = {} PROVE Live' = {ws'}
  <2>1. ws' \in Sockets /\ readyState'[ws'] = "connecting"
    BY <1>n, Connects
  <2>2. \A g \in Sockets : g # ws' => readyState'[g] = readyState[g]
    BY <1>n, Connects
  <2> QED
    BY <1>l, <1>n, <2>1, <2>2, LiveIs
<1>8. ASSUME NEW k \in Calls, LoginConnects(k) PROVE OneLogin'
  <2>1. /\ call[k].fn = "login" /\ call[k].at = "rooms" /\ call' = [call EXCEPT ![k] = Idle]
        /\ ConnectWebSocket /\ UNCHANGED <<token, timers, reconnTimer>>
    BY <1>8 DEF LoginConnects
  <2>2. ws = 0 /\ timers = 0
    BY <1>0, <2>1
  <2>3. Live = {}
    BY <1>0, <2>2, LiveIs, Numbered
  <2>4. Live' = {ws'}
    BY <1>n, <2>1, <2>3
  <2>5. \A j \in Calls : call'[j].fn # "login"
    <3>1. \A j \in Calls : call'[j].fn = "login" => j # k /\ call'[j] = call[j]
      BY <1>b, <2>1, IdleCall
    <3> QED
      BY <1>0, <2>1, <3>1
  <2> QED
    BY <2>1, <2>2, <2>4, <2>5 DEF OneLogin
<1>9. ASSUME NEW k \in Calls, CallEnds(k) PROVE OneLogin'
  BY <1>9, <1>i DEF CallEnds
<1>10. ASSUME NEW g \in Sockets, Receive(g) PROVE OneLogin'
  <2>1. UNCHANGED <<token, ws, timers, reconnTimer, call>> /\ readyState[g] \in {"connecting", "open"}
    BY <1>10 DEF Receive
  <2>2. readyState' = readyState \/ readyState' = [readyState EXCEPT ![g] = "open"]
    BY <1>10 DEF Receive
  <2>3. \A h \in Sockets : readyState'[h] \in {"connecting", "open"} <=> readyState[h] \in {"connecting", "open"}
    BY <1>t, <2>1, <2>2
  <2>4. Live' = Live
    BY <1>l, <2>3, LiveIs
  <2> QED
    BY <1>s, <2>1, <2>4
<1>11. ASSUME NEW g \in Sockets, OnClose(g) PROVE OneLogin'
  <2>1. readyState' = [readyState EXCEPT ![g] = "closed"] /\ UNCHANGED <<token, call>>
    BY <1>11 DEF OnClose
  <2>2. readyState'[g] = "closed" /\ \A h \in Sockets : h # g => readyState'[h] = readyState[h]
    BY <1>t, <2>1
  <2>3. \A h : h \in Live' <=> h \in Live /\ h # g
    BY <1>l, <2>2, LiveIs
  <2>4. CASE Stale(g)
    <3>1. UNCHANGED <<ws, timers, reconnTimer>>
      BY <1>11, <2>4 DEF OnClose
    <3>2. Live' \subseteq Live
      BY <2>3
    <3>3. Live = {} => Live' = {}
      BY <3>2
    <3>4. Live' \subseteq {ws'}
      BY <1>0, <3>1, <3>2
    <3> QED
      BY <1>0, <2>1, <3>1, <3>3, <3>4 DEF OneLogin
  <2>5. CASE ~Stale(g)
    <3>1. g = ws /\ ws # 0
      BY <2>5, MemberTypes DEF Stale
    <3>2. ws \in Live
      BY <3>1, LiveIs DEF WsCurrent
    <3>3. timers = 0
      BY <1>0, <1>t, <3>2
    <3>4. Live' = {}
      BY <1>0, <2>3, <3>1
    <3>5. ws' = 0 /\ (token = 0 => timers' = 0) /\ (token # 0 => timers' = 1 /\ reconnTimer')
      <4>1. /\ ws' = 0
            /\ timers' = (IF token # 0 THEN timers + 1 ELSE timers)
            /\ reconnTimer' = (reconnTimer \/ token # 0)
        BY <1>11, <2>5, Zenon DEF OnClose
      <4>2. token # 0 => reconnTimer'
        BY <4>1, Zenon
      <4>3. (token = 0 => timers' = 0) /\ (token # 0 => timers' = 1)
        BY <3>3, <4>1
      <4> QED
        BY <4>1, <4>2, <4>3
    <3>6. \A k \in Calls : call[k].fn = "login" => call[k].at # "rooms"
      BY <1>0, <3>1
    <3> QED
      BY <1>0, <2>1, <3>4, <3>5, <3>6 DEF OneLogin
  <2> QED
    BY <2>4, <2>5
<1>12. ASSUME TimerFires PROVE OneLogin'
  <2>1. timers > 0 /\ timers' = timers - 1 /\ ConnectWebSocket /\ UNCHANGED <<token, call>>
    BY <1>12 DEF TimerFires
  <2>2. timers = 1 /\ Live = {} /\ token # 0
    BY <1>0, <2>1
  <2>3. \A k \in Calls : call[k].fn # "login"
    BY <1>0, <2>2
  <2>4. Live' = {ws'}
    BY <1>n, <2>1, <2>2
  <2>5. timers' = 0
    BY <2>1, <2>2
  <2> QED
    BY <2>1, <2>3, <2>4, <2>5 DEF OneLogin
<1>13. ASSUME NEW g \in Sockets, Upgrade(g) PROVE OneLogin'
  BY <1>13, <1>u DEF Upgrade
<1>14. ASSUME NEW g \in Sockets, Serve(g) PROVE OneLogin'
  BY <1>14, <1>u DEF Serve
<1>15. ASSUME NEW g \in Sockets, ServerEnds(g) \/ Lose(g) PROVE OneLogin'
  BY <1>15, <1>u DEF ServerEnds, Lose, Gone
<1>16. ASSUME NEW k \in Calls, Answer(k) PROVE OneLogin'
  <2>1. UNCHANGED <<token, ws, timers, reconnTimer, readyState>> /\ call[k].at = "fetch"
    BY <1>16 DEF Answer
  <2>2. CASE call[k].fn = "login"
    <3> DEFINE c == [call[k] EXCEPT !.at = "ok", !.tok = issued + 1]
    <3>1. call' = [call EXCEPT ![k] = c]
      BY <1>16, <2>2 DEF Answer
    <3>2. call[k] \in CallType
      BY <1>t
    <3>3. c.at = "ok" /\ c.fn = "login"
      BY <2>2, <3>2 DEF CallType
    <3> HIDE DEF c
    <3>4. \A j \in Calls : (j = k /\ call'[j] = c) \/ call'[j] = call[j]
      BY <1>t, <3>1
    <3>5. \A j \in Calls : call'[j].fn = "login" =>
               call[j].fn = "login" /\ (call'[j].at = "rooms" <=> call[j].at = "rooms")
      BY <2>1, <2>2, <3>3, <3>4
    <3> QED
      BY <1>r, <1>s, <2>1, <3>5
  <2>3. CASE call[k].fn # "login"
    <3>1. call' = [call EXCEPT ![k].at = "ok"]
      BY <1>16, <2>3 DEF Answer
    <3> QED
      BY <1>i, <2>1, <2>3, <3>1
  <2> QED
    BY <2>2, <2>3
<1>17. ASSUME NEW r \in Rooms, OwnerDeletes(r) PROVE OneLogin'
  BY <1>17, <1>u DEF OwnerDeletes
<1>18. ASSUME NEW t \in 1..MaxToken, TokenEnds(t) PROVE OneLogin'
  BY <1>18, <1>u DEF TokenEnds
<1>19. ASSUME NEW k \in Calls, CallFails(k) PROVE OneLogin'
  BY <1>19, <1>i DEF CallFails
<1>21. ASSUME NEW g \in Sockets, Admit(g) PROVE OneLogin'
  BY <1>21, <1>u DEF Admit
<1>22. ASSUME NEW g \in Sockets, Resume(g) PROVE OneLogin'
  BY <1>22, <1>u DEF Resume
<1>20. ASSUME UNCHANGED vars PROVE OneLogin'
  BY <1>20, <1>u DEF vars
<1> QED
  BY <1>1, <1>2, <1>3, <1>4, <1>5, <1>6, <1>7, <1>8, <1>9, <1>10, <1>11, <1>12, <1>13, <1>14, <1>15,
     <1>16, <1>17, <1>18, <1>19, <1>20, <1>21, <1>22 DEF Next, User, Page, Server, World

LEMMA ShownKept ==
  ASSUME Typed, WsCurrent, SocketsBlank, OneLogin, Shown, [Next]_vars
  PROVE  Shown'
<1> USE DEF pageVars, timerVars, netVars, serverVars, boundVars, seenVars
<1>u. ASSUME UNCHANGED <<token, currentRoom, bubbles>> PROVE Shown'
  BY <1>u DEF Shown
<1>w. ASSUME NEW r, SwitchRoom(r), UNCHANGED token PROVE Shown'
  BY <1>w DEF Shown, SwitchRoom
<1>1. ASSUME NEW k \in Calls, Login(k) PROVE Shown'
  BY <1>1, <1>u DEF Login
<1>2. ASSUME Logout PROVE Shown'
  BY <1>2 DEF Logout, Shown
<1>3. ASSUME NEW r \in AllRooms, ClickRoom(r) PROVE Shown'
  BY <1>3, <1>w DEF ClickRoom
<1>4. ASSUME NEW k \in Calls, NEW fn \in {"enter", "exit"}, NEW r \in Rooms, Start(k, fn, r) PROVE Shown'
  BY <1>4, <1>u DEF Start
<1>5. ASSUME NEW t \in Texts, Send(t) PROVE Shown'
  BY <1>5, <1>u DEF Send
<1>6. ASSUME NEW k \in Calls, LoginReturns(k) PROVE Shown'
  <2>1. call[k].fn = "login" /\ call[k].at = "ok" /\ UNCHANGED bubbles
    BY <1>6 DEF LoginReturns
  <2>2. token = 0
    BY <2>1 DEF OneLogin
  <2> QED
    BY <2>1, <2>2 DEF Shown
<1>7. ASSUME NEW k \in Calls, CallReturns(k) PROVE Shown'
  BY <1>7, <1>u, <1>w DEF CallReturns
<1>8. ASSUME NEW k \in Calls, LoginConnects(k) PROVE Shown'
  BY <1>8, <1>u DEF LoginConnects
<1>9. ASSUME NEW k \in Calls, CallEnds(k) PROVE Shown'
  BY <1>9, <1>u, <1>w DEF CallEnds
<1>10. ASSUME NEW g \in Sockets, Receive(g) PROVE Shown'
  <2> DEFINE m == Head(down[g])
  <2>1. UNCHANGED token /\ down[g] # <<>>
    BY <1>10 DEF Receive
  <2>2. CASE UNCHANGED <<currentRoom, bubbles>>
    BY <1>u, <2>1, <2>2
  <2>3. CASE SwitchRoom(General)
    BY <1>w, <2>1, <2>3
  <2>4. CASE ~Stale(g) /\ Show(m) /\ UNCHANGED currentRoom
    <3>1. g = ws /\ ws # 0
      BY <2>4, MemberTypes DEF Stale
    <3>2. url[ws].tok = token
      BY <3>1 DEF WsCurrent
    <3>3. url[g].tok # 0
      BY <2>1 DEF SocketsBlank, Blank
    <3>4. token # 0
      BY <3>1, <3>2, <3>3
    <3>5. \A b \in bubbles' : b \in bubbles \/ b.room = currentRoom
      BY <2>4 DEF Show
    <3> QED
      BY <2>1, <2>4, <3>4, <3>5 DEF Shown
  <2> QED
    BY <1>10, <2>2, <2>3, <2>4 DEF Receive
<1>11. ASSUME NEW g \in Sockets, OnClose(g) PROVE Shown'
  BY <1>11, <1>u DEF OnClose
<1>12. ASSUME TimerFires PROVE Shown'
  BY <1>12, <1>u DEF TimerFires
<1>13. ASSUME NEW g \in Sockets, Upgrade(g) PROVE Shown'
  BY <1>13, <1>u DEF Upgrade
<1>14. ASSUME NEW g \in Sockets, Serve(g) PROVE Shown'
  BY <1>14, <1>u DEF Serve
<1>15. ASSUME NEW g \in Sockets, ServerEnds(g) \/ Lose(g) PROVE Shown'
  BY <1>15, <1>u DEF ServerEnds, Lose, Gone
<1>16. ASSUME NEW k \in Calls, Answer(k) PROVE Shown'
  BY <1>16, <1>u DEF Answer
<1>17. ASSUME NEW r \in Rooms, OwnerDeletes(r) PROVE Shown'
  BY <1>17, <1>u DEF OwnerDeletes
<1>18. ASSUME NEW t \in 1..MaxToken, TokenEnds(t) PROVE Shown'
  BY <1>18, <1>u DEF TokenEnds
<1>19. ASSUME NEW k \in Calls, CallFails(k) PROVE Shown'
  BY <1>19, <1>u DEF CallFails
<1>21. ASSUME NEW g \in Sockets, Admit(g) PROVE Shown'
  BY <1>21, <1>u DEF Admit
<1>22. ASSUME NEW g \in Sockets, Resume(g) PROVE Shown'
  BY <1>22, <1>u DEF Resume
<1>20. ASSUME UNCHANGED vars PROVE Shown'
  BY <1>20, <1>u DEF vars
<1> QED
  BY <1>1, <1>2, <1>3, <1>4, <1>5, <1>6, <1>7, <1>8, <1>9, <1>10, <1>11, <1>12, <1>13, <1>14, <1>15,
     <1>16, <1>17, <1>18, <1>19, <1>20, <1>21, <1>22 DEF Next, User, Page, Server, World

\* Logins that overlapped stay overlapped.
LEMMA OverlapStays ==
  ASSUME [Next]_vars, overlapped
  PROVE  overlapped'
BY DEF Next, User, Page, Server, World, vars, pageVars, timerVars, netVars, serverVars, boundVars, seenVars,
       Login, Logout, ClickRoom, Start, Send, LoginReturns, CallReturns, LoginConnects, CallEnds, CallFails,
       Receive, OnClose, TimerFires, Admit, Upgrade, Serve, Resume, JoinRoom, ServerEnds, Lose, Gone,
       Answer, OwnerDeletes, TokenEnds

LEMMA LoginKept ==
  ASSUME Typed, WsCurrent, SocketsBlank, LoginInv, [Next]_vars
  PROVE  LoginInv'
<1> SUFFICES ASSUME ~overlapped' PROVE OneLogin' /\ Shown'
  BY DEF LoginInv
<1>1. OneLogin /\ Shown
  BY OverlapStays DEF LoginInv
<1> QED
  BY <1>1, OneLoginKept, ShownKept

LEMMA SentKept ==
  ASSUME Typed, ShownAsSent, [Next]_vars
  PROVE  ShownAsSent'
<1> USE DEF pageVars, timerVars, netVars, serverVars, boundVars, seenVars
<1>1. \/ bubbles' \subseteq bubbles
      \/ \E g \in Sockets : down[g] # <<>> /\ Show(Head(down[g]))
  <2>1. ASSUME NEW r, SwitchRoom(r) PROVE bubbles' \subseteq bubbles
    BY <2>1 DEF SwitchRoom
  <2>2. ASSUME NEW g \in Sockets, Receive(g)
        PROVE  bubbles' \subseteq bubbles \/ (down[g] # <<>> /\ Show(Head(down[g])))
    BY <2>1, <2>2 DEF Receive
  <2>3. ASSUME \/ \E k \in Calls : CallReturns(k) \/ CallEnds(k)
               \/ \E r \in AllRooms : ClickRoom(r)
        PROVE  bubbles' \subseteq bubbles
    BY <2>1, <2>3 DEF CallReturns, CallEnds, ClickRoom
  <2>4. ASSUME Next, ~\E g \in Sockets : Receive(g),
               ~\E k \in Calls : CallReturns(k) \/ CallEnds(k),
               ~\E r \in AllRooms : ClickRoom(r)
        PROVE  bubbles' \subseteq bubbles
    BY <2>4 DEF Next, User, Page, Server, World, Login, Logout, Start, Send, LoginReturns, LoginConnects,
       CallFails, OnClose, TimerFires, Admit, Upgrade, Serve, Resume, ServerEnds, Lose, Gone, Answer,
       OwnerDeletes, TokenEnds
  <2>5. ASSUME UNCHANGED vars PROVE bubbles' \subseteq bubbles
    BY <2>5 DEF vars
  <2> QED
    BY <2>2, <2>3, <2>4, <2>5
<1>2. CASE bubbles' \subseteq bubbles
  BY <1>2 DEF ShownAsSent, Rendered
<1>3. ASSUME NEW g \in Sockets, down[g] # <<>>, Show(Head(down[g])) PROVE ShownAsSent'
  <2> DEFINE m == Head(down[g])
  <2>1. down[g] \in Seq(DownFrame)
    BY DEF Typed, NetTypes
  <2>2. m \in DownFrame
    BY <1>3, <2>1, TailOf
  <2> HIDE DEF m
  <2>3. m.type = "message" => m.sent \in [user: Names, text: Texts] /\ Rendered(m)
    BY <2>2 DEF DownFrame
  <2>4. \A b \in bubbles' :
          \/ b \in bubbles
          \/ m.type = "message" /\ b.from = m.from /\ b.view = m.view /\ b.sent = m.sent
    BY <1>3 DEF Show, m
  <2> QED
    BY <2>3, <2>4 DEF ShownAsSent, Rendered
<1> QED
  BY <1>1, <1>2, <1>3

-----------------------------------------------------------------------------
(* The room of the page and the rooms of the server. *)

LEMMA LeadsTold ==
  ASSUME NEW u, NEW J, NEW c, NEW told \in BOOLEAN, NEW now \in BOOLEAN, Leads(u, J, c, told), told => now
  PROVE  Leads(u, J, c, now)
BY DEF Leads

LEMMA TellsOf == \A q, c : Tells(q, c) \in BOOLEAN
BY DEF Tells

LEMMA TellsMore ==
  ASSUME NEW S, NEW q \in Seq(S), NEW c, Tells(q, c)
  PROVE  /\ \A x \in S : Tells(Append(q, x), c)
         /\ \A p \in Seq(S) : Tells(q \o p, c)
<1>1. PICK i \in DOMAIN q : q[i].type = "deleted" /\ q[i].room = c
  BY DEF Tells
<1>2. ASSUME NEW x \in S PROVE Tells(Append(q, x), c)
  <2>1. i \in DOMAIN Append(q, x) /\ Append(q, x)[i] = q[i]
    BY AppendOf
  <2> QED
    BY <1>1, <2>1 DEF Tells
<1>3. ASSUME NEW p \in Seq(S) PROVE Tells(q \o p, c)
  <2>1. i \in DOMAIN (q \o p) /\ (q \o p)[i] = q[i]
    BY ConcatOf
  <2> QED
    BY <1>1, <2>1 DEF Tells
<1> QED
  BY <1>2, <1>3

LEMMA TellsNow ==
  ASSUME NEW S, NEW q \in Seq(S), NEW x \in S, x.type = "deleted"
  PROVE  Tells(Append(q, x), x.room)
<1>1. Len(q) + 1 \in DOMAIN Append(q, x) /\ Append(q, x)[Len(q) + 1] = x
  BY AppendOf
<1> QED
  BY <1>1 DEF Tells

\* What is not read yet is still to be told.
LEMMA TellsLater ==
  ASSUME NEW S, NEW q \in Seq(S), q # <<>>, NEW c, Tells(q, c),
         ~(Head(q).type = "deleted" /\ Head(q).room = c)
  PROVE  Tells(Tail(q), c)
<1>1. PICK i \in DOMAIN q : q[i].type = "deleted" /\ q[i].room = c
  BY DEF Tells
<1>2. /\ Head(q) = q[1] /\ Len(q) \in Nat /\ DOMAIN q = 1..Len(q) /\ DOMAIN Tail(q) = 1..(Len(q) - 1)
      /\ \A j \in DOMAIN Tail(q) : Tail(q)[j] = q[j + 1]
  BY TailOf
<1>3. i # 1
  BY <1>1, <1>2
<1>4. i - 1 \in DOMAIN Tail(q) /\ (i - 1) + 1 = i
  BY <1>2, <1>3
<1>5. Tail(q)[i - 1] = q[i]
  BY <1>2, <1>4
<1> QED
  BY <1>1, <1>4, <1>5 DEF Tells

LEMMA ToldOf == \A q, W, c : Told(q, W, c) \in BOOLEAN
BY DEF Told

LEMMA WayTold ==
  ASSUME NEW u, NEW J, NEW q, NEW c, NEW told \in BOOLEAN, NEW now \in BOOLEAN,
         Way(u, J, q, c, told), told => now
  PROVE  Way(u, J, q, c, now)
BY LeadsTold DEF Way

\* The client is evicted from d, with a word where it was to stay.
LEMMA WayEvicted ==
  ASSUME NEW u, NEW J, NEW q, NEW c, NEW d, NEW told \in BOOLEAN, NEW now \in BOOLEAN,
         Way(u, J, q, c, told), told => now, d = c /\ d \in J => now \/ Joining(u)
  PROVE  Way(u, J \ {d}, q, c, now)
BY LeadsEvicted DEF Way

LEMMA TwoBehind ==
  ASSUME NEW S, NEW q \in Seq(S), NEW x \in S, NEW y \in S
  PROVE  LET v == q \o <<x, y>> IN
         /\ Len(q) \in Nat /\ DOMAIN q = 1..Len(q) /\ DOMAIN v = 1..(Len(q) + 2)
         /\ \A i \in DOMAIN q : v[i] = q[i]
         /\ v[Len(q) + 1] = x /\ v[Len(q) + 2] = y
OBVIOUS

\* A notice and the eviction behind it leave the client what word it had.
LEMMA EvictingLater ==
  ASSUME NEW q \in Seq(Task), NEW x \in Task, NEW y \in Task, x.type = "deleted", x.room = y.room, NEW c,
         Evicting(q \o <<x, y>>, c)
  PROVE  Evicting(q, c)
<1> DEFINE v == q \o <<x, y>>
<1>1. /\ Len(q) \in Nat /\ DOMAIN q = 1..Len(q) /\ DOMAIN v = 1..(Len(q) + 2)
      /\ \A i \in DOMAIN q : v[i] = q[i]
      /\ v[Len(q) + 1] = x /\ v[Len(q) + 2] = y
  BY TwoBehind
<1>2. Evicting(v, c)
  OBVIOUS
<1> HIDE DEF v
<1>3. PICK i \in DOMAIN v : v[i].type = "evict" /\ v[i].room = c /\ \A j \in 1..(i - 1) : v[j].room # c
  BY <1>2 DEF Evicting
<1>4. i # Len(q) + 1
  BY <1>1, <1>3
<1>5. i # Len(q) + 2
  <2>1. i = Len(q) + 2 => Len(q) + 1 \in 1..(i - 1)
    BY <1>1
  <2> QED
    BY <1>1, <1>3, <2>1
<1>6. i \in DOMAIN q /\ \A j \in 1..(i - 1) : j \in DOMAIN q
  BY <1>1, <1>4, <1>5
<1> QED
  BY <1>1, <1>3, <1>6 DEF Evicting

\* The first task has run: an eviction it was in front of may now be first.
LEMMA EvictingNext ==
  ASSUME NEW q \in Seq(Task), q # <<>>, NEW c
  PROVE  /\ Evicting(Tail(q), c) /\ Head(q).room # c => Evicting(q, c)
         /\ Head(q).type = "evict" /\ Head(q).room = c => Evicting(q, c)
<1>1. /\ Head(q) = q[1] /\ Len(q) \in Nat \ {0} /\ DOMAIN q = 1..Len(q) /\ DOMAIN Tail(q) = 1..(Len(q) - 1)
      /\ \A i \in DOMAIN Tail(q) : i + 1 \in DOMAIN q /\ Tail(q)[i] = q[i + 1]
  BY TailOf
<1>2. ASSUME Evicting(Tail(q), c), Head(q).room # c PROVE Evicting(q, c)
  <2>1. PICK i \in DOMAIN Tail(q) : /\ Tail(q)[i].type = "evict" /\ Tail(q)[i].room = c
                                   /\ \A j \in 1..(i - 1) : Tail(q)[j].room # c
    BY <1>2 DEF Evicting
  <2>2. i + 1 \in DOMAIN q /\ q[i + 1].type = "evict" /\ q[i + 1].room = c
    BY <1>1, <2>1
  <2>3. ASSUME NEW j \in 1..((i + 1) - 1) PROVE q[j].room # c
    <3>1. CASE j = 1
      BY <1>1, <1>2, <3>1
    <3>2. CASE j # 1
      <4>1. j - 1 \in 1..(i - 1) /\ j - 1 \in DOMAIN Tail(q) /\ (j - 1) + 1 = j
        BY <1>1, <2>1, <3>2
      <4> QED
        BY <1>1, <2>1, <4>1
    <3> QED
      BY <3>1, <3>2
  <2> QED
    BY <2>2, <2>3 DEF Evicting
<1>3. ASSUME Head(q).type = "evict", Head(q).room = c PROVE Evicting(q, c)
  <2>1. 1 \in DOMAIN q /\ \A j \in 1..(1 - 1) : FALSE
    BY <1>1
  <2> QED
    BY <1>1, <1>3, <2>1 DEF Evicting
<1> QED
  BY <1>2, <1>3

\* Nothing that ws depends on is lost.
LEMMA StillFollows ==
  ASSUME RoomFollows, UNCHANGED <<ws, currentRoom>>,
         ws # 0 /\ ws \notin missed' =>
           /\ ws \notin missed
           /\ readyState'[ws] = "connecting" => readyState[ws] = "connecting"
           /\ url'[ws] = url[ws]
           /\ peer'[ws] = "serving" =>
                /\ peer[ws] = "serving" /\ up'[ws] = up[ws] /\ joined'[ws] = joined[ws]
                /\ tasks'[ws] = tasks[ws] /\ untold'[ws] = untold[ws]
                /\ Tells(down[ws], currentRoom) => Tells(down'[ws], currentRoom)
  PROVE  RoomFollows'
<1> SUFFICES ASSUME ws # 0, ws \notin missed'
             PROVE  /\ readyState'[ws] = "connecting" => url'[ws].room = currentRoom
                    /\ peer'[ws] = "serving" =>
                         Way(up'[ws], joined'[ws], tasks'[ws], currentRoom, Told(down'[ws], untold'[ws], currentRoom))
  BY DEF RoomFollows
<1>1. /\ readyState[ws] = "connecting" => url[ws].room = currentRoom
      /\ peer[ws] = "serving" =>
           Way(up[ws], joined[ws], tasks[ws], currentRoom, Told(down[ws], untold[ws], currentRoom))
  BY DEF RoomFollows
<1>2. ASSUME peer'[ws] = "serving"
      PROVE  Way(up'[ws], joined'[ws], tasks'[ws], currentRoom, Told(down'[ws], untold'[ws], currentRoom))
  <2>1. Way(up'[ws], joined'[ws], tasks'[ws], currentRoom, Told(down[ws], untold[ws], currentRoom))
    BY <1>1, <1>2
  <2>2. Told(down[ws], untold[ws], currentRoom) => Told(down'[ws], untold'[ws], currentRoom)
    BY <1>2 DEF Told
  <2> QED
    BY <2>1, <2>2, ToldOf, WayTold
<1> QED
  BY <1>1, <1>2

\* switchRoom keeps the server on the way to the room, or misses a socket that
\* is still connecting.
LEMMA SwitchFollows ==
  ASSUME Typed, WsCurrent, RoomFollows, NEW r \in AllRooms, SwitchRoom(r),
         UNCHANGED <<ws, readyState, url, peer, joined, tasks, untold>>,
         ws # 0 /\ currentRoom = r /\ Tells(down[ws], currentRoom) => Tells(down'[ws], currentRoom)
  PROVE  RoomFollows'
<1>1. CASE currentRoom = r
  <2>1. UNCHANGED <<ws, currentRoom, up, missed>>
    BY <1>1 DEF SwitchRoom
  <2> QED
    BY <1>1, <2>1, StillFollows
<1>2. CASE currentRoom # r
  <2> DEFINE now == Told(down'[ws], untold[ws], r)
  <2> SUFFICES ASSUME ws # 0, ws \notin missed'
               PROVE  /\ readyState[ws] # "connecting"
                      /\ peer[ws] = "serving" => Way(up'[ws], joined[ws], tasks[ws], r, now)
    BY DEF RoomFollows, SwitchRoom
  <2>1. ws \in Sockets /\ readyState[ws] \in {"connecting", "open"}
    BY Numbered DEF WsCurrent
  <2>2. readyState[ws] = "open" /\ ws \notin missed
    BY <1>2, <2>1 DEF SwitchRoom
  <2> DEFINE w == <<[type |-> "leave", room |-> currentRoom], [type |-> "join", room |-> r]>>
  <2>3. up' = [up EXCEPT ![ws] = @ \o w]
    BY <1>2, <2>2 DEF SwitchRoom
  <2>n. now \in BOOLEAN
    BY ToldOf
  <2> HIDE DEF w, now
  <2>4. up'[ws] = up[ws] \o w
    BY <2>1, <2>3 DEF Typed, NetTypes
  <2>5. ASSUME peer[ws] = "serving" PROVE Way(up'[ws], joined[ws], tasks[ws], r, now)
    <3>1. up[ws] \in Seq(UpFrame) /\ currentRoom \in AllRooms
      BY <2>1 DEF Typed, NetTypes, PageTypes
    <3>2. Leads(up[ws], joined[ws], currentRoom, Told(down[ws], untold[ws], currentRoom))
      BY <2>2, <2>5 DEF RoomFollows, Way
    <3>3. Leads(up[ws] \o w, joined[ws], r, now) /\ Joining(up[ws] \o w)
      BY <2>n, <3>1, <3>2, ToldOf, LeadsWithSwitch DEF w
    <3> QED
      BY <2>4, <3>3 DEF Way
  <2> QED
    BY <2>2, <2>5
<1> QED
  BY <1>1, <1>2

\* A room other than general is gone: the clients in it are told, now or before they
\* are evicted.
LEMMA DeleteFollows ==
  ASSUME Typed, RoomFollows, NEW d \in Rooms, NEW own, DeleteRoom(d, own),
         UNCHANGED <<ws, currentRoom, readyState, up, peer, url, missed, untold>>
  PROVE  RoomFollows'
<1> DEFINE told == Told(down[ws], untold[ws], currentRoom)
           now == Told(down'[ws], untold[ws], currentRoom)
<1> SUFFICES ASSUME ws # 0, ws \notin missed
             PROVE  /\ readyState[ws] = "connecting" => url[ws].room = currentRoom
                    /\ peer[ws] = "serving" => Way(up[ws], joined'[ws], tasks'[ws], currentRoom, now)
  BY DEF RoomFollows
<1>1. /\ readyState[ws] = "connecting" => url[ws].room = currentRoom
      /\ peer[ws] = "serving" => Way(up[ws], joined[ws], tasks[ws], currentRoom, told)
  BY DEF RoomFollows
<1>2. ws \in Sockets /\ down[ws] \in Seq(DownFrame) /\ tasks[ws] \in Seq(Task)
  BY Numbered DEF Typed, NetTypes
<1>b. told \in BOOLEAN /\ now \in BOOLEAN
  BY ToldOf
<1>3. ASSUME ws \in own, peer[ws] = "serving" PROVE Way(up[ws], joined'[ws], tasks'[ws], currentRoom, now)
  <2> DEFINE x == [type |-> "deleted", room |-> d]
  <2>1. x \in DownFrame /\ x.type = "deleted" /\ x.room = d
    BY FrameFields
  <2>2. /\ joined'[ws] = joined[ws] \ {d} /\ tasks'[ws] = tasks[ws]
        /\ down'[ws] = IF d \in joined[ws] THEN Append(down[ws], x) ELSE down[ws]
    BY <1>2, <1>3 DEF DeleteRoom
  <2> HIDE DEF x
  <2>3. Tells(down[ws], currentRoom) => Tells(Append(down[ws], x), currentRoom)
    BY <1>2, <2>1, TellsMore
  <2>4. Tells(Append(down[ws], x), d)
    BY <1>2, <2>1, TellsNow
  <2>5. (told => now) /\ (d = currentRoom /\ d \in joined[ws] => now)
    BY <2>2, <2>3, <2>4 DEF Told
  <2> HIDE DEF told, now
  <2>6. Way(up[ws], joined[ws] \ {d}, tasks[ws], currentRoom, now)
    BY <1>1, <1>3, <1>b, <2>5, WayEvicted
  <2> QED
    BY <2>2, <2>6
<1>4. ASSUME ws \notin own, peer[ws] = "serving" PROVE Way(up[ws], joined'[ws], tasks'[ws], currentRoom, now)
  <2> DEFINE x == [type |-> "deleted", room |-> d]
             y == [type |-> "evict", room |-> d]
             v == tasks[ws] \o <<x, y>>
  <2>1. joined'[ws] = joined[ws] /\ down'[ws] = down[ws] /\ tasks'[ws] = v
    BY <1>2, <1>4 DEF DeleteRoom, Served
  <2>2. Evicting(v, currentRoom) => Evicting(tasks[ws], currentRoom)
    <3>1. x \in Task /\ y \in Task /\ x.type = "deleted" /\ x.room = y.room
      BY FrameFields
    <3> HIDE DEF x, y
    <3> QED
      BY <1>2, <3>1, EvictingLater
  <2> HIDE DEF v
  <2>3. Way(up[ws], joined[ws], v, currentRoom, told)
    BY <1>1, <1>4, <2>2 DEF Way
  <2> QED
    BY <2>1, <2>3
<1> QED
  BY <1>1, <1>3, <1>4

\* A socket that is being made will be in the room of the page.
LEMMA ConnectFollows ==
  ASSUME Typed, ConnectWebSocket, UNCHANGED currentRoom
  PROVE  RoomFollows'
<1>1. url'[ws'].room = currentRoom /\ peer'[ws'] = "asked"
  BY Connects
<1> QED
  BY <1>1 DEF RoomFollows

LEMMA UpgradeFollows ==
  ASSUME Typed, WsCurrent, SocketsBlank, RoomFollows, NEW g \in Sockets, Upgrade(g)
  PROVE  RoomFollows'
<1> USE DEF pageVars, timerVars, netVars, serverVars, boundVars, seenVars
<1>0. UNCHANGED <<ws, currentRoom, missed, readyState, url, up, tasks>> /\ JoinRoom(g, url[g].room)
  BY DEF Upgrade
<1>1. CASE g # ws
  <2>1. ws # 0 => /\ peer'[ws] = peer[ws] /\ joined'[ws] = joined[ws] /\ down'[ws] = down[ws]
                  /\ untold'[ws] = untold[ws]
    BY <1>1, Numbered DEF Upgrade, JoinRoom, Typed, NetTypes
  <2> QED
    BY <1>0, <2>1, StillFollows
<1>2. CASE g = ws
  <2> DEFINE now == Told(down'[ws], untold'[ws], currentRoom)
  <2> SUFFICES ASSUME ws # 0, ws \notin missed
               PROVE  /\ readyState[ws] = "connecting" => url[ws].room = currentRoom
                      /\ Way(up[ws], joined'[ws], tasks[ws], currentRoom, now)
    BY <1>0 DEF RoomFollows
  <2>1. readyState[ws] = "connecting" /\ url[ws].room = currentRoom /\ peer[ws] = "admitted"
    BY <1>2 DEF RoomFollows, Upgrade
  <2>2. up[ws] = <<>> /\ joined[ws] = {}
    BY <1>2, <2>1 DEF SocketsBlank, Blank
  <2>3. joined'[ws] = {currentRoom}
    BY <1>0, <1>2, <2>1, <2>2 DEF JoinRoom, Typed, NetTypes
  <2>4. Evicting(tasks[ws], currentRoom) => currentRoom \in untold'[ws]
    BY <1>0, <1>2, <2>1 DEF JoinRoom, Typed, NetTypes
  <2>5. Leads(up[ws], joined'[ws], currentRoom, now)
    BY <2>2, <2>3, ToldOf, LeadsNowhere
  <2> QED
    BY <2>1, <2>4, <2>5 DEF Way, Told
<1> QED
  BY <1>1, <1>2

\* The server takes a frame of ws.
LEMMA ServeFollows ==
  ASSUME Typed, WsCurrent, RoomFollows, NEW g \in Sockets, Serve(g)
  PROVE  RoomFollows'
<1> USE DEF pageVars, timerVars, netVars, serverVars, boundVars, seenVars
<1> DEFINE m == Head(up[g])
<1>0. /\ UNCHANGED <<ws, currentRoom, readyState, peer, url, tasks, missed>> /\ peer[g] = "serving" /\ up[g] # <<>>
      /\ up' = [up EXCEPT ![g] = Tail(@)]
  BY DEF Serve
<1>a. up[g] \in Seq(UpFrame) /\ \A h \in Sockets : down[h] \in Seq(DownFrame)
  BY DEF Typed, NetTypes
<1>b. m \in UpFrame /\ m = up[g][1]
  BY <1>0, <1>a, TailOf
<1>c. m.type \in {"leave", "join", "send"} /\ m.room \in AllRooms /\ (m.type = "send" => m.text \in Texts)
  BY <1>b, FrameFields
<1> HIDE DEF m
<1>d. ASSUME NEW h \in Sockets PROVE Tells(down[h], currentRoom) => Tells(down'[h], currentRoom)
  <2>1. CASE down'[h] = down[h]
    BY <2>1
  <2>2. CASE down'[h] = down[h] \o History(m.room)
    <3>1. History(m.room) \in Seq(DownFrame)
      BY <1>c, HistoryTypes DEF Typed
    <3> QED
      BY <1>a, <2>2, <3>1, TellsMore
  <2>3. CASE m.type = "send" /\ down'[h] = Append(down[h], Frame(m.room, m.text, "live"))
    <3>1. Frame(m.room, m.text, "live") \in DownFrame
      BY <1>c, <2>3, ShownTypes DEF Typed, ServerTypes
    <3> QED
      BY <1>a, <2>3, <3>1, TellsMore
  <2>4. CASE down'[h] = Append(down[h], [type |-> "missing", room |-> m.room])
    <3>1. [type |-> "missing", room |-> m.room] \in DownFrame
      BY <1>c, FrameFields
    <3> QED
      BY <1>a, <2>4, <3>1, TellsMore
  <2>5. \/ down'[h] = down[h]
        \/ down'[h] = down[h] \o History(m.room)
        \/ m.type = "send" /\ down'[h] = Append(down[h], Frame(m.room, m.text, "live"))
        \/ down'[h] = Append(down[h], [type |-> "missing", room |-> m.room])
    <3>1. \/ down' = down
          \/ down' = [down EXCEPT ![g] = @ \o History(m.room)]
          \/ m.type = "send" /\ down' = [i \in Sockets |-> IF m.room \in joined[i]
                                    THEN Append(down[i], Frame(m.room, m.text, "live")) ELSE down[i]]
          \/ down' = [down EXCEPT ![g] = Append(@, [type |-> "missing", room |-> m.room])]
      BY DEF Serve, m
    <3>2. down = [i \in Sockets |-> down[i]]
      BY DEF Typed, NetTypes
    <3> QED
      BY <3>1, <3>2
  <2> QED
    BY <2>1, <2>2, <2>3, <2>4, <2>5
<1>1. CASE g # ws
  <2>1. ws # 0 => up'[ws] = up[ws]
    BY <1>0, <1>1, Numbered DEF Typed, NetTypes
  <2>2. ws # 0 => joined'[ws] = joined[ws] /\ untold'[ws] = untold[ws]
    BY <1>1, Numbered DEF Serve, JoinRoom, Typed, NetTypes
  <2>3. ws # 0 => (Tells(down[ws], currentRoom) => Tells(down'[ws], currentRoom))
    BY <1>d, Numbered
  <2> QED
    BY <1>0, <2>1, <2>2, <2>3, StillFollows
<1>2. CASE g = ws
  <2> DEFINE told == Told(down[ws], untold[ws], currentRoom)
             now == Told(down'[ws], untold'[ws], currentRoom)
  <2> SUFFICES ASSUME ws # 0, ws \notin missed
               PROVE  /\ readyState[ws] = "connecting" => url[ws].room = currentRoom
                      /\ Way(Tail(up[ws]), joined'[ws], tasks[ws], currentRoom, now)
    BY <1>0, <1>2 DEF RoomFollows, Typed, NetTypes
  <2>1. /\ readyState[ws] = "connecting" => url[ws].room = currentRoom
        /\ Way(up[ws], joined[ws], tasks[ws], currentRoom, told)
    BY <1>0, <1>2 DEF RoomFollows
  <2>2. /\ Leads(up[ws], joined[ws], currentRoom, told)
        /\ Evicting(tasks[ws], currentRoom) /\ currentRoom \in joined[ws] => told \/ Joining(up[ws])
    BY <2>1 DEF Way
  <2>3. up[ws] \in Seq(UpFrame) /\ up[ws] # <<>> /\ up[ws][1] = m
    BY <1>0, <1>2, <1>a, <1>b
  <2>4. untold[ws] \subseteq untold'[ws] => (told => now)
    BY <1>2, <1>d DEF Told
  <2>b. told \in BOOLEAN /\ now \in BOOLEAN
    BY ToldOf
  <2>5. currentRoom \in untold'[ws] => now
    BY DEF Told
  <2> HIDE DEF told, now
  <2>6. CASE m.type = "leave"
    <3>1. joined'[ws] = joined[ws] \ {up[ws][1].room}
      BY <1>2, <2>3, <2>6 DEF Serve, Typed, NetTypes, m
    <3>2. Leads(Tail(up[ws]), joined[ws] \ {up[ws][1].room}, currentRoom, now) /\ Joining(Tail(up[ws]))
      BY <2>2, <2>3, <2>b, <2>6, LeadsPastLeave
    <3> QED
      BY <2>1, <3>1, <3>2 DEF Way
  <2>7. CASE m.type = "join"
    <3>1. JoinRoom(ws, m.room)
      BY <1>2, <2>7 DEF Serve, m
    <3>2. joined'[ws] = joined[ws] \cup {up[ws][1].room}
      BY <1>2, <2>3, <3>1 DEF JoinRoom, Typed, NetTypes
    <3>3. Evicting(tasks[ws], currentRoom) /\ m.room = currentRoom => currentRoom \in untold'[ws]
      BY <1>2, <3>1 DEF JoinRoom, Typed, NetTypes
    <3>4. /\ Leads(Tail(up[ws]), joined[ws] \cup {up[ws][1].room}, currentRoom, now)
          /\ up[ws][1].room = currentRoom \/ Joining(Tail(up[ws]))
      BY <2>2, <2>3, <2>b, <2>7, LeadsPastJoin
    <3> QED
      BY <2>1, <2>3, <2>5, <3>2, <3>3, <3>4 DEF Way
  <2>8. CASE m.type = "send"
    <3>1. Leads(Tail(up[ws]), joined[ws], currentRoom, told) /\ (Joining(up[ws]) => Joining(Tail(up[ws])))
      BY <2>2, <2>3, <2>b, <2>8, LeadsPastSend
    <3>2. Way(Tail(up[ws]), joined[ws], tasks[ws], currentRoom, told)
      BY <2>2, <3>1 DEF Way
    <3>3. CASE UNCHANGED <<joined, untold>>
      BY <2>1, <2>4, <2>b, <3>2, <3>3, WayTold
    <3>4. CASE joined' = [joined EXCEPT ![g] = @ \ {m.room}] /\ untold' = [untold EXCEPT ![g] = @ \cup {m.room}]
      <4>1. joined'[ws] = joined[ws] \ {m.room} /\ untold'[ws] = untold[ws] \cup {m.room}
        BY <1>2, <3>4 DEF Typed, NetTypes
      <4>2. (told => now) /\ (m.room = currentRoom => now)
        BY <2>4, <2>5, <4>1
      <4>3. Way(Tail(up[ws]), joined[ws] \ {m.room}, tasks[ws], currentRoom, now)
        BY <2>b, <3>2, <4>2, WayEvicted
      <4> QED
        BY <2>1, <4>1, <4>3
    <3> QED
      BY <1>2, <2>8, <3>3, <3>4 DEF Serve, m
  <2> QED
    BY <1>c, <2>6, <2>7, <2>8
<1> QED
  BY <1>1, <1>2

\* The Worker of ws tells or evicts: a notice of the room shown arrives, and an
\* eviction takes the client from it only with word.
LEMMA ResumeFollows ==
  ASSUME Typed, WsCurrent, RoomFollows, NEW g \in Sockets, Resume(g)
  PROVE  RoomFollows'
<1> USE DEF pageVars, timerVars, netVars, serverVars, boundVars, seenVars
<1>0. UNCHANGED <<ws, currentRoom, missed, readyState, url, peer, up, untold>>
  BY DEF Resume
<1>1. CASE g # ws
  <2>1. ws # 0 => tasks'[ws] = tasks[ws] /\ joined'[ws] = joined[ws] /\ down'[ws] = down[ws]
    BY <1>1, Numbered DEF Resume, Typed, NetTypes
  <2> QED
    BY <1>0, <2>1, StillFollows
<1>2. CASE g = ws
  <2> DEFINE c == currentRoom
             t == Head(tasks[ws])
             q == tasks[ws]
             told == Told(down[ws], untold[ws], c)
             now == Told(down'[ws], untold[ws], c)
  <2> SUFFICES ASSUME ws # 0, ws \notin missed
               PROVE  /\ readyState[ws] = "connecting" => url[ws].room = c
                      /\ peer[ws] = "serving" => Way(up[ws], joined'[ws], Tail(q), c, now)
    BY <1>0, <1>2 DEF RoomFollows, Resume, Typed, NetTypes
  <2>1. /\ readyState[ws] = "connecting" => url[ws].room = c
        /\ peer[ws] = "serving" => Way(up[ws], joined[ws], q, c, told)
    BY DEF RoomFollows
  <2>2. q \in Seq(Task) /\ q # <<>> /\ down[ws] \in Seq(DownFrame)
    BY <1>2 DEF Resume, Typed, NetTypes
  <2>3. t \in Task /\ t.type \in {"deleted", "evict"} /\ (t.type = "deleted" => t \in DownFrame)
    BY <2>2, TailOf, FrameFields
  <2>4. /\ t.type = "deleted" => /\ joined'[ws] = joined[ws]
                                /\ down'[ws] = IF t.room \in joined[ws] THEN Append(down[ws], t) ELSE down[ws]
        /\ t.type = "evict" => joined'[ws] = joined[ws] \ {t.room} /\ down'[ws] = down[ws]
    BY <1>2 DEF Resume, Typed, NetTypes
  <2>5. /\ Evicting(Tail(q), c) /\ t.room # c => Evicting(q, c)
        /\ t.type = "evict" /\ t.room = c => Evicting(q, c)
    BY <2>2, EvictingNext
  <2>b. told \in BOOLEAN /\ now \in BOOLEAN
    BY ToldOf
  <2>t. (Tells(down[ws], c) => Tells(down'[ws], c)) => (told => now)
    BY DEF Told
  <2>n. Tells(down'[ws], c) => now
    BY DEF Told
  <2> HIDE DEF c, t, q, told, now
  <2>6. ASSUME t.type = "deleted", peer[ws] = "serving" PROVE Way(up[ws], joined'[ws], Tail(q), c, now)
    <3>1. Tells(down[ws], c) => Tells(Append(down[ws], t), c)
      BY <2>2, <2>3, <2>6, TellsMore
    <3>2. Tells(Append(down[ws], t), t.room)
      BY <2>2, <2>3, <2>6, TellsNow
    <3>3. told => now
      BY <2>4, <2>6, <2>t, <3>1
    <3>4. t.room = c /\ c \in joined[ws] => now
      BY <2>4, <2>6, <2>n, <3>2
    <3>5. Leads(up[ws], joined[ws], c, now)
      BY <2>1, <2>6, <2>b, <3>3, LeadsTold DEF Way
    <3>6. Evicting(q, c) /\ c \in joined[ws] => now \/ Joining(up[ws])
      BY <2>1, <2>6, <3>3 DEF Way
    <3> QED
      BY <2>4, <2>5, <2>6, <3>4, <3>5, <3>6 DEF Way
  <2>7. ASSUME t.type = "evict", peer[ws] = "serving" PROVE Way(up[ws], joined'[ws], Tail(q), c, now)
    <3>1. told => now
      BY <2>4, <2>7, <2>t
    <3>2. t.room = c /\ t.room \in joined[ws] => now \/ Joining(up[ws])
      BY <2>1, <2>5, <2>7, <3>1 DEF Way
    <3>3. Way(up[ws], joined[ws] \ {t.room}, q, c, now)
      BY <2>1, <2>7, <2>b, <3>1, <3>2, WayEvicted
    <3>4. c \in joined[ws] \ {t.room} => t.room # c
      OBVIOUS
    <3> QED
      BY <2>4, <2>5, <2>7, <3>3, <3>4 DEF Way
  <2> QED
    BY <2>1, <2>3, <2>6, <2>7
<1> QED
  BY <1>1, <1>2

\* The page takes a frame: only the news that its room is gone moves it.
LEMMA ReceiveFollows ==
  ASSUME Typed, WsCurrent, RoomFollows, NEW g \in Sockets, Receive(g)
  PROVE  RoomFollows'
<1> USE DEF pageVars, timerVars, netVars, serverVars, boundVars, seenVars
<1> DEFINE m == Head(down[g])
<1>0. /\ UNCHANGED <<ws, peer, url, joined, tasks, untold>> /\ down[g] # <<>> /\ down' = [down EXCEPT ![g] = Tail(@)]
  BY DEF Receive
<1>a. down[g] \in Seq(DownFrame) /\ m \in DownFrame
  <2>1. down[g] \in Seq(DownFrame)
    BY DEF Typed, NetTypes
  <2> QED
    BY <1>0, <2>1, TailOf
<1>b. m.type = "deleted" => m.room \in Rooms /\ m.room # General
  BY <1>a, FrameFields, PageAssumption
<1>c. General \in AllRooms
  BY DEF AllRooms
<1> HIDE DEF m
<1>d. ASSUME ws # 0, ~(m.type = "deleted" /\ m.room = currentRoom) \/ g # ws,
             Tells(down[ws], currentRoom)
      PROVE  Tells(down'[ws], currentRoom)
  <2>1. CASE g # ws
    BY <1>0, <1>d, <2>1, Numbered DEF Typed, NetTypes
  <2>2. CASE g = ws
    <3>1. down'[ws] = Tail(down[ws])
      BY <1>0, <2>2 DEF Typed, NetTypes
    <3>2. Tells(Tail(down[ws]), currentRoom)
      BY <1>0, <1>a, <1>d, <2>2, TellsLater DEF m
    <3> QED
      BY <3>1, <3>2
  <2> QED
    BY <2>1, <2>2
<1>1. CASE m.type # "deleted"
  <2>1. UNCHANGED <<currentRoom, up, missed>>
    BY <1>1 DEF Receive, m
  <2>2. ws # 0 => (readyState'[ws] = "connecting" => readyState[ws] = "connecting")
    <3>1. readyState' = readyState \/ readyState' = [readyState EXCEPT ![g] = "open"]
      BY DEF Receive
    <3> QED
      BY <3>1, Numbered DEF Typed, NetTypes
  <2> QED
    BY <1>0, <1>1, <1>d, <2>1, <2>2, StillFollows
<1>2. CASE m.type = "deleted" /\ ~Stale(g) /\ currentRoom = m.room
  <2>1. SwitchRoom(General) /\ UNCHANGED readyState
    BY <1>2 DEF Receive, m
  <2>2. currentRoom # General
    BY <1>2, <1>b
  <2> QED
    BY <1>0, <1>c, <2>1, <2>2, SwitchFollows
<1>3. CASE m.type = "deleted" /\ ~(~Stale(g) /\ currentRoom = m.room)
  <2>1. UNCHANGED <<currentRoom, up, missed, readyState>>
    BY <1>3 DEF Receive, m
  <2>2. ws # 0 => m.room # currentRoom \/ g # ws
    BY <1>3, FreshIsWs
  <2> QED
    BY <1>0, <1>d, <2>1, <2>2, StillFollows
<1> QED
  BY <1>1, <1>2, <1>3

LEMMA RoomKept ==
  ASSUME Typed, WsCurrent, SocketsBlank, RoomFollows, [Next]_vars
  PROVE  RoomFollows'
<1> USE DEF pageVars, timerVars, netVars, serverVars, boundVars, seenVars
<1>0. ws # 0 => ws \in Sockets
  BY Numbered
<1>a. ASSUME ws' = 0 PROVE RoomFollows'
  BY <1>a DEF RoomFollows
<1>u. ASSUME UNCHANGED <<ws, currentRoom, missed, readyState, url, peer, up, joined, tasks, untold, down>>
      PROVE  RoomFollows'
  BY <1>u, StillFollows
<1>w. ASSUME NEW r \in AllRooms, SwitchRoom(r), UNCHANGED <<ws, readyState, url, peer, joined, tasks, untold, down>>
      PROVE  RoomFollows'
  BY <1>w, SwitchFollows
<1>1. ASSUME NEW k \in Calls, Login(k) PROVE RoomFollows'
  BY <1>1, <1>u DEF Login
<1>2. ASSUME Logout PROVE RoomFollows'
  BY <1>2, <1>a DEF Logout, CloseSocket
<1>3. ASSUME NEW r \in AllRooms, ClickRoom(r) PROVE RoomFollows'
  BY <1>3, <1>w DEF ClickRoom
<1>4. ASSUME NEW k \in Calls, NEW fn \in {"enter", "exit"}, NEW r \in Rooms, Start(k, fn, r) PROVE RoomFollows'
  BY <1>4, <1>u DEF Start
<1>5. ASSUME NEW t \in Texts, Send(t) PROVE RoomFollows'
  <2> DEFINE m == [type |-> "send", room |-> currentRoom, text |-> t]
             told == Told(down[ws], untold[ws], currentRoom)
  <2>1. m \in UpFrame /\ m.type = "send"
    BY FrameFields DEF Typed, PageTypes
  <2>2. ws # 0 /\ up' = [up EXCEPT ![ws] = Append(@, m)]
        /\ UNCHANGED <<ws, currentRoom, missed, readyState, url, peer, joined, tasks, untold, down>>
    BY <1>5 DEF Send
  <2> HIDE DEF m
  <2>3. up[ws] \in Seq(UpFrame) /\ up'[ws] = Append(up[ws], m)
    BY <1>0, <2>2 DEF Typed, NetTypes
  <2>4. ASSUME ws \notin missed
        PROVE  /\ readyState[ws] = "connecting" => url[ws].room = currentRoom
               /\ peer[ws] = "serving" => Way(up[ws], joined[ws], tasks[ws], currentRoom, told)
    BY <2>2, <2>4 DEF RoomFollows
  <2>b. told \in BOOLEAN
    BY ToldOf
  <2> HIDE DEF told
  <2>5. ASSUME ws \notin missed, peer[ws] = "serving"
        PROVE  Way(Append(up[ws], m), joined[ws], tasks[ws], currentRoom, told)
    <3>1. /\ Leads(up[ws], joined[ws], currentRoom, told)
          /\ Evicting(tasks[ws], currentRoom) /\ currentRoom \in joined[ws] => told \/ Joining(up[ws])
      BY <2>4, <2>5 DEF Way
    <3>2. Leads(Append(up[ws], m), joined[ws], currentRoom, told) /\ (Joining(up[ws]) => Joining(Append(up[ws], m)))
      BY <2>1, <2>3, <2>b, <3>1, LeadsWithSend
    <3> QED
      BY <3>1, <3>2 DEF Way
  <2> USE DEF told
  <2> QED
    BY <2>2, <2>3, <2>4, <2>5 DEF RoomFollows
<1>6. ASSUME NEW k \in Calls, LoginReturns(k) PROVE RoomFollows'
  BY <1>6, <1>a DEF LoginReturns, CloseSocket
<1>7. ASSUME NEW k \in Calls, CallReturns(k) PROVE RoomFollows'
  <2>1. General \in AllRooms
    BY DEF AllRooms
  <2> QED
    BY <1>7, <1>u, <1>w, <2>1 DEF CallReturns
<1>8. ASSUME NEW k \in Calls, LoginConnects(k) PROVE RoomFollows'
  BY <1>8, ConnectFollows DEF LoginConnects
<1>9. ASSUME NEW k \in Calls, CallEnds(k) PROVE RoomFollows'
  <2>1. call[k].room \in AllRooms
    BY CallFields
  <2> QED
    BY <1>9, <1>u, <1>w, <2>1 DEF CallEnds
<1>10. ASSUME NEW g \in Sockets, Receive(g) PROVE RoomFollows'
  BY <1>10, ReceiveFollows
<1>11. ASSUME NEW g \in Sockets, OnClose(g) PROVE RoomFollows'
  <2>1. CASE ws = 0 \/ ~Stale(g)
    BY <1>11, <1>a, <2>1 DEF OnClose
  <2>2. CASE ws # 0 /\ Stale(g)
    <3>1. g # ws
      BY <2>2, FreshIsWs
    <3>2. readyState' = [readyState EXCEPT ![g] = "closed"]
          /\ UNCHANGED <<ws, currentRoom, missed, url, peer, up, joined, tasks, untold, down>>
      BY <1>11, <2>2 DEF OnClose
    <3>3. readyState'[ws] = readyState[ws]
      BY <1>0, <2>2, <3>1, <3>2 DEF Typed, NetTypes
    <3> QED
      BY <3>2, <3>3, StillFollows
  <2> QED
    BY <2>1, <2>2
<1>12. ASSUME TimerFires PROVE RoomFollows'
  BY <1>12, ConnectFollows DEF TimerFires
<1>13. ASSUME NEW g \in Sockets, Upgrade(g) PROVE RoomFollows'
  BY <1>13, UpgradeFollows
<1>14. ASSUME NEW g \in Sockets, Serve(g) PROVE RoomFollows'
  BY <1>14, ServeFollows
<1>15. ASSUME NEW g \in Sockets, ServerEnds(g) \/ Lose(g) PROVE RoomFollows'
  <2>1. Gone(g)
    BY <1>15 DEF ServerEnds, Lose
  <2>2. UNCHANGED <<ws, currentRoom, missed, readyState, url, untold>>
    BY <2>1 DEF Gone
  <2>3. CASE g = ws
    <3>1. peer'[ws] = "gone"
      BY <2>1, <2>3 DEF Gone, Typed, NetTypes
    <3> QED
      BY <2>2, <3>1, StillFollows
  <2>4. CASE g # ws
    <3>1. ws # 0 => /\ peer'[ws] = peer[ws] /\ up'[ws] = up[ws] /\ joined'[ws] = joined[ws]
                    /\ down'[ws] = down[ws] /\ tasks'[ws] = tasks[ws]
      BY <1>0, <2>1, <2>4 DEF Gone, Typed, NetTypes
    <3> QED
      BY <2>2, <3>1, StillFollows
  <2> QED
    BY <2>3, <2>4
<1>16. ASSUME NEW k \in Calls, Answer(k) PROVE RoomFollows'
  <2>1. UNCHANGED <<ws, currentRoom, missed, readyState, url, peer, up, untold>>
    BY <1>16 DEF Answer
  <2>2. CASE UNCHANGED <<down, joined, tasks>>
    BY <1>u, <2>1, <2>2
  <2>3. CASE call[k].fn = "exit" /\ \E own \in SUBSET Served : DeleteRoom(call[k].room, own)
    <3>1. call[k].room \in Rooms
      BY <2>3, CallFields
    <3> QED
      BY <2>1, <2>3, <3>1, DeleteFollows
  <2> QED
    BY <1>16, <2>2, <2>3 DEF Answer
<1>17. ASSUME NEW r \in Rooms, OwnerDeletes(r) PROVE RoomFollows'
  BY <1>17, DeleteFollows DEF OwnerDeletes
<1>18. ASSUME NEW t \in 1..MaxToken, TokenEnds(t) PROVE RoomFollows'
  BY <1>18, <1>u DEF TokenEnds
<1>19. ASSUME NEW k \in Calls, CallFails(k) PROVE RoomFollows'
  BY <1>19, <1>u DEF CallFails
<1>21. ASSUME NEW g \in Sockets, Admit(g) PROVE RoomFollows'
  <2>1. \A h \in Sockets : peer'[h] = "serving" => peer[h] = "serving"
    BY <1>21 DEF Admit, Typed, NetTypes
  <2> QED
    BY <1>0, <1>21, <2>1, StillFollows DEF Admit
<1>22. ASSUME NEW g \in Sockets, Resume(g) PROVE RoomFollows'
  BY <1>22, ResumeFollows
<1>20. ASSUME UNCHANGED vars PROVE RoomFollows'
  BY <1>20, <1>u DEF vars
<1> QED
  BY <1>1, <1>2, <1>3, <1>4, <1>5, <1>6, <1>7, <1>8, <1>9, <1>10, <1>11, <1>12, <1>13, <1>14, <1>15,
     <1>16, <1>17, <1>18, <1>19, <1>20, <1>21, <1>22 DEF Next, User, Page, Server, World

-----------------------------------------------------------------------------
(* Every state. *)

LEMMA PageStarts == Init => PageInv
<1> SUFFICES ASSUME Init PROVE PageInv
  OBVIOUS
<1>0. General \in AllRooms /\ 0 \in 0..MaxToken /\ 0 \in 0..MaxSocket
  BY PageAssumption DEF AllRooms
<1>1. Typed
  <2>1. PageTypes
    <3>1. call \in [Calls -> CallType]
      BY IdleCall DEF Init
    <3>2. token = 0 /\ currentRoom = General /\ ws = 0 /\ wsGeneration = 0 /\ timers = 0 /\ issued = 0
      BY DEF Init
    <3>3. reconnTimer \in BOOLEAN
      BY DEF Init
    <3> QED
      BY <1>0, <3>1, <3>2, <3>3 DEF PageTypes
  <2>2. <<>> \in Seq(UpFrame) /\ <<>> \in Seq(DownFrame) /\ <<>> \in Seq(Texts) /\ <<>> \in Seq(Task)
    OBVIOUS
  <2>3. NetTypes
    BY <1>0, <2>2 DEF Init, NetTypes, ReadyStates, Peers
  <2>4. ServerTypes
    BY <2>2 DEF Init, ServerTypes
  <2>5. CallsKnown
    BY IdleCall DEF Init, CallsKnown
  <2> QED
    BY <2>1, <2>3, <2>4, <2>5 DEF Typed
<1>2. WsCurrent /\ RoomFollows
  BY DEF Init, WsCurrent, RoomFollows
<1>3. SocketsBlank
  BY DEF Init, SocketsBlank, Blank
<1>4. OneLogin
  BY IdleCall DEF Init, OneLogin, Live
<1>5. Shown /\ ShownAsSent
  BY DEF Init, Shown, ShownAsSent
<1> QED
  BY <1>1, <1>2, <1>3, <1>4, <1>5 DEF PageInv, LoginInv

LEMMA PageKept == PageInv /\ [Next]_vars => PageInv'
BY TypesKept, CurrentKept, BlankKept, LoginKept, SentKept, RoomKept DEF PageInv

LEMMA PageAlways == Spec => []PageInv
BY PageStarts, PageKept, PTL DEF Spec

-----------------------------------------------------------------------------
(* The codecs.  What a scan computes is shown by induction over the text: the    *)
(* characters up to which it is right are a set that has 0 and every next one.   *)

\* A set of numbers up to n that has 0, and with a number the next one, has all.
LEMMA UpTo ==
  ASSUME NEW n \in Nat, NEW T, 0 \in T, \A k \in 1..n : k - 1 \in T => k \in T
  PROVE  \A k \in 0..n : k \in T
<1> SUFFICES ASSUME \E k \in 0..n : k \notin T PROVE FALSE
  OBVIOUS
<1> DEFINE R == {p \in Nat \X Nat : p[1] < p[2]}
           Out == {k \in 0..n : k \notin T}
<1>1. R = OpToRel(<, Nat)
  BY DEF OpToRel
<1>2. IsWellFoundedOn(R, Nat)
  BY <1>1, NatLessThanWellFounded
<1>3. Out \subseteq Nat /\ Out # {}
  OBVIOUS
<1>4. \E x \in Out : \A y \in Out : ~(<<y, x>> \in R)
  <2> HIDE DEF R, Out
  <2> QED
    BY <1>2, <1>3, WFMin
<1>5. PICK x \in Out : \A y \in Out : ~(<<y, x>> \in R)
  BY <1>4
<1>6. x \in 1..n /\ x - 1 \in 0..n
  OBVIOUS
<1>7. x - 1 \notin T
  BY <1>6
<1>8. x - 1 \in Out /\ <<x - 1, x>> \in R
  BY <1>6, <1>7
<1> QED
  BY <1>5, <1>8

\* h goes from base on, step by step.
Follows(h, n, S, base, step) ==
  h \in [0..n -> S] /\ h[0] = base /\ \A k \in 1..n : h[k] = step[k][h[k - 1]]

\* There is such a function.
LEMMA Recursion ==
  ASSUME NEW n \in Nat, NEW S, NEW base \in S, NEW step \in [1..n -> [S -> S]]
  PROVE  \E h : Follows(h, n, S, base, step)
<1> DEFINE Partial(m) == {h \in [0..n -> S] : h[0] = base /\ \A k \in 1..m : h[k] = step[k][h[k - 1]]}
           T == {m \in 0..n : Partial(m) # {}}
<1>1. 0 \in T
  <2>1. [k \in 0..n |-> base] \in Partial(0)
    OBVIOUS
  <2> QED
    BY <2>1
<1>2. ASSUME NEW m \in 1..n, m - 1 \in T PROVE m \in T
  <2>1. PICK h \in [0..n -> S] : h[0] = base /\ \A k \in 1..m - 1 : h[k] = step[k][h[k - 1]]
    BY <1>2
  <2> DEFINE g == [h EXCEPT ![m] = step[m][h[m - 1]]]
  <2>2. step[m][h[m - 1]] \in S
    OBVIOUS
  <2>3. g \in [0..n -> S] /\ g[0] = base /\ g[m] = step[m][h[m - 1]]
    BY <2>1, <2>2
  <2>4. \A k \in 0..m - 1 : g[k] = h[k]
    BY <2>1
  <2>5. ASSUME NEW k \in 1..m PROVE g[k] = step[k][g[k - 1]]
    <3> HIDE DEF g
    <3>1. CASE k = m
      BY <2>3, <2>4, <3>1
    <3>2. CASE k \in 1..m - 1
      BY <2>1, <2>4, <3>2
    <3> QED
      BY <3>1, <3>2
  <2>6. g \in Partial(m)
    <3> HIDE DEF g
    <3> QED
      BY <2>3, <2>5
  <2>7. Partial(m) # {}
    BY <2>6
  <2> QED
    BY <2>7
<1>3. n \in T
  <2> HIDE DEF T
  <2>1. \A k \in 0..n : k \in T
    BY <1>1, <1>2, UpTo
  <2> QED
    BY <2>1
<1> QED
  BY <1>3 DEF Follows

\* Sequences put together, one after the other.
LEMMA Flattened ==
  ASSUME NEW C, NEW q \in Seq(Seq(C))
  PROVE  \E f \in [0..Len(q) -> Seq(C)] :
           /\ f[0] = <<>> /\ \A i \in 1..Len(q) : f[i] = f[i - 1] \o q[i]
           /\ FlattenSeq(q) = f[Len(q)]
<1>1. PICK n \in Nat : n = Len(q)
  OBVIOUS
<1>2. PICK S : S = Seq(C)
  OBVIOUS
<1>3. <<>> \in S /\ \A i \in 1..n : q[i] \in S
  BY <1>1, <1>2
<1>4. \A s \in S : <<>> \o s = s
  BY <1>2
<1>5. PICK step \in [1..n -> [S -> S]] : \A i \in 1..n, s \in S : step[i][s] = s \o q[i]
  <2> DEFINE step == [i \in 1..n |-> [s \in S |-> s \o q[i]]]
  <2>1. \A i \in 1..n, s \in S : s \o q[i] \in S
    BY <1>2, <1>3
  <2>2. step \in [1..n -> [S -> S]] /\ \A i \in 1..n, s \in S : step[i][s] = s \o q[i]
    BY <2>1
  <2> QED
    BY <2>2
<1>6. PICK f \in [0..n -> S] : f[0] = <<>> /\ \A i \in 1..n : f[i] = step[i][f[i - 1]]
  <2>1. PICK base \in S : base = <<>>
    BY <1>3
  <2>2. \E f : Follows(f, n, S, base, step)
    BY Recursion
  <2> QED
    BY <2>1, <2>2 DEF Follows
<1>7. \A i \in 1..n : i - 1 \in 0..n /\ f[i - 1] \in S /\ f[i] \in S /\ f[i] = f[i - 1] \o q[i]
  <2> TAKE i \in 1..n
  <2>1. i - 1 \in 0..n /\ i \in 0..n
    OBVIOUS
  <2>2. f[i - 1] \in S /\ f[i] \in S
    BY <2>1
  <2> QED
    BY <1>5, <1>6, <2>1, <2>2
<1> DEFINE Equation(g) == g = [i \in 1..n |-> IF i = 1 THEN q[i] ELSE g[i - 1] \o q[i]]
<1>8. FlattenSeq(q) = f[n]
  <2>1. CASE n = 0
    <3>1. q = <<>>
      BY <1>1, <2>1, EmptySeq
    <3> QED
      BY <1>1, <1>6, <2>1, <3>1 DEF FlattenSeq
  <2>2. CASE n # 0
    <3>1. FlattenSeq(q) = (CHOOSE h : Equation(h))[n]
      BY <1>1, <2>2 DEF FlattenSeq
    <3>2. \E g : Equation(g)
      <4> DEFINE h == [i \in 1..n |-> f[i]]
      <4>1. ASSUME NEW i \in 1..n PROVE f[i] = IF i = 1 THEN q[i] ELSE h[i - 1] \o q[i]
        <5>1. CASE i = 1
          <6>1. f[i - 1] = <<>>
            BY <1>6, <5>1
          <6>2. f[i] = <<>> \o q[i]
            BY <1>7, <6>1
          <6> QED
            BY <1>3, <1>4, <5>1, <6>2
        <5>2. CASE i # 1
          <6>1. i - 1 \in 1..n
            BY <5>2
          <6>2. h[i - 1] = f[i - 1]
            BY <6>1
          <6> QED
            BY <1>7, <5>2, <6>2
        <5> QED
          BY <5>1, <5>2
      <4>2. h = [i \in 1..n |-> IF i = 1 THEN q[i] ELSE h[i - 1] \o q[i]]
        <5>1. \A i \in 1..n : f[i] = IF i = 1 THEN q[i] ELSE h[i - 1] \o q[i]
          BY <4>1
        <5> QED
          BY Zenon, <5>1
      <4> HIDE DEF h
      <4> QED
        BY <4>2
    <3>3. PICK g : g = (CHOOSE h : Equation(h))
      OBVIOUS
    <3>4. \A i \in 1..n : g[i] = IF i = 1 THEN q[i] ELSE g[i - 1] \o q[i]
      <4>1. Equation(g)
        <5> HIDE DEF Equation
        <5> QED
          BY <3>2, <3>3
      <4> QED
        BY Zenon, <4>1
    <3> DEFINE T == {i \in 0..n : i = 0 \/ g[i] = f[i]}
    <3>5. ASSUME NEW i \in 1..n, i - 1 \in T PROVE i \in T
      <4>1. CASE i = 1
        <5>1. f[i - 1] = <<>>
          BY <1>6, <4>1
        <5>2. f[i] = <<>> \o q[i]
          BY <1>7, <5>1
        <5>3. g[i] = q[i]
          BY <3>4, <4>1
        <5> QED
          BY <1>3, <1>4, <5>2, <5>3
      <4>2. CASE i # 1
        <5>1. g[i] = g[i - 1] \o q[i] /\ f[i] = f[i - 1] \o q[i]
          BY <1>7, <3>4, <4>2
        <5>2. g[i - 1] = f[i - 1]
          BY <3>5, <4>2
        <5>3. g[i] = f[i]
          BY <5>1, <5>2
        <5> QED
          BY <5>3
      <4> QED
        BY <4>1, <4>2
    <3>6. 0 \in T
      OBVIOUS
    <3>7. n \in T
      <4> HIDE DEF T
      <4>1. \A i \in 0..n : i \in T
        BY <3>5, <3>6, UpTo
      <4> QED
        BY <4>1
    <3> QED
      BY <2>2, <3>1, <3>3, <3>7
  <2> QED
    BY <2>1, <2>2
<1> QED
  BY <1>1, <1>2, <1>6, <1>7, <1>8

\* The characters that some step writes.
Basic == {"quote", "back", "nl", "cr", "tab", "bar", "n", "r", "t", "12:00:00"}
Named == {"quote", "back", "nl", "cr", "tab"}
Letter == [nl |-> "n", cr |-> "r", tab |-> "t"]
After == [c \in Named |-> IF c \in {"nl", "cr", "tab"} THEN Letter[c] ELSE c]

LEMMA TwoIn ==
  ASSUME NEW S, NEW x \in S, NEW y \in S
  PROVE  <<x, y>> \in Seq(S) /\ Len(<<x, y>>) = 2 /\ <<x, y>>[1] = x /\ <<x, y>>[2] = y
OBVIOUS

LEMMA LettersAfter == After["nl"] = "n" /\ After["cr"] = "r" /\ After["tab"] = "t"
BY DEF After, Named, Letter

LEMMA Escapes ==
  ASSUME NEW C, Basic \subseteq C, NEW c \in C
  PROVE  /\ c \in Named => /\ Escape(c) = <<"back", After[c]>> /\ After[c] \in C
         /\ c \notin Named => Escape(c) = <<c>>
         /\ Escape(c) \in Seq(C)
<1>1. DOMAIN Special = Named
  BY DEF Special, Named
<1>2. ASSUME c \in Named PROVE Special[c] = After[c] /\ After[c] \in C
  <2>1. CASE c = "quote"
    BY <2>1 DEF Special, After, Named
  <2>2. CASE c = "back"
    BY <2>2 DEF Special, After, Named
  <2>3. CASE c \in {"nl", "cr", "tab"}
    <3>1. Special["nl"] = "n" /\ Special["cr"] = "r" /\ Special["tab"] = "t"
      BY DEF Special
    <3>2. After["nl"] = "n" /\ After["cr"] = "r" /\ After["tab"] = "t"
      BY LettersAfter
    <3>3. "n" \in C /\ "r" \in C /\ "t" \in C
      BY DEF Basic
    <3> QED
      BY <2>3, <3>1, <3>2, <3>3
  <2> QED
    BY <1>2, <2>1, <2>2, <2>3 DEF Named
<1>3. CASE c \in Named
  <2>1. Escape(c) = <<"back", After[c]>>
    BY <1>1, <1>2, <1>3 DEF Escape
  <2>2. PICK x \in C, y \in C : x = "back" /\ y = After[c]
    BY <1>2, <1>3 DEF Basic
  <2>3. <<"back", After[c]>> \in Seq(C)
    BY <2>2, TwoIn
  <2> QED
    BY <1>2, <1>3, <2>1, <2>3
<1>4. CASE c \notin Named
  BY <1>1, <1>4 DEF Escape
<1> QED
  BY <1>3, <1>4

LEMMA Escaped ==
  ASSUME NEW C, Basic \subseteq C, NEW s \in Seq(C)
  PROVE  \E f \in [0..Len(s) -> Seq(C)] :
           /\ f[0] = <<>> /\ \A i \in 1..Len(s) : f[i] = f[i - 1] \o Escape(s[i])
           /\ JsonEscape(s) = f[Len(s)]
<1>1. PICK q : q = [k \in DOMAIN s |-> Escape(s[k])]
  OBVIOUS
<1>2. PICK n \in Nat : n = Len(s) /\ DOMAIN s = 1..n /\ \A k \in 1..n : s[k] \in C
  OBVIOUS
<1>3. \A k \in 1..n : Escape(s[k]) \in Seq(C)
  BY <1>2, Escapes
<1>4. q \in Seq(Seq(C)) /\ Len(q) = n /\ \A k \in 1..n : q[k] = Escape(s[k])
  BY <1>1, <1>2, <1>3
<1>5. JsonEscape(s) = FlattenSeq(q)
  BY <1>1 DEF JsonEscape
<1>6. PICK f \in [0..n -> Seq(C)] :
        f[0] = <<>> /\ FlattenSeq(q) = f[n] /\ \A i \in 1..n : f[i] = f[i - 1] \o q[i]
  BY <1>4, Flattened
<1>7. \A i \in 1..n : f[i] = f[i - 1] \o Escape(s[i])
  BY <1>4, <1>6
<1> QED
  BY <1>2, <1>5, <1>6, <1>7

ScanState(C) == [out : Seq(C), esc : BOOLEAN, done : BOOLEAN]

\* st is the run of a scan over w.
RunOver(C, meaning, w, st) ==
  /\ st \in [0..Len(w) -> ScanState(C)] /\ st[0] = Begun
  /\ \A k \in 1..Len(w) : st[k] = Scanned(meaning, st[k - 1], w[k])

LEMMA ScanRuns ==
  ASSUME NEW C, NEW meaning, NEW w \in Seq(C), \A c \in C : Unescaped(meaning, c) \in C
  PROVE  \E st : RunOver(C, meaning, w, st) /\ Scan(meaning, w) = st[Len(w)].out
<1>1. PICK n \in Nat : n = Len(w) /\ \A k \in 1..n : w[k] \in C
  OBVIOUS
<1>2. \A k \in 1..n, x \in ScanState(C) : Scanned(meaning, x, w[k]) \in ScanState(C)
  <2> TAKE k \in 1..n, x \in ScanState(C)
  <2>1. PICK c \in C : c = w[k]
    BY <1>1
  <2>2. Unescaped(meaning, c) \in C
    OBVIOUS
  <2>3. Append(x.out, c) \in Seq(C) /\ Append(x.out, Unescaped(meaning, c)) \in Seq(C)
    BY <2>2 DEF ScanState
  <2>4. Scanned(meaning, x, c) \in ScanState(C)
    BY <2>3 DEF Scanned, ScanState
  <2> QED
    BY <2>1, <2>4
<1>3. PICK base \in ScanState(C) : base = Begun
  <2>1. <<>> \in Seq(C)
    OBVIOUS
  <2> QED
    BY <2>1 DEF Begun, ScanState
<1>4. PICK step \in [1..n -> [ScanState(C) -> ScanState(C)]] :
        \A k \in 1..n, x \in ScanState(C) : step[k][x] = Scanned(meaning, x, w[k])
  <2> DEFINE step == [k \in 1..n |-> [x \in ScanState(C) |-> Scanned(meaning, x, w[k])]]
  <2>1. step \in [1..n -> [ScanState(C) -> ScanState(C)]]
    BY <1>2
  <2> QED
    BY <2>1
<1>5. PICK st : Follows(st, n, ScanState(C), base, step)
  BY Recursion
<1>6. st \in [0..n -> ScanState(C)] /\ st[0] = Begun
  BY <1>3, <1>5 DEF Follows
<1>7. \A k \in 1..n : k - 1 \in 0..n /\ st[k - 1] \in ScanState(C) /\ st[k] = Scanned(meaning, st[k - 1], w[k])
  <2> TAKE k \in 1..n
  <2>1. st[k - 1] \in ScanState(C)
    BY <1>6
  <2>2. st[k] = step[k][st[k - 1]]
    BY <1>5 DEF Follows
  <2> QED
    BY <1>4, <2>1, <2>2
<1> DEFINE Equation(g) == g = [k \in 0..n |-> IF k = 0 THEN Begun ELSE Scanned(meaning, g[k - 1], w[k])]
<1>8. Equation(st)
  <2>1. \A k \in 0..n : st[k] = IF k = 0 THEN Begun ELSE Scanned(meaning, st[k - 1], w[k])
    BY <1>6, <1>7
  <2> QED
    BY <1>6, <2>1
<1>9. PICK g : g = CHOOSE h : Equation(h)
  OBVIOUS
<1>10. Scan(meaning, w) = g[n].out
  BY <1>1, <1>9 DEF Scan
<1>11. Equation(g)
  <2> HIDE DEF Equation
  <2> QED
    BY <1>8, <1>9
<1>12. \A k \in 0..n : g[k] = IF k = 0 THEN Begun ELSE Scanned(meaning, g[k - 1], w[k])
  BY <1>11
<1>13. g[n] = st[n]
  <2> DEFINE T == {k \in 0..n : g[k] = st[k]}
  <2>1. 0 \in T
    BY <1>6, <1>12
  <2>2. ASSUME NEW k \in 1..n, k - 1 \in T PROVE k \in T
    BY <1>7, <1>12, <2>2
  <2> HIDE DEF T
  <2>3. \A k \in 0..n : k \in T
    BY <2>1, <2>2, UpTo
  <2> QED
    BY <2>3 DEF T
<1> QED
  BY <1>1, <1>6, <1>7, <1>10, <1>13 DEF RunOver

LEMMA NextOf ==
  ASSUME NEW C, NEW meaning, NEW w \in Seq(C), NEW st, RunOver(C, meaning, w, st),
         NEW p \in Nat, p < Len(w)
  PROVE  st[p + 1] = Scanned(meaning, st[p], w[p + 1])
<1>1. PICK k \in 1..Len(w) : k = p + 1 /\ k - 1 = p
  OBVIOUS
<1>2. st[k] = Scanned(meaning, st[k - 1], w[k])
  BY DEF RunOver
<1> QED
  BY <1>1, <1>2

\* A scan outside of an escape, and behind a backslash.
Outside(out) == [out |-> out, esc |-> FALSE, done |-> FALSE]
Behind(out) == [out |-> out, esc |-> TRUE, done |-> FALSE]

LEMMA ScannedIs ==
  ASSUME NEW meaning, NEW out, NEW c
  PROVE  /\ c \notin {"back", "quote"} => Scanned(meaning, Outside(out), c) = Outside(Append(out, c))
         /\ Scanned(meaning, Outside(out), "back") = Behind(out)
         /\ Scanned(meaning, Outside(out), "quote").out = out
         /\ Scanned(meaning, Behind(out), c) = Outside(Append(out, Unescaped(meaning, c)))
<1>1. ASSUME c \notin {"back", "quote"}
      PROVE  Scanned(meaning, Outside(out), c) = Outside(Append(out, c))
  BY <1>1 DEF Scanned, Outside
<1>2. Scanned(meaning, Outside(out), "back") = Behind(out)
  BY DEF Scanned, Outside, Behind
<1>3. Scanned(meaning, Outside(out), "quote").out = out
  BY DEF Scanned, Outside
<1>4. Scanned(meaning, Behind(out), c) = Outside(Append(out, Unescaped(meaning, c)))
  BY DEF Scanned, Outside, Behind
<1> QED
  BY <1>1, <1>2, <1>3, <1>4

\* y is x and then e; x is the beginning of y.
Prolongs(x, e, y) ==
  /\ Len(y) = Len(x) + Len(e)
  /\ \A j \in 1..Len(x) : y[j] = x[j]
  /\ \A j \in 1..Len(e) : y[Len(x) + j] = e[j]
Begins(x, y) == Len(x) <= Len(y) /\ \A j \in 1..Len(x) : y[j] = x[j]

\* f[i] are the first i characters of s, escaped.
Escapings(C, s, f) ==
  /\ f \in [0..Len(s) -> Seq(C)] /\ f[0] = <<>>
  /\ \A i \in 1..Len(s) : f[i] = f[i - 1] \o Escape(s[i])

LEMMA EscapedNext ==
  ASSUME NEW C, Basic \subseteq C, NEW s \in Seq(C), NEW f, Escapings(C, s, f),
         NEW i \in 1..Len(s)
  PROVE  f[i - 1] \in Seq(C) /\ f[i] \in Seq(C) /\ Prolongs(f[i - 1], Escape(s[i]), f[i])
<1>1. PICK a \in Seq(C) : a = f[i - 1]
  BY DEF Escapings
<1>2. PICK c \in C : c = s[i]
  OBVIOUS
<1>3. PICK b \in Seq(C) : b = Escape(s[i])
  BY <1>2, Escapes
<1>4. f[i] = a \o b
  BY <1>1, <1>3 DEF Escapings
<1>5. a \o b \in Seq(C) /\ Prolongs(a, b, a \o b)
  BY DEF Prolongs
<1> QED
  BY <1>1, <1>3, <1>4, <1>5

LEMMA ProlongedBegins ==
  ASSUME NEW C, NEW x \in Seq(C), NEW y \in Seq(C), NEW z \in Seq(C), NEW e \in Seq(C),
         Begins(x, y), Prolongs(y, e, z)
  PROVE  Begins(x, z)
BY DEF Begins, Prolongs

\* The characters put together first stay the beginning.
LEMMA EscapedBegins ==
  ASSUME NEW C, Basic \subseteq C, NEW s \in Seq(C), NEW f, Escapings(C, s, f), NEW i \in 0..Len(s)
  PROVE  f[i] \in Seq(C) /\ f[Len(s)] \in Seq(C) /\ Begins(f[i], f[Len(s)])
<1>1. PICK n \in Nat : n = Len(s)
  OBVIOUS
<1>2. \A m \in 0..n : f[m] \in Seq(C)
  BY <1>1 DEF Escapings
<1> DEFINE T == {m \in 0..n : i <= m => Begins(f[i], f[m])}
<1>3. Begins(f[i], f[i])
  <2>1. PICK x \in Seq(C) : x = f[i]
    BY <1>1, <1>2
  <2>2. Begins(x, x)
    BY DEF Begins
  <2> QED
    BY <2>1, <2>2
<1>4. ASSUME NEW m \in 1..n, m - 1 \in T PROVE m \in T
  <2>1. CASE i = m
    BY <1>3, <2>1
  <2>2. CASE i < m
    <3>1. Begins(f[i], f[m - 1])
      BY <1>1, <1>4, <2>2
    <3>2. f[m - 1] \in Seq(C) /\ f[m] \in Seq(C) /\ Prolongs(f[m - 1], Escape(s[m]), f[m])
      BY <1>1, EscapedNext
    <3>3. Escape(s[m]) \in Seq(C)
      <4>1. PICK c \in C : c = s[m]
        BY <1>1
      <4> QED
        BY <4>1, Escapes
    <3>4. f[i] \in Seq(C)
      BY <1>1, <1>2
    <3>5. Begins(f[i], f[m])
      BY <3>1, <3>2, <3>3, <3>4, ProlongedBegins
    <3> QED
      BY <3>5
  <2>3. CASE i > m
    BY <1>1, <2>3
  <2> QED
    BY <1>1, <2>1, <2>2, <2>3
<1>5. 0 \in T
  <2>1. CASE i = 0
    BY <1>3, <2>1
  <2>2. CASE i # 0
    BY <1>1, <2>2
  <2> QED
    BY <2>1, <2>2
<1>6. n \in T
  <2> HIDE DEF T
  <2>1. \A m \in 0..n : m \in T
    BY <1>4, <1>5, UpTo
  <2> QED
    BY <2>1
<1> QED
  BY <1>1, <1>2, <1>6

\* What a scan that knows meaning makes of an escaped character.
Decoded(meaning, c) == IF c \in Named THEN Unescaped(meaning, After[c]) ELSE c
Taken(meaning, s, i) == [j \in 1..i |-> Decoded(meaning, s[j])]

\* The scan st over w has come to the end of x, with out; behind x, w goes on with
\* the character c, escaped, up to the end of y.
Reading(C, meaning, st, w, x, y, c, out) ==
  /\ RunOver(C, meaning, w, st)
  /\ Prolongs(x, Escape(c), y) /\ \E z \in Seq(C) : Begins(y, z) /\ Begins(z, w)
  /\ st[Len(x)] = Outside(out)

LEMMA CharacterScanned ==
  ASSUME NEW C, Basic \subseteq C, NEW meaning, NEW st, NEW w \in Seq(C),
         NEW x \in Seq(C), NEW y \in Seq(C), NEW c \in C, NEW out,
         Reading(C, meaning, st, w, x, y, c, out)
  PROVE  st[Len(y)] = Outside(Append(out, Decoded(meaning, c)))
<1>0. /\ RunOver(C, meaning, w, st) /\ Prolongs(x, Escape(c), y) /\ st[Len(x)] = Outside(out)
      /\ \E z \in Seq(C) : Begins(y, z) /\ Begins(z, w)
  BY DEF Reading
<1>1. PICK e \in Seq(C) : e = Escape(c)
  BY Escapes
<1>2. PICK p \in Nat : p = Len(x)
  OBVIOUS
<1>3. /\ Len(y) = p + Len(e) /\ Len(y) <= Len(w) /\ Len(y) \in Nat /\ Len(e) \in Nat
      /\ \A j \in 1..Len(e) : w[p + j] = e[j]
  <2>1. Len(y) = p + Len(e) /\ \A j \in 1..Len(e) : y[p + j] = e[j]
    BY <1>0, <1>1, <1>2 DEF Prolongs
  <2>2. Len(y) <= Len(w) /\ \A j \in 1..Len(y) : w[j] = y[j]
    BY <1>0 DEF Begins
  <2>3. \A j \in 1..Len(e) : p + j \in 1..Len(y)
    BY <2>1
  <2> QED
    BY <2>1, <2>2, <2>3
<1>4. CASE c \notin Named
  <2>1. e = <<c>>
    BY <1>1, <1>4, Escapes
  <2>2. Len(e) = 1 /\ e[1] = c
    BY <2>1
  <2>3. p < Len(w) /\ w[p + 1] = c /\ Len(y) = p + 1
    BY <1>3, <2>2
  <2>4. st[p + 1] = Scanned(meaning, st[p], w[p + 1])
    BY <1>0, <2>3, NextOf
  <2>5. c \notin {"back", "quote"}
    BY <1>4 DEF Named
  <2>6. Scanned(meaning, Outside(out), c) = Outside(Append(out, c))
    BY <2>5, ScannedIs
  <2>7. Decoded(meaning, c) = c
    BY <1>4 DEF Decoded
  <2> QED
    BY <1>0, <1>2, <2>3, <2>4, <2>6, <2>7
<1>5. CASE c \in Named
  <2>1. e = <<"back", After[c]>>
    BY <1>1, <1>5, Escapes
  <2>2. Len(e) = 2 /\ e[1] = "back" /\ e[2] = After[c]
    BY <2>1
  <2>3. PICK k \in Nat : k = p + 1
    OBVIOUS
  <2>4. p < Len(w) /\ w[p + 1] = "back" /\ k < Len(w) /\ w[k + 1] = After[c] /\ Len(y) = k + 1
    BY <1>3, <2>2, <2>3
  <2>5. st[p + 1] = Scanned(meaning, st[p], w[p + 1])
    BY <1>0, <2>4, NextOf
  <2>a. k < Len(w)
    BY <2>4
  <2>6. st[k + 1] = Scanned(meaning, st[k], w[k + 1])
    BY <1>0, <2>a, NextOf
  <2>7. st[k] = Behind(out)
    <3>1. Scanned(meaning, Outside(out), "back") = Behind(out)
      BY ScannedIs
    <3> QED
      BY <1>0, <1>2, <2>3, <2>4, <2>5, <3>1
  <2>8. Scanned(meaning, Behind(out), After[c]) = Outside(Append(out, Unescaped(meaning, After[c])))
    BY ScannedIs
  <2>9. Decoded(meaning, c) = Unescaped(meaning, After[c])
    BY <1>5 DEF Decoded
  <2> QED
    BY <2>4, <2>6, <2>7, <2>8, <2>9
<1> QED
  BY <1>4, <1>5

\* A scan of a field takes the field and nothing else, character by character.
LEMMA ScanOfField ==
  ASSUME NEW C, Basic \subseteq C, NEW meaning, \A c \in C : Unescaped(meaning, c) \in C,
         NEW s \in Seq(C)
  PROVE  Scan(meaning, Field(s)) = [i \in 1..Len(s) |-> Decoded(meaning, s[i])]
<1>1. PICK n \in Nat : n = Len(s)
  OBVIOUS
<1>2. PICK f : Escapings(C, s, f) /\ JsonEscape(s) = f[n]
  BY <1>1, Escaped DEF Escapings
<1>3. \A i \in 0..n : f[i] \in Seq(C)
  BY <1>1, <1>2 DEF Escapings
<1>4. PICK z \in Seq(C), q \in C : z = f[n] /\ q = "quote"
  BY <1>3 DEF Basic
<1>5. PICK w \in Seq(C) : w = z \o <<q>>
  <2>1. z \o <<q>> \in Seq(C)
    OBVIOUS
  <2> QED
    BY <2>1
<1>6. w = Field(s) /\ Begins(z, w) /\ Len(w) = Len(z) + 1 /\ w[Len(z) + 1] = q
  BY <1>2, <1>4, <1>5 DEF Field, Begins
<1>7. PICK st : RunOver(C, meaning, w, st) /\ Scan(meaning, w) = st[Len(w)].out
  BY ScanRuns
<1> DEFINE T == {i \in 0..n : st[Len(f[i])] = Outside(Taken(meaning, s, i))}
<1>8. 0 \in T
  <2>1. Taken(meaning, s, 0) = <<>>
    BY DEF Taken
  <2>2. f[0] = <<>> /\ st[0] = Begun
    BY <1>2, <1>7 DEF Escapings, RunOver
  <2>3. Len(f[0]) = 0
    BY <2>2
  <2>4. st[Len(f[0])] = Outside(<<>>)
    BY <2>2, <2>3 DEF Begun, Outside
  <2> QED
    BY <2>1, <2>4
<1>9. ASSUME NEW i \in 1..n, i - 1 \in T PROVE i \in T
  <2>1. PICK c \in C : c = s[i]
    BY <1>1
  <2>2. f[i - 1] \in Seq(C) /\ f[i] \in Seq(C) /\ Prolongs(f[i - 1], Escape(s[i]), f[i])
    BY <1>1, <1>2, EscapedNext
  <2>3. Begins(f[i], f[n])
    BY <1>1, <1>2, EscapedBegins
  <2>4. PICK out : out = Taken(meaning, s, i - 1)
    OBVIOUS
  <2>5. st[Len(f[i - 1])] = Outside(out)
    BY <1>9, <2>4
  <2>6. PICK x \in Seq(C), y \in Seq(C) : x = f[i - 1] /\ y = f[i]
    BY <2>2
  <2>7. Prolongs(x, Escape(c), y) /\ Begins(y, z) /\ Begins(z, w)
    BY <1>4, <1>6, <2>1, <2>2, <2>3, <2>6
  <2>8. Reading(C, meaning, st, w, x, y, c, out)
    BY <1>7, <2>5, <2>6, <2>7 DEF Reading
  <2>9. st[Len(y)] = Outside(Append(out, Decoded(meaning, c)))
    BY <2>8, CharacterScanned
  <2>10. Taken(meaning, s, i) = Append(out, Decoded(meaning, c))
    BY <2>1, <2>4 DEF Taken
  <2>11. st[Len(f[i])] = Outside(Taken(meaning, s, i))
    BY <2>6, <2>9, <2>10
  <2> QED
    BY <2>11
<1>10. st[Len(z)] = Outside(Taken(meaning, s, n))
  <2> HIDE DEF T
  <2>1. \A i \in 0..n : i \in T
    BY <1>8, <1>9, UpTo
  <2> QED
    BY <1>4, <2>1 DEF T
<1>11. st[Len(w)] = Scanned(meaning, st[Len(z)], q)
  <2>1. PICK p \in Nat : p = Len(z)
    OBVIOUS
  <2>2. p < Len(w)
    BY <1>6, <2>1
  <2>3. st[p + 1] = Scanned(meaning, st[p], w[p + 1])
    BY <1>7, <2>2, NextOf
  <2> QED
    BY <1>6, <2>1, <2>3
<1>12. PICK out : out = Taken(meaning, s, n)
  OBVIOUS
<1>13. Scanned(meaning, Outside(out), "quote").out = out
  BY ScannedIs
<1>14. Scan(meaning, w) = out
  BY <1>4, <1>7, <1>10, <1>11, <1>12, <1>13
<1> QED
  BY <1>1, <1>6, <1>12, <1>14 DEF Taken

\* What is escaped and parsed is what it was.
LEMMA ParsedBack ==
  ASSUME NEW C, Basic \subseteq C, NEW s \in Seq(C)
  PROVE  ParseString(Field(s)) = s
<1>1. PICK meaning : meaning = [n |-> "nl", r |-> "cr", t |-> "tab"]
  OBVIOUS
<1>2. /\ DOMAIN meaning = {"n", "r", "t"}
      /\ meaning["n"] = "nl" /\ meaning["r"] = "cr" /\ meaning["t"] = "tab"
  BY <1>1
<1>3. /\ Unescaped(meaning, "n") = "nl" /\ Unescaped(meaning, "r") = "cr"
      /\ Unescaped(meaning, "t") = "tab"
      /\ \A c \in C : c \notin {"n", "r", "t"} => Unescaped(meaning, c) = c
  BY <1>2 DEF Unescaped
<1>4. \A c \in C : Unescaped(meaning, c) \in C
  BY <1>3 DEF Basic
<1>5. Scan(meaning, Field(s)) = [i \in 1..Len(s) |-> Decoded(meaning, s[i])]
  BY <1>4, ScanOfField
<1>6. ASSUME NEW c \in C PROVE Decoded(meaning, c) = c
  <2>1. CASE c \in {"nl", "cr", "tab"}
    <3>1. Decoded(meaning, c) = Unescaped(meaning, After[c])
      BY <2>1 DEF Decoded, Named
    <3> QED
      BY <1>3, <2>1, <3>1, LettersAfter
  <2>2. CASE c \in {"quote", "back"}
    <3>1. After[c] = c
      BY <2>2 DEF After, Named
    <3>2. Unescaped(meaning, c) = c
      BY <1>3, <2>2
    <3> QED
      BY <3>1, <3>2 DEF Decoded
  <2>3. CASE c \notin Named
    BY <2>3 DEF Decoded
  <2> QED
    BY <2>1, <2>2, <2>3 DEF Named
<1>7. \A i \in 1..Len(s) : Decoded(meaning, s[i]) = s[i]
  <2> TAKE i \in 1..Len(s)
  <2>1. PICK c \in C : c = s[i]
    OBVIOUS
  <2> QED
    BY <1>6, <2>1
<1>8. Scan(meaning, Field(s)) = [i \in 1..Len(s) |-> s[i]]
  BY <1>5, <1>7
<1>9. s = [i \in 1..Len(s) |-> s[i]]
  OBVIOUS
<1> QED
  BY <1>1, <1>8, <1>9 DEF ParseString

\* What is escaped and extracted is what it was, if no control character is in it.
LEMMA ExtractedBack ==
  ASSUME NEW C, Basic \subseteq C, NEW s \in Seq(C), Range(s) \cap Control = {}
  PROVE  ExtractField(Field(s)) = s
<1>1. PICK meaning : meaning = [quote |-> "quote"]
  OBVIOUS
<1>2. DOMAIN meaning = {"quote"} /\ meaning["quote"] = "quote"
  BY <1>1
<1>3. \A c \in C : Unescaped(meaning, c) = c
  BY <1>2 DEF Unescaped
<1>4. Scan(meaning, Field(s)) = [i \in 1..Len(s) |-> Decoded(meaning, s[i])]
  BY <1>3, ScanOfField
<1>5. ASSUME NEW c \in C, c \notin Control PROVE Decoded(meaning, c) = c
  <2>1. CASE c \in {"quote", "back"}
    <3>1. After[c] = c
      BY <2>1 DEF After, Named
    <3>2. Unescaped(meaning, c) = c
      BY <1>3
    <3> QED
      BY <3>1, <3>2 DEF Decoded
  <2>2. CASE c \notin Named
    BY <2>2 DEF Decoded
  <2> QED
    BY <1>5, <2>1, <2>2 DEF Named, Control
<1>6. \A i \in 1..Len(s) : Decoded(meaning, s[i]) = s[i]
  <2> TAKE i \in 1..Len(s)
  <2>1. PICK c \in C : c = s[i]
    OBVIOUS
  <2>2. c \notin Control
    BY <2>1 DEF Range
  <2> QED
    BY <1>5, <2>1, <2>2
<1>7. Scan(meaning, Field(s)) = [i \in 1..Len(s) |-> s[i]]
  BY <1>4, <1>6
<1>8. s = [i \in 1..Len(s) |-> s[i]]
  OBVIOUS
<1> QED
  BY <1>1, <1>7, <1>8 DEF ExtractField

\* Without a control character JSON.stringify and json_escape write the same.
LEMMA StringifiedPlain ==
  ASSUME NEW s, Range(s) \cap Control = {}
  PROVE  Stringify(s) = JsonEscape(s)
<1>1. DOMAIN Unprintable = {"bs", "ctl"}
  BY DEF Unprintable
<1>2. ASSUME NEW k \in DOMAIN s PROVE Stringified(s[k]) = Escape(s[k])
  <2>1. s[k] \notin Control
    BY DEF Range
  <2>2. s[k] \notin DOMAIN Unprintable
    BY <1>1, <2>1 DEF Control
  <2> QED
    BY <2>2 DEF Stringified
<1>3. [k \in DOMAIN s |-> Stringified(s[k])] = [k \in DOMAIN s |-> Escape(s[k])]
  BY <1>2
<1> QED
  BY <1>3 DEF Stringify, JsonEscape

\* An entry falls into the user and the text it was made of, if the user has no bar.
LEMMA EntryRead ==
  ASSUME NEW C, Basic \subseteq C, NEW user \in Seq(C), NEW text \in Seq(C),
         "bar" \notin Range(user)
  PROVE  EntryUser(Entry(user, text)) = user /\ EntryText(Entry(user, text)) = text
<1>1. PICK n \in Nat, m \in Nat : n = Len(user) /\ m = Len(text)
  OBVIOUS
<1>2. PICK b \in C, t \in C : b = "bar" /\ t = "12:00:00"
  BY DEF Basic
<1>3. PICK head \in Seq(C) : head = user \o <<b, t, b>>
  <2>1. user \o <<b, t, b>> \in Seq(C)
    OBVIOUS
  <2> QED
    BY <2>1
<1>4. /\ Len(head) = n + 3 /\ \A j \in 1..n : head[j] = user[j]
      /\ head[n + 1] = b /\ head[n + 2] = t /\ head[n + 3] = b
  BY <1>1, <1>3
<1>5. PICK line \in Seq(C) : line = head \o text
  <2>1. head \o text \in Seq(C)
    OBVIOUS
  <2> QED
    BY <2>1
<1>6. /\ Len(line) = n + 3 + m /\ DOMAIN line = 1..(n + 3 + m)
      /\ \A j \in 1..n + 3 : line[j] = head[j]
      /\ \A j \in 1..m : line[n + 3 + j] = text[j]
  <2>1. /\ Len(head \o text) = Len(head) + Len(text)
        /\ \A j \in 1..Len(head) : (head \o text)[j] = head[j]
        /\ \A j \in 1..Len(text) : (head \o text)[Len(head) + j] = text[j]
    OBVIOUS
  <2>2. Len(line) = n + 3 + m
    BY <1>1, <1>4, <1>5, <2>1
  <2>3. DOMAIN line = 1..(n + 3 + m)
    BY <2>2
  <2>4. \A j \in 1..n + 3 : line[j] = head[j]
    BY <1>4, <1>5, <2>1
  <2>5. \A j \in 1..m : line[n + 3 + j] = text[j]
    BY <1>1, <1>4, <1>5, <2>1
  <2> QED
    BY <2>2, <2>3, <2>4, <2>5
<1>7. line = Entry(user, text)
  BY <1>2, <1>3, <1>5 DEF Entry
<1>8. \A j \in 1..n : line[j] = user[j] /\ line[j] # "bar"
  <2> TAKE j \in 1..n
  <2>1. j \in 1..n + 3 /\ line[j] = head[j] /\ head[j] = user[j]
    BY <1>4, <1>6
  <2>2. user[j] \in Range(user)
    <3>1. j \in DOMAIN user
      BY <1>1
    <3> QED
      BY <3>1 DEF Range
  <2> QED
    BY <2>1, <2>2
<1>9. line[n + 1] = "bar" /\ line[n + 2] # "bar" /\ line[n + 3] = "bar"
  BY <1>2, <1>4, <1>6
<1>10. First(Bars(line)) = n + 1
  <2>1. n + 1 \in Bars(line) /\ \A j \in Bars(line) : n + 1 <= j
    BY <1>6, <1>8, <1>9 DEF Bars
  <2>2. Bars(line) \subseteq Nat
    BY <1>6 DEF Bars
  <2>3. \A k \in Bars(line) : (\A j \in Bars(line) : k <= j) => k = n + 1
    BY <2>1, <2>2
  <2> HIDE DEF Bars
  <2> QED
    BY <2>1, <2>3 DEF First
<1>11. First(Bars(line) \ {n + 1}) = n + 3
  <2> DEFINE S == Bars(line) \ {n + 1}
  <2>1. n + 3 \in S /\ \A j \in S : n + 3 <= j
    BY <1>6, <1>8, <1>9 DEF Bars
  <2>2. S \subseteq Nat
    BY <1>6 DEF Bars
  <2>3. \A k \in S : (\A j \in S : k <= j) => k = n + 3
    BY <2>1, <2>2
  <2> HIDE DEF S
  <2>4. First(S) = n + 3
    BY <2>1, <2>3 DEF First
  <2> QED
    BY <2>4 DEF S
<1>12. EntryUser(line) = user
  <2>1. EntryUser(line) = SubSeq(line, 1, n)
    BY <1>10 DEF EntryUser
  <2>2. SubSeq(line, 1, n) = [j \in 1..n |-> line[j]]
    BY <1>6
  <2>3. user = [j \in 1..n |-> user[j]]
    BY <1>1
  <2> QED
    BY <1>8, <2>1, <2>2, <2>3
<1>13. EntryText(line) = text
  <2>1. EntryText(line) = SubSeq(line, n + 4, n + 3 + m)
    <3>1. First(Bars(line) \ {First(Bars(line))}) + 1 = n + 4
      BY <1>10, <1>11
    <3> QED
      BY <1>6, <3>1 DEF EntryText
  <2>2. SubSeq(line, n + 4, n + 3 + m) = [j \in 1..m |-> line[n + 3 + j]]
    <3>1. PICK k \in Nat, l \in Nat : k = n + 4 /\ l = n + 3 + m
      OBVIOUS
    <3>2. SubSeq(line, k, l) = [j \in 1..(l - k + 1) |-> line[k + j - 1]]
      OBVIOUS
    <3>3. 1..(l - k + 1) = 1..m /\ \A j \in 1..m : k + j - 1 = n + 3 + j
      BY <3>1
    <3> QED
      BY <3>1, <3>2, <3>3
  <2>3. text = [j \in 1..m |-> text[j]]
    BY <1>1
  <2> QED
    BY <1>6, <2>1, <2>2, <2>3
<1> QED
  BY <1>7, <1>12, <1>13

\* A message without a control character looks live as it was typed, and in the
\* history if the name of its user has no bar.
LEMMA ViewsAsTyped ==
  ASSUME NEW u \in Names, NEW t \in Texts, Range(t) \cap Control = {}
  PROVE  /\ Views[u][t].live = [user |-> u, text |-> t]
         /\ "bar" \notin Range(u) => Views[u][t].history = [user |-> u, text |-> t]
<1>1. PICK C : C = Basic \cup Range(u) \cup Range(t)
  OBVIOUS
<1>2. Basic \subseteq C /\ Range(u) \subseteq C /\ Range(t) \subseteq C
  BY <1>1
<1>3. u \in Seq(C) /\ t \in Seq(C)
  <2>1. u \in Seq(Range(u)) /\ t \in Seq(Range(t))
    BY PageAssumption DEF PageAssumption
  <2>2. \A R, s : R \subseteq C /\ s \in Seq(R) => s \in Seq(C)
    OBVIOUS
  <2> QED
    BY <1>2, <2>1, <2>2
<1>4. Received(t) = t
  <2>1. ExtractField(Field(t)) = t
    BY <1>2, <1>3, ExtractedBack
  <2>2. Stringify(t) = JsonEscape(t)
    BY StringifiedPlain
  <2> QED
    BY <2>1, <2>2 DEF Received, Field
<1>5. LiveView(u, t) = [user |-> u, text |-> t]
  <2>1. ParseString(Field(u)) = u
    BY <1>2, <1>3, ParsedBack
  <2>2. ParseString(Field(t)) = t
    BY <1>2, <1>3, ParsedBack
  <2> QED
    BY <2>1, <2>2 DEF LiveView
<1>6. ASSUME "bar" \notin Range(u) PROVE HistoryView(Entry(u, t)) = LiveView(u, t)
  <2>1. EntryUser(Entry(u, t)) = u /\ EntryText(Entry(u, t)) = t
    BY <1>2, <1>3, <1>6, EntryRead
  <2> QED
    BY <2>1 DEF HistoryView
<1>7. Views[u][t] = [live |-> LiveView(u, Received(t)), history |-> HistoryView(Entry(u, Received(t)))]
  BY DEF Views
<1> QED
  BY <1>4, <1>5, <1>6, <1>7

-----------------------------------------------------------------------------
(* Theorems. *)

\* Each variable of the page and of the server has its type; a socket that has not
\* been made yet is in no state.
THEOREM PageTyped == Spec => []TypeOK
<1>1. PageInv => TypeOK
  BY DEF PageInv, Typed, PageTypes, NetTypes, ServerTypes, SocketsBlank, Blank, TypeOK, ReadyStates, Peers
<1> QED
  BY <1>1, PageAlways, PTL

\* Whatever order logins, logouts, lost connections and timers come in, the page
\* has one socket at most, and none while a reconnection is due.
THEOREM SocketIsOne == Spec => []OneSocket
<1>1. PageInv => OneSocket
  BY DEF PageInv, LoginInv, OneLogin, OneSocket
<1> QED
  BY <1>1, PageAlways, PTL

\* The page shows only messages of its room, and none without a login.
THEOREM RoomShown == Spec => []ShowsRoom
<1>1. PageInv => ShowsRoom
  BY DEF PageInv, LoginInv, Shown, ShowsRoom
<1> QED
  BY <1>1, PageAlways, PTL

\* Once its frames are served, the server has the open socket in the room of the
\* page and in no other, however the user and the owners of rooms got there; in none
\* only if a deleted room took it out with no word, or a room_missing was all it said.
THEOREM ServerFollows == Spec => []RoomAgrees
<1>1. ASSUME PageInv PROVE RoomAgrees
  <2> SUFFICES ASSUME ws # 0, ws \notin missed, readyState[ws] = "open",
                      peer[ws] = "serving", up[ws] = <<>>,
                      \A i \in DOMAIN down[ws] :
                        down[ws][i].type = "deleted" => down[ws][i].room # currentRoom
               PROVE  \/ joined[ws] = {currentRoom}
                      \/ joined[ws] = {} /\ currentRoom \in untold[ws]
    BY DEF RoomAgrees
  <2>1. Leads(<<>>, joined[ws], currentRoom, Told(down[ws], untold[ws], currentRoom))
    BY <1>1 DEF PageInv, RoomFollows, Way
  <2>2. Told(down[ws], untold[ws], currentRoom) => currentRoom \in untold[ws]
    BY DEF Told, Tells
  <2> QED
    BY <2>1, <2>2 DEF Leads
<1>2. PageInv => RoomAgrees
  BY <1>1
<1> QED
  BY <1>2, PageAlways, PTL

\* Every message the page shows looks as its user typed it, under the user's name:
\* live unless a control character was typed, from the history unless the name has a
\* bar besides: no frame is taken for another, and the codecs give back every text.
THEOREM MessagesShownAsTyped == Spec => []ShownAsTyped
<1>1. ASSUME PageInv PROVE ShownAsTyped
  <2> SUFFICES ASSUME NEW b \in bubbles, Range(b.sent.text) \cap Control = {},
                      b.from = "history" => "bar" \notin Range(b.sent.user)
               PROVE  b.view = b.sent
    BY DEF ShownAsTyped
  <2>1. b.sent \in [user: Names, text: Texts] /\ Rendered(b)
    BY <1>1 DEF PageInv, ShownAsSent
  <2>2. PICK u \in Names, t \in Texts : u = b.sent.user /\ t = b.sent.text /\ b.sent = [user |-> u, text |-> t]
    BY <2>1
  <2>3. b.from \in {"live", "history"} /\ b.view = Views[u][t][b.from]
    BY <2>1, <2>2 DEF Rendered
  <2>4. Range(t) \cap Control = {}
    BY <2>2
  <2>5. /\ Views[u][t].live = [user |-> u, text |-> t]
        /\ "bar" \notin Range(u) => Views[u][t].history = [user |-> u, text |-> t]
    BY <2>4, ViewsAsTyped
  <2>6. CASE b.from = "live"
    BY <2>2, <2>3, <2>5, <2>6
  <2>7. CASE b.from = "history"
    BY <2>2, <2>3, <2>5, <2>7
  <2> QED
    BY <2>3, <2>6, <2>7
<1>2. PageInv => ShownAsTyped
  BY <1>1
<1> QED
  BY <1>2, PageAlways, PTL
=============================================================================
