--------------------------- MODULE ChatRoomsProofs ---------------------------
(* Theorems about ChatRooms, for every number of Workers, connections,       *)
(* requests, users and rooms: types, the registry, the bound of the lists    *)
(* and the notices of a deletion.                                            *)
EXTENDS ChatRooms, FiniteSetTheorems, TLAPS

-----------------------------------------------------------------------------
(* Invariants. *)

Sending == {"membership", "push", "trim", "cast"}

InLoop == {"loop"} \cup Sending

ConnLabels == {"http", "admission", "handshake", "done"} \cup InLoop

GroupLabels ==
  {"insert room", "insert member", "find room", "delete member", "find owner",
   "delete members", "delete room", "delete history", "announce"}

RequestLabels == {"idle", "push", "trim", "done"} \cup GroupLabels

\* Where an actor is goes with the room it works on.
Placed ==
  /\ \A c \in Conns : pc[c] \in ConnLabels /\ room[c] \in Rooms
  /\ \A q \in Requests : /\ pc[q] \in RequestLabels
                         /\ pc[q] \in {"push", "trim"} => room[q] = Rest
                         /\ pc[q] \in GroupLabels => room[q] \in Groups
  /\ \A a \in Actors : pc[a] \in Sending => sends[a] > 0

\* A client is registered from its handshake to its cleanup at most.
Registered == IsFiniteSet(clients) /\ \A c \in clients : pc[c] \in InLoop

\* Finitely many messages wait for their LTRIM.
Trimming(l) == {a \in Actors : pc[a] = "trim" /\ room[a] = l}

Pushed == \A l \in Lists : IsFiniteSet(Trimming(l))

\* The notice of a deletion is on its way to whoever is owed one, and no eviction
\* from the room gets there before it.
NoticeAt(w, g, i) ==
  /\ tasks[w][i] = Notice(g)
  /\ \A j \in DOMAIN tasks[w] : j < i => tasks[w][j] # Evict(g)

NoticeComes == \A d \in owed : \E i \in DOMAIN tasks[HomeOf[d[1]]] : NoticeAt(HomeOf[d[1]], d[2], i)

-----------------------------------------------------------------------------
(* Facts about the constants, sequences and numbers. *)

\* What the assumptions on the constants say.
LEMMA Parties ==
  /\ Actors = Conns \cup Requests /\ Conns \cap Requests = {}
  /\ \A a \in Actors : HomeOf[a] \in Workers /\ UserOf[a] \in Users /\ MaxSend[a] \in Nat
  /\ \A c \in Conns : MaxMove[c] \in Nat
  /\ Lists = Groups \cup {General, Rest} /\ Rooms = Groups \cup {General}
  /\ General \notin Groups /\ Rest \notin Rooms /\ None \notin Users
  /\ Keep \in Nat \ {0} /\ Recent \in 1 .. Keep
BY ActorsAssumption, RoomsAssumption, BoundsAssumption DEF Actors, Lists, Rooms

\* A concatenation begins with its first part,
LEMMA Before ==
  ASSUME NEW S, NEW s \in Seq(S), NEW t \in Seq(S)
  PROVE  /\ \A j \in DOMAIN s : j \in DOMAIN (s \o t) /\ (s \o t)[j] = s[j]
         /\ \A i \in DOMAIN s, j \in DOMAIN (s \o t) : j < i => j \in DOMAIN s
         /\ DOMAIN s = 1 .. Len(s) /\ DOMAIN t = 1 .. Len(t)
OBVIOUS

\* and goes on with its second.
LEMMA After ==
  ASSUME NEW S, NEW s \in Seq(S), NEW t \in Seq(S)
  PROVE  /\ \A j \in DOMAIN (s \o t) : j \in DOMAIN s \/ \E i \in DOMAIN t : j = Len(s) + i /\ (s \o t)[j] = t[i]
         /\ \A i \in DOMAIN t : Len(s) + i \in DOMAIN (s \o t) /\ (s \o t)[Len(s) + i] = t[i]
<1>1. DOMAIN s = 1 .. Len(s) /\ DOMAIN t = 1 .. Len(t) /\ DOMAIN (s \o t) = 1 .. Len(s) + Len(t)
  OBVIOUS
<1>2. ASSUME NEW i \in DOMAIN t PROVE Len(s) + i \in DOMAIN (s \o t) /\ (s \o t)[Len(s) + i] = t[i]
  BY <1>1
<1>3. ASSUME NEW j \in DOMAIN (s \o t), j \notin DOMAIN s PROVE j - Len(s) \in DOMAIN t /\ j = Len(s) + (j - Len(s))
  BY <1>1, <1>3
<1> QED
  BY <1>2, <1>3

\* What is behind the first element moves up by one.
LEMMA Shifted ==
  ASSUME NEW S, NEW s \in Seq(S), s # <<>>
  PROVE  /\ \A i \in DOMAIN s : i = 1 \/ (i - 1 \in DOMAIN Tail(s) /\ Tail(s)[i - 1] = s[i])
         /\ \A i \in DOMAIN Tail(s) : i + 1 \in DOMAIN s /\ Tail(s)[i] = s[i + 1] /\ i + 1 > 1
         /\ Head(s) = s[1] /\ 1 \in DOMAIN s
OBVIOUS

\* How many are left of a finite set.
LEMMA Counted ==
  ASSUME NEW S, IsFiniteSet(S), NEW T
  PROVE  Cardinality(S \ T) = Cardinality(S) - Cardinality(S \cap T)
<1>1. IsFiniteSet(S \cap T) /\ IsFiniteSet(S \ T)
  BY FS_Subset
<1>2. (S \ T) \cup (S \cap T) = S /\ (S \ T) \cap (S \cap T) = {}
  OBVIOUS
<1>3. Cardinality(S) = Cardinality(S \ T) + Cardinality(S \cap T) - Cardinality({})
  BY <1>1, <1>2, FS_Union
<1> QED
  BY <1>1, <1>3, FS_EmptySet, FS_CardinalityType

\* A counter goes up as long as it is below its limit.
LEMMA CountedUp ==
  ASSUME NEW S, NEW f \in [S -> Nat], NEW f1, NEW limit, NEW a \in S,
         \A x \in S : limit[x] \in Nat /\ f[x] <= limit[x],
         f[a] < limit[a], f1 = [f EXCEPT ![a] = @ + 1]
  PROVE  f1 \in [S -> Nat] /\ \A x \in S : f1[x] <= limit[x]
OBVIOUS

\* Latest gives the last n elements.
LEMMA LatestIs ==
  ASSUME NEW S, NEW s \in Seq(S), NEW n \in Nat \ {0}
  PROVE  /\ Latest(s, n) \in Seq(S)
         /\ Len(Latest(s, n)) = IF Len(s) > n THEN n ELSE Len(s)
         /\ \A i \in 1 .. Len(Latest(s, n)) : Latest(s, n)[i] = s[i + Len(s) - Len(Latest(s, n))]
<1>1. CASE Len(s) > n
  <2>1. Latest(s, n) = SubSeq(s, Len(s) - n + 1, Len(s))
    BY <1>1 DEF Latest
  <2>2. Len(s) - n + 1 \in 1 .. Len(s) + 1
    BY <1>1
  <2>3. SubSeq(s, Len(s) - n + 1, Len(s)) \in Seq(S) /\ Len(SubSeq(s, Len(s) - n + 1, Len(s))) = n
    BY <1>1, <2>2
  <2>4. \A i \in 1 .. n : SubSeq(s, Len(s) - n + 1, Len(s))[i] = s[i + Len(s) - n]
    BY <1>1, <2>2
  <2> QED
    BY <1>1, <2>1, <2>3, <2>4
<1>2. CASE Len(s) <= n
  <2>0. ~ Len(s) > n
    BY <1>2
  <2>1. Latest(s, n) = SubSeq(s, 1, Len(s))
    BY <2>0 DEF Latest
  <2>2. SubSeq(s, 1, Len(s)) \in Seq(S) /\ Len(SubSeq(s, 1, Len(s))) = Len(s)
    OBVIOUS
  <2>3. \A i \in 1 .. Len(s) : SubSeq(s, 1, Len(s))[i] = s[i] /\ s[i] = s[i + Len(s) - Len(s)]
    OBVIOUS
  <2> QED
    BY <2>0, <2>1, <2>2, <2>3
<1> QED
  BY <1>1, <1>2

-----------------------------------------------------------------------------
(* What a step does to some of the variables. *)

\* Every step keeps an actor and its room together.
LEMMA PlacedStep == TypeOK /\ Placed /\ [Next]_vars => Placed'
<1> SUFFICES ASSUME TypeOK, Placed, [Next]_vars PROVE Placed'
  OBVIOUS
<1>0. pc \in [Actors -> Labels] /\ room \in [Actors -> Lists] /\ sends \in [Actors -> Nat]
  BY DEF TypeOK
<1> USE DEF Sending, InLoop, ConnLabels, GroupLabels, RequestLabels
<1>1. ASSUME NEW c \in Conns, NEW r \in Rooms, Upgrade(c, r) PROVE Placed'
  BY <1>1, <1>0, Parties DEF Placed, Upgrade, Begin, Become
<1>2. ASSUME NEW c \in Conns, Admission(c) PROVE Placed'
  BY ZenonT(40), <1>2, <1>0, Parties DEF Placed, Admission, Finish, Begin, Become
<1>3. ASSUME NEW c \in Conns, Handshake(c) PROVE Placed'
  BY <1>3, <1>0, Parties DEF Placed, Handshake, Become
<1>4. ASSUME NEW c \in Conns, HandshakeFails(c) PROVE Placed'
  BY <1>4, <1>0, Parties DEF Placed, HandshakeFails, Finish, Begin, Become
<1>5. ASSUME NEW c \in Conns, NEW r \in Rooms, NEW n \in 0 .. Recent, History(c, r, n) PROVE Placed'
  BY <1>5, <1>0, Parties DEF Placed, History
<1>6. ASSUME NEW c \in Conns, NEW r \in Rooms, JoinFrame(c, r) PROVE Placed'
  BY <1>6, <1>0, Parties DEF Placed, JoinFrame
<1>7. ASSUME NEW c \in Conns, NEW r \in Rooms, LeaveFrame(c, r) PROVE Placed'
  BY <1>7, <1>0, Parties DEF Placed, LeaveFrame
<1>8. ASSUME NEW c \in Conns, NEW r \in Rooms, SendFrame(c, r) PROVE Placed'
  <2>1. sends' = [sends EXCEPT ![c] = @ + 1] /\ sends'[c] > 0
    BY <1>8, Parties DEF TypeOK, SendFrame
  <2>2. PICK label \in Sending : pc' = [pc EXCEPT ![c] = label]
    BY <1>8 DEF SendFrame, Begin, Become
  <2>3. room' = [room EXCEPT ![c] = r]
    BY <1>8 DEF SendFrame, Begin
  <2> QED
    BY <1>8, <2>1, <2>2, <2>3, <1>0, Parties DEF Placed
<1>9. ASSUME NEW c \in Conns, Membership(c) PROVE Placed'
  BY <1>9, <1>0, Parties DEF Placed, Membership, Become
<1>10. ASSUME NEW c \in Conns, NoMembership(c) PROVE Placed'
  BY <1>10, <1>0, Parties DEF Placed, NoMembership, Begin, Become
<1>11. ASSUME NEW c \in Conns, Close(c) PROVE Placed'
  BY <1>11, <1>0, Parties DEF Placed, Close, Finish, Begin, Become
<1>12. ASSUME NEW c \in Conns, Drop(c) PROVE Placed'
  BY <1>12, <1>0, Parties DEF Placed, Drop, coroutine
<1>13. ASSUME NEW a \in Actors, Push(a) PROVE Placed'
  BY <1>13, <1>0, Parties DEF Placed, Push, Become
<1>14. ASSUME NEW a \in Actors, Trim(a) PROVE Placed'
  <2>1. CASE a \in Conns
    BY ZenonT(40), <1>14, <2>1, <1>0, Parties DEF Placed, Trim, Become
  <2>2. CASE a \in Requests
    <3>1. pc[a] = "trim" /\ pc' = [pc EXCEPT ![a] = "done"] /\ room' = [room EXCEPT ![a] = General]
            /\ UNCHANGED sends
      BY <1>14, <2>2, Parties DEF Trim, Finish, Begin, Become
    <3> QED
      BY <2>2, <3>1, <1>0, Parties DEF Placed
  <2> QED
    BY <2>1, <2>2, Parties
<1>15. ASSUME NEW c \in Conns, Cast(c) PROVE Placed'
  BY <1>15, <1>0, Parties DEF Placed, Cast, Begin, Become
<1>16. ASSUME NEW w \in Workers, RunBroadcast(w) PROVE Placed'
  BY <1>16, <1>0, Parties DEF Placed, RunBroadcast, coroutine
<1>17. ASSUME NEW w \in Workers, RunEvict(w) PROVE Placed'
  BY <1>17, <1>0, Parties DEF Placed, RunEvict, coroutine
<1>18. ASSUME NEW q \in Requests, NEW g \in Groups, NEW label \in Routes, Request(q, g, label) PROVE Placed'
  BY <1>18, <1>0, Parties DEF Placed, Request, Routes, Begin, Become
<1>19. ASSUME NEW q \in Requests, RestSend(q) PROVE Placed'
  <2>1. sends' = [sends EXCEPT ![q] = @ + 1] /\ sends'[q] > 0
    BY <1>19, Parties DEF TypeOK, RestSend
  <2>2. pc' = [pc EXCEPT ![q] = "push"] /\ room' = [room EXCEPT ![q] = Rest]
    BY <1>19 DEF RestSend, Begin, Become
  <2> QED
    BY <1>19, <2>1, <2>2, <1>0, Parties DEF Placed
<1>20. ASSUME NEW q \in Requests, InsertRoom(q) PROVE Placed'
  BY ZenonT(40), <1>20, <1>0, Parties DEF Placed, InsertRoom, Finish, Begin, Become
<1>21. ASSUME NEW q \in Requests, FindRoom(q) PROVE Placed'
  BY ZenonT(40), <1>21, <1>0, Parties DEF Placed, FindRoom, Finish, Begin, Become
<1>22. ASSUME NEW q \in Requests, InsertMember(q) PROVE Placed'
  BY <1>22, <1>0, Parties DEF Placed, InsertMember, Finish, Begin, Become
<1>23. ASSUME NEW q \in Requests, DeleteMember(q) PROVE Placed'
  BY <1>23, <1>0, Parties DEF Placed, DeleteMember, Finish, Begin, Become
<1>24. ASSUME NEW q \in Requests, FindOwner(q) PROVE Placed'
  BY ZenonT(40), <1>24, <1>0, Parties DEF Placed, FindOwner, Finish, Begin, Become
<1>25. ASSUME NEW q \in Requests, DeleteMembers(q) PROVE Placed'
  BY <1>25, <1>0, Parties DEF Placed, DeleteMembers, Finish, Begin, Become
<1>26. ASSUME NEW q \in Requests, DeleteRoom(q) PROVE Placed'
  BY <1>26, <1>0, Parties DEF Placed, DeleteRoom, Finish, Begin, Become
<1>27. ASSUME NEW q \in Requests, DeleteHistory(q) PROVE Placed'
  BY <1>27, <1>0, Parties DEF Placed, DeleteHistory, Finish, Begin, Become
<1>28. ASSUME NEW q \in Requests, Announce(q) PROVE Placed'
  BY <1>28, <1>0, Parties DEF Placed, Announce, Finish, Begin, Become
<1>29. CASE UNCHANGED vars
  BY <1>29 DEF Placed, vars, coroutine
<1> QED
  BY <1>1, <1>2, <1>3, <1>4, <1>5, <1>6, <1>7, <1>8, <1>9, <1>10, <1>11, <1>12, <1>13,
     <1>14, <1>15, <1>16, <1>17, <1>18, <1>19, <1>20, <1>21, <1>22, <1>23, <1>24, <1>25,
     <1>26, <1>27, <1>28, <1>29
  DEF Next, Environment, ActorStep, ConnStep, RequestStep, HistoryStep, WorkerStep, Actors

\* Which steps change the tables,
LEMMA TableMoves ==
  ASSUME [Next]_vars
  PROVE  \/ UNCHANGED tables
         \/ \E q \in Requests : \/ InsertRoom(q) \/ InsertMember(q) \/ DeleteMember(q)
                                \/ DeleteMembers(q) \/ DeleteRoom(q)
BY ZenonT(40) DEF Next, Environment, ActorStep, ConnStep, RequestStep, HistoryStep, WorkerStep, vars,
  Upgrade, Admission, Handshake, HandshakeFails, History, JoinFrame, LeaveFrame, SendFrame,
  Membership, NoMembership, Close, Drop, Push, Trim, Cast, RunBroadcast, RunEvict, Request,
  RestSend, FindRoom, FindOwner, DeleteHistory, Announce

\* the lists,
LEMMA LogMoves ==
  ASSUME [Next]_vars
  PROVE  \/ UNCHANGED log
         \/ \E a \in Actors : Push(a) \/ Trim(a)
         \/ \E q \in Requests : DeleteHistory(q)
BY ZenonT(40) DEF Next, Environment, ActorStep, ConnStep, RequestStep, HistoryStep, WorkerStep, vars,
  Upgrade, Admission, Handshake, HandshakeFails, History, JoinFrame, LeaveFrame, SendFrame,
  Membership, NoMembership, Close, Drop, Cast, RunBroadcast, RunEvict, Request,
  RestSend, InsertRoom, FindRoom, InsertMember, DeleteMember, FindOwner, DeleteMembers,
  DeleteRoom, Announce

\* the queues of the Workers,
LEMMA QueueMoves ==
  ASSUME [Next]_vars
  PROVE  \/ UNCHANGED tasks
         \/ \E c \in Conns : Cast(c)
         \/ \E w \in Workers : RunBroadcast(w) \/ RunEvict(w)
         \/ \E q \in Requests : Announce(q)
BY ZenonT(40) DEF Next, Environment, ActorStep, ConnStep, RequestStep, HistoryStep, WorkerStep, vars,
  Upgrade, Admission, Handshake, HandshakeFails, History, JoinFrame, LeaveFrame, SendFrame,
  Membership, NoMembership, Close, Drop, Push, Trim, Request,
  RestSend, InsertRoom, FindRoom, InsertMember, DeleteMember, FindOwner, DeleteMembers,
  DeleteRoom, DeleteHistory

\* what the browsers have been sent,
LEMMA SeenMoves ==
  ASSUME [Next]_vars
  PROVE  \/ UNCHANGED seen
         \/ \E c \in Conns : Cast(c)
         \/ \E w \in Workers : RunBroadcast(w)
         \/ \E c \in Conns, r \in Rooms, n \in 0 .. Recent : History(c, r, n)
BY ZenonT(40) DEF Next, Environment, ActorStep, ConnStep, RequestStep, HistoryStep, WorkerStep, vars, seen,
  Upgrade, Admission, Handshake, HandshakeFails, JoinFrame, LeaveFrame, SendFrame,
  Membership, NoMembership, Close, Drop, Push, Trim, RunEvict, Request,
  RestSend, InsertRoom, FindRoom, InsertMember, DeleteMember, FindOwner, DeleteMembers,
  DeleteRoom, DeleteHistory, Announce

\* and the registry.
LEMMA RegistryMoves ==
  ASSUME TypeOK, Placed, [Next]_vars
  PROVE  \/ UNCHANGED registry
         \/ \E c \in Conns : Handshake(c)
         \/ \E c \in Conns, r \in Rooms : (JoinRoom(c, r) /\ StartHistory(c, r)) \/ LeaveRoom(c, r)
         \/ \E gone \in SUBSET Conns : Unregister(gone)
         \/ \E w \in Workers : RunEvict(w)
         \/ \E q \in Requests : Announce(q)
<1>1. ASSUME NEW c \in Conns, Cast(c) PROVE \E gone \in SUBSET Conns : Unregister(gone)
  <2>1. room[c] \in Rooms /\ HomeOf[c] \in Workers
    BY Parties DEF Placed
  <2>2. Frame(Message(c)).room = room[c]
    BY DEF Frame, Message
  <2>3. roster[HomeOf[c]][room[c]] \subseteq Conns
    BY <2>1 DEF TypeOK
  <2> QED
    BY <1>1, <2>2, <2>3 DEF Cast
<1>2. ASSUME NEW w \in Workers, RunBroadcast(w) PROVE \E gone \in SUBSET Conns : Unregister(gone)
  <2>1. tasks[w] \in Seq(Tasks) /\ tasks[w] # <<>>
    BY <1>2 DEF TypeOK, RunBroadcast
  <2>2. Head(tasks[w]) \in Tasks
    BY <2>1
  <2>3. Head(tasks[w]).room \in Rooms
    BY <2>2, Parties DEF Tasks
  <2>4. roster[w][Head(tasks[w]).room] \subseteq Conns
    BY <2>3 DEF TypeOK
  <2> QED
    BY <1>2, <2>4 DEF RunBroadcast
<1>3. ASSUME NEW c \in Conns, Close(c) \/ Drop(c) PROVE Unregister({c})
  BY <1>3 DEF Close, Drop
<1>4. ASSUME NEW c \in Conns, NoMembership(c) PROVE LeaveRoom(c, room[c]) /\ room[c] \in Rooms
  BY <1>4 DEF NoMembership, Placed
<1>5. ASSUME NEW c \in Conns, NEW r \in Rooms, JoinFrame(c, r) \/ LeaveFrame(c, r)
      PROVE  (JoinRoom(c, r) /\ StartHistory(c, r)) \/ LeaveRoom(c, r)
  BY <1>5 DEF JoinFrame, LeaveFrame
<1> QED
  BY ZenonT(40), <1>1, <1>2, <1>3, <1>4, <1>5
  DEF Next, Environment, ActorStep, ConnStep, RequestStep, HistoryStep, WorkerStep, vars, registry,
  Upgrade, Admission, HandshakeFails, History, SendFrame, Membership, Push, Trim, Request,
  RestSend, InsertRoom, FindRoom, InsertMember, DeleteMember, FindOwner, DeleteMembers,
  DeleteRoom, DeleteHistory

-----------------------------------------------------------------------------
(* The registry. *)

\* The part of TypeOK that is about the registry.
RegistryTyped ==
  /\ clients \subseteq Conns
  /\ joined \in [Conns -> SUBSET Rooms]
  /\ roster \in [Workers -> [Rooms -> SUBSET Conns]]

\* Removing clients keeps the registry's types.
LEMMA UnregisterTyped ==
  ASSUME RegistryTyped, NEW gone \in SUBSET Conns, Unregister(gone)
  PROVE  RegistryTyped'
BY DEF RegistryTyped, Unregister, JoinedWithout, RosterWithout

\* So does the announcement of a deletion.
LEMMA AnnounceTyped ==
  ASSUME RegistryTyped, Placed, NEW q \in Requests, Announce(q)
  PROVE  RegistryTyped'
<1>1. PICK gone \in SUBSET (roster[HomeOf[q]][room[q]] \cap Frail) :
        /\ clients' = clients \ gone
        /\ joined' = [c \in Conns |-> IF c \in roster[HomeOf[q]][room[q]]
                        THEN JoinedWithout(gone)[c] \ {room[q]} ELSE joined[c]]
        /\ roster' = [RosterWithout(gone) EXCEPT ![HomeOf[q]][room[q]] = {}]
  BY DEF Announce
<1>2. JoinedWithout(gone) \in [Conns -> SUBSET Rooms]
  BY DEF RegistryTyped, JoinedWithout
<1>3. RosterWithout(gone) \in [Workers -> [Rooms -> SUBSET Conns]]
  BY DEF RegistryTyped, RosterWithout
<1> QED
  BY <1>1, <1>2, <1>3 DEF RegistryTyped

\* join_room, member by member.
LEMMA JoinRoomDoes ==
  ASSUME RegistryTyped, NEW c \in Conns, NEW r \in Rooms, JoinRoom(c, r)
  PROVE  /\ RegistryTyped'
         /\ clients' = clients /\ online' = online
         /\ \A d \in Conns, s \in Rooms :
              s \in joined'[d] <=> s \in joined[d] \/ (d = c /\ s = r /\ c \in clients)
         /\ \A w \in Workers, s \in Rooms, d \in Conns :
              d \in roster'[w][s] <=>
                d \in roster[w][s] \/ (d = c /\ w = HomeOf[c] /\ s = r /\ c \in clients)
<1>1. HomeOf[c] \in Workers
  BY Parties
<1>2. CASE c \in clients
  <2>1. joined' = [joined EXCEPT ![c] = @ \cup {r}] /\ clients' = clients /\ online' = online
    BY <1>2 DEF JoinRoom
  <2>2. roster' = [roster EXCEPT ![HomeOf[c]][r] = @ \cup {c}]
    BY <1>2 DEF JoinRoom
  <2>3. /\ joined' \in [Conns -> SUBSET Rooms]
        /\ \A d \in Conns, s \in Rooms : s \in joined'[d] <=> s \in joined[d] \/ (d = c /\ s = r)
    BY <2>1 DEF RegistryTyped
  <2>4. roster' \in [Workers -> [Rooms -> SUBSET Conns]]
    BY <1>1, <2>2 DEF RegistryTyped
  <2>5. \A w \in Workers, s \in Rooms, d \in Conns :
          d \in roster'[w][s] <=> d \in roster[w][s] \/ (d = c /\ w = HomeOf[c] /\ s = r)
    BY <1>1, <2>2 DEF RegistryTyped
  <2> QED
    BY <1>2, <2>1, <2>3, <2>4, <2>5 DEF RegistryTyped
<1>3. CASE c \notin clients
  BY <1>3 DEF JoinRoom, RegistryTyped
<1> QED
  BY <1>2, <1>3

\* leave_room, member by member.
LEMMA LeaveRoomDoes ==
  ASSUME RegistryTyped, NEW c \in Conns, NEW r \in Rooms, LeaveRoom(c, r)
  PROVE  /\ RegistryTyped'
         /\ clients' = clients /\ online' = online
         /\ \A d \in Conns, s \in Rooms :
              s \in joined'[d] <=> s \in joined[d] /\ ~ (d = c /\ s = r /\ c \in clients)
         /\ \A w \in Workers, s \in Rooms, d \in Conns :
              d \in roster'[w][s] <=>
                d \in roster[w][s] /\ ~ (d = c /\ w = HomeOf[c] /\ s = r /\ c \in clients)
<1>1. HomeOf[c] \in Workers
  BY Parties
<1>2. CASE c \in clients
  <2>1. joined' = [joined EXCEPT ![c] = @ \ {r}] /\ clients' = clients /\ online' = online
    BY <1>2 DEF LeaveRoom
  <2>2. roster' = [roster EXCEPT ![HomeOf[c]][r] = @ \ {c}]
    BY <1>2 DEF LeaveRoom
  <2>3. /\ joined' \in [Conns -> SUBSET Rooms]
        /\ \A d \in Conns, s \in Rooms : s \in joined'[d] <=> s \in joined[d] /\ ~ (d = c /\ s = r)
    BY <2>1 DEF RegistryTyped
  <2>4. roster' \in [Workers -> [Rooms -> SUBSET Conns]]
    BY <1>1, <2>2 DEF RegistryTyped
  <2>5. \A w \in Workers, s \in Rooms, d \in Conns :
          d \in roster'[w][s] <=> d \in roster[w][s] /\ ~ (d = c /\ w = HomeOf[c] /\ s = r)
    BY <1>1, <2>2 DEF RegistryTyped
  <2> QED
    BY <1>2, <2>1, <2>3, <2>4, <2>5 DEF RegistryTyped
<1>3. CASE c \notin clients
  BY <1>3 DEF LeaveRoom, RegistryTyped
<1> QED
  BY <1>2, <1>3

\* add and the first join_room, member by member.
LEMMA HandshakeDoes ==
  ASSUME RegistryTyped, Placed, NEW c \in Conns, Handshake(c)
  PROVE  /\ RegistryTyped'
         /\ clients' = clients \cup {c} /\ online' = online + 1
         /\ \A d \in Conns, s \in Rooms :
              s \in joined'[d] <=> \/ d # c /\ s \in joined[d]
                                   \/ d = c /\ s = room[c]
         /\ \A w \in Workers, s \in Rooms, d \in Conns :
              d \in roster'[w][s] <=>
                d \in roster[w][s] \/ (d = c /\ w = HomeOf[c] /\ s = room[c])
<1>1. PICK r \in Rooms : r = room[c]
  BY DEF Placed
<1>2. HomeOf[c] \in Workers
  BY Parties
<1>3. clients' = clients \cup {c} /\ online' = online + 1 /\ joined' = [joined EXCEPT ![c] = {r}]
  BY <1>1 DEF Handshake
<1>4. roster' = [roster EXCEPT ![HomeOf[c]][r] = @ \cup {c}]
  BY <1>1 DEF Handshake
<1>5. /\ joined' \in [Conns -> SUBSET Rooms]
      /\ \A d \in Conns, s \in Rooms : s \in joined'[d] <=> \/ d # c /\ s \in joined[d]
                                                            \/ d = c /\ s = r
  BY <1>3 DEF RegistryTyped
<1>6. roster' \in [Workers -> [Rooms -> SUBSET Conns]]
  BY <1>2, <1>4 DEF RegistryTyped
<1>7. \A w \in Workers, s \in Rooms, d \in Conns :
        d \in roster'[w][s] <=> d \in roster[w][s] \/ (d = c /\ w = HomeOf[c] /\ s = r)
  BY <1>2, <1>4 DEF RegistryTyped
<1> QED
  BY <1>1, <1>3, <1>5, <1>6, <1>7 DEF RegistryTyped

\* The coroutine a Worker resumes next.
LEMMA HeadRoom ==
  ASSUME TypeOK, NEW w \in Workers, tasks[w] # <<>>
  PROVE  /\ Head(tasks[w]) \in Tasks /\ Head(tasks[w]).room \in Rooms
         /\ Tail(tasks[w]) \in Seq(Tasks)
         /\ Head(tasks[w]).type # "message" => Head(tasks[w]).room \in Groups
<1>1. tasks[w] \in Seq(Tasks)
  BY DEF TypeOK
<1>2. Head(tasks[w]) \in Tasks /\ Tail(tasks[w]) \in Seq(Tasks)
  BY <1>1
<1> QED
  BY <1>2, Parties DEF Tasks

\* evict_local_room, member by member.
LEMMA RunEvictDoes ==
  ASSUME RegistryTyped, NEW w \in Workers, NEW g \in Rooms, g = Head(tasks[w]).room, RunEvict(w)
  PROVE  /\ RegistryTyped'
         /\ clients' = clients /\ online' = online
         /\ \A d \in Conns, s \in Rooms :
              s \in joined'[d] <=> s \in joined[d] /\ ~ (s = g /\ d \in roster[w][g] /\ d \in clients)
         /\ \A v \in Workers, s \in Rooms, d \in Conns :
              d \in roster'[v][s] <=> d \in roster[v][s] /\ ~ (v = w /\ s = g)
<1>1. roster' = [roster EXCEPT ![w][g] = {}]
  BY DEF RunEvict
<1>2. joined' = [c \in Conns |-> IF c \in roster[w][g] \cap clients
                   THEN joined[c] \ {g} ELSE joined[c]]
  BY DEF RunEvict
<1>3. clients' = clients /\ online' = online
  BY DEF RunEvict
<1>4. roster' \in [Workers -> [Rooms -> SUBSET Conns]]
  BY <1>1 DEF RegistryTyped
<1>5. \A v \in Workers, s \in Rooms, d \in Conns :
        d \in roster'[v][s] <=> d \in roster[v][s] /\ ~ (v = w /\ s = g)
  BY <1>1 DEF RegistryTyped
<1>6. /\ joined' \in [Conns -> SUBSET Rooms]
      /\ \A d \in Conns, s \in Rooms :
           s \in joined'[d] <=> s \in joined[d] /\ ~ (s = g /\ d \in roster[w][g] /\ d \in clients)
  BY <1>2 DEF RegistryTyped
<1> QED
  BY <1>3, <1>4, <1>5, <1>6 DEF RegistryTyped

\* remove, member by member.
LEMMA UnregisterDoes ==
  ASSUME RegistryTyped, NEW gone \in SUBSET Conns, Unregister(gone)
  PROVE  /\ RegistryTyped'
         /\ clients' = clients \ gone
         /\ online' = online - Cardinality(clients \cap gone)
         /\ \A d \in Conns, s \in Rooms : s \in joined'[d] <=> s \in joined[d] /\ d \notin gone
         /\ \A w \in Workers, s \in Rooms, d \in Conns :
              d \in roster'[w][s] <=> d \in roster[w][s] /\ ~ (d \in gone /\ s \in joined[d])
<1>1. clients' = clients \ gone /\ online' = online - Cardinality(clients \cap gone)
  BY DEF Unregister
<1>2. \A d \in Conns, s \in Rooms : s \in joined'[d] <=> s \in joined[d] /\ d \notin gone
  BY DEF Unregister, JoinedWithout
<1>3. \A w \in Workers, s \in Rooms, d \in Conns :
        d \in roster'[w][s] <=> d \in roster[w][s] /\ ~ (d \in gone /\ s \in joined[d])
  BY DEF Unregister, RosterWithout
<1> QED
  BY <1>1, <1>2, <1>3, UnregisterTyped

\* The announcement of a deletion on its own Worker, member by member.
LEMMA AnnounceDoes ==
  ASSUME RegistryTyped, Placed, NEW q \in Requests, Announce(q)
  PROVE  \E gone \in SUBSET (roster[HomeOf[q]][room[q]] \cap Frail) :
           /\ clients' = clients \ gone
           /\ online' = online - Cardinality(clients \cap gone)
           /\ \A d \in Conns, s \in Rooms :
                s \in joined'[d] <=> /\ s \in joined[d] /\ d \notin gone
                                     /\ ~ (s = room[q] /\ d \in roster[HomeOf[q]][room[q]])
           /\ \A w \in Workers, s \in Rooms, d \in Conns :
                d \in roster'[w][s] <=> /\ d \in roster[w][s]
                                        /\ ~ (d \in gone /\ s \in joined[d])
                                        /\ ~ (w = HomeOf[q] /\ s = room[q])
<1>1. PICK v \in Workers, g \in Rooms : v = HomeOf[q] /\ g = room[q]
  BY Parties DEF Placed, Announce, GroupLabels
<1>2. PICK gone \in SUBSET (roster[v][g] \cap Frail) :
        /\ clients' = clients \ gone
        /\ online' = online - Cardinality(clients \cap gone)
        /\ joined' = [c \in Conns |-> IF c \in roster[v][g]
                        THEN JoinedWithout(gone)[c] \ {g} ELSE joined[c]]
        /\ roster' = [RosterWithout(gone) EXCEPT ![v][g] = {}]
  BY <1>1 DEF Announce
<1>3. gone \subseteq roster[v][g] /\ gone \subseteq Conns
  BY <1>1 DEF RegistryTyped
<1>4. \A d \in Conns, s \in Rooms : s \in JoinedWithout(gone)[d] <=> s \in joined[d] /\ d \notin gone
  BY DEF JoinedWithout
<1>5. /\ RosterWithout(gone) \in [Workers -> [Rooms -> SUBSET Conns]]
      /\ \A w \in Workers, s \in Rooms, d \in Conns :
           d \in RosterWithout(gone)[w][s] <=> d \in roster[w][s] /\ ~ (d \in gone /\ s \in joined[d])
  BY DEF RegistryTyped, RosterWithout
<1>6. \A d \in Conns, s \in Rooms :
        s \in joined'[d] <=> s \in joined[d] /\ d \notin gone /\ ~ (s = g /\ d \in roster[v][g])
  BY <1>2, <1>3, <1>4
<1>7. \A w \in Workers, s \in Rooms, d \in Conns :
        d \in roster'[w][s] <=> d \in RosterWithout(gone)[w][s] /\ ~ (w = v /\ s = g)
  <2>1. ASSUME NEW R \in [Workers -> [Rooms -> SUBSET Conns]], roster' = [R EXCEPT ![v][g] = {}]
        PROVE  \A w \in Workers, s \in Rooms, d \in Conns :
                 d \in roster'[w][s] <=> d \in R[w][s] /\ ~ (w = v /\ s = g)
    BY <2>1
  <2> QED
    BY <1>2, <1>5, <2>1
<1>8. clients' = clients \ gone /\ online' = online - Cardinality(clients \cap gone)
  BY <1>2
<1>9. \A w \in Workers, s \in Rooms, d \in Conns :
        d \in roster'[w][s] <=> d \in roster[w][s] /\ ~ (d \in gone /\ s \in joined[d]) /\ ~ (w = v /\ s = g)
  BY <1>5, <1>7
<1> QED
  BY ZenonT(40), <1>1, <1>6, <1>8, <1>9

\* Every step keeps the registry's types.
LEMMA RegistryTypes ==
  ASSUME TypeOK, Placed, [Next]_vars
  PROVE  RegistryTyped'
<1>0. RegistryTyped
  BY DEF TypeOK, RegistryTyped
<1>1. CASE UNCHANGED registry
  BY <1>0, <1>1 DEF RegistryTyped, registry
<1>2. ASSUME NEW w \in Workers, RunEvict(w) PROVE RegistryTyped'
  BY <1>0, <1>2, HeadRoom, RunEvictDoes DEF RunEvict
<1> QED
  BY <1>0, <1>1, <1>2, HandshakeDoes, JoinRoomDoes, LeaveRoomDoes, UnregisterTyped,
     AnnounceTyped,
     RegistryMoves

\* The registry, client by client and room by room.
Rostered ==
  /\ \A w \in Workers, r \in Rooms, c \in Conns :
       c \in roster[w][r] <=> c \in clients /\ HomeOf[c] = w /\ r \in joined[c]
  /\ \A c \in Conns, r \in Rooms : r \in joined[c] => c \in clients

\* This and the counter are all that RegistryAgrees says.
LEMMA RosterPointwise ==
  ASSUME RegistryTyped
  PROVE  RegistryAgrees <=> Rostered /\ online = Cardinality(clients)
<1>1. ASSUME NEW w \in Workers, NEW r \in Rooms
      PROVE  roster[w][r] = {c \in clients : HomeOf[c] = w /\ r \in joined[c]}
               <=> \A c \in Conns : c \in roster[w][r] <=> c \in clients /\ HomeOf[c] = w /\ r \in joined[c]
  BY DEF RegistryTyped
<1>2. ASSUME NEW c \in Conns
      PROVE  (c \in Conns \ clients => joined[c] = {}) <=> \A r \in Rooms : r \in joined[c] => c \in clients
  BY DEF RegistryTyped
<1> QED
  BY <1>1, <1>2 DEF RegistryAgrees, Rostered

\* Every step keeps the two directions of the registry in agreement.
LEMMA RegistryStep ==
  ASSUME TypeOK, Placed, Registered, RegistryAgrees, [Next]_vars
  PROVE  RegistryAgrees'
<1>0. RegistryTyped /\ RegistryTyped'
  BY RegistryTypes DEF TypeOK, RegistryTyped
<1>1. /\ Rostered /\ IsFiniteSet(clients) /\ clients \subseteq Conns
      /\ online = Cardinality(clients)
  BY <1>0, RosterPointwise DEF Registered, RegistryTyped
<1> SUFFICES Rostered' /\ online' = Cardinality(clients')
  <2>1. ASSUME Rostered', NEW w \in Workers, NEW r \in Rooms
        PROVE  roster'[w][r] = {c \in clients' : HomeOf[c] = w /\ r \in joined'[c]}
    BY <1>0, <2>1 DEF RegistryTyped, Rostered
  <2>2. ASSUME Rostered', NEW c \in Conns \ clients' PROVE joined'[c] = {}
    BY <1>0, <2>2 DEF RegistryTyped, Rostered
  <2> QED
    BY <2>1, <2>2 DEF RegistryAgrees
<1>2. CASE UNCHANGED registry
  BY <1>1, <1>2 DEF registry, Rostered
<1>3. ASSUME NEW c \in Conns, Handshake(c) PROVE Rostered' /\ online' = Cardinality(clients')
  <2>1. c \notin clients
    BY <1>1, <1>3 DEF Registered, InLoop, Sending, Handshake
  <2>2. Cardinality(clients \cup {c}) = Cardinality(clients) + 1
    BY <1>1, <2>1, FS_AddElement
  <2>3. Rostered'
    BY <1>0, <1>1, <1>3, <2>1, HandshakeDoes DEF Rostered
  <2> QED
    BY <1>0, <1>1, <1>3, <2>1, <2>2, <2>3, HandshakeDoes
<1>4. ASSUME NEW c \in Conns, NEW r \in Rooms, JoinRoom(c, r) \/ LeaveRoom(c, r)
      PROVE  Rostered' /\ online' = Cardinality(clients')
  <2>1. CASE JoinRoom(c, r)
    BY <1>0, <1>1, <2>1, JoinRoomDoes DEF Rostered
  <2>2. CASE LeaveRoom(c, r)
    <3>1. /\ clients' = clients /\ online' = online
          /\ \A d \in Conns, s \in Rooms : s \in joined'[d] <=> s \in joined[d] /\ ~ (d = c /\ s = r /\ c \in clients)
          /\ \A w \in Workers, s \in Rooms, d \in Conns :
               d \in roster'[w][s] <=>
                 d \in roster[w][s] /\ ~ (d = c /\ w = HomeOf[c] /\ s = r /\ c \in clients)
      BY <1>0, <2>2, LeaveRoomDoes
    <3> QED
      BY <1>1, <3>1 DEF Rostered
  <2> QED
    BY <1>4, <2>1, <2>2
<1>5. ASSUME NEW gone \in SUBSET Conns, Unregister(gone)
      PROVE  Rostered' /\ online' = Cardinality(clients')
  <2>1. /\ clients' = clients \ gone
        /\ \A d \in Conns, s \in Rooms : s \in joined'[d] <=> s \in joined[d] /\ d \notin gone
        /\ \A w \in Workers, s \in Rooms, d \in Conns :
             d \in roster'[w][s] <=> d \in roster[w][s] /\ ~ (d \in gone /\ s \in joined[d])
    BY <1>0, <1>5, UnregisterDoes
  <2>2. Rostered'
    BY <1>1, <2>1 DEF Rostered
  <2>3. online' = Cardinality(clients')
    <3>1. clients' = clients \ gone /\ online' = online - Cardinality(clients \cap gone)
      BY <1>5 DEF Unregister
    <3>2. Cardinality(clients \ gone) = Cardinality(clients) - Cardinality(clients \cap gone)
      BY <1>1, Counted
    <3> QED
      BY <1>1, <3>1, <3>2
  <2> QED
    BY <2>2, <2>3
<1>6. ASSUME NEW w \in Workers, RunEvict(w) PROVE Rostered' /\ online' = Cardinality(clients')
  <2>1. PICK g \in Rooms : g = Head(tasks[w]).room
    BY <1>6, HeadRoom DEF RunEvict
  <2> QED
    BY <1>0, <1>1, <1>6, <2>1, RunEvictDoes DEF Rostered
<1>7. ASSUME NEW q \in Requests, Announce(q) PROVE Rostered' /\ online' = Cardinality(clients')
  <2>1. PICK gone \in SUBSET (roster[HomeOf[q]][room[q]] \cap Frail) :
           /\ clients' = clients \ gone
           /\ online' = online - Cardinality(clients \cap gone)
           /\ \A d \in Conns, s \in Rooms :
                s \in joined'[d] <=> /\ s \in joined[d] /\ d \notin gone
                                     /\ ~ (s = room[q] /\ d \in roster[HomeOf[q]][room[q]])
           /\ \A w \in Workers, s \in Rooms, d \in Conns :
                d \in roster'[w][s] <=> /\ d \in roster[w][s]
                                        /\ ~ (d \in gone /\ s \in joined[d])
                                        /\ ~ (w = HomeOf[q] /\ s = room[q])
    BY <1>0, <1>7, AnnounceDoes
  <2>2. HomeOf[q] \in Workers /\ room[q] \in Rooms
    BY <1>7, Parties DEF Placed, Announce, GroupLabels
  <2>3. Rostered'
    BY <1>1, <2>1, <2>2 DEF Rostered
  <2> QED
    BY <1>1, <2>1, <2>3, Counted
<1> QED
  BY <1>2, <1>3, <1>4, <1>5, <1>6, <1>7, RegistryMoves

\* A connection in its message loop stays there until its cleanup.
LEMMA LoopStep ==
  ASSUME TypeOK, [Next]_vars, NEW c \in Conns, pc[c] \in InLoop
  PROVE  pc'[c] \in InLoop \/ Close(c)
<1> USE DEF InLoop, Sending
<1>0. pc \in [Actors -> Labels] /\ c \in Actors
  BY Parties DEF TypeOK
<1>1. ASSUME NEW d \in Conns, NEW r \in Rooms, Upgrade(d, r) PROVE pc'[c] \in InLoop
  BY <1>1, <1>0, Parties DEF Upgrade, Begin, Become
<1>2. ASSUME NEW d \in Conns, Admission(d) PROVE pc'[c] \in InLoop
  BY <1>2, <1>0, Parties DEF Admission, Finish, Begin, Become
<1>3. ASSUME NEW d \in Conns, Handshake(d) PROVE pc'[c] \in InLoop
  BY <1>3, <1>0, Parties DEF Handshake, Become
<1>4. ASSUME NEW d \in Conns, HandshakeFails(d) PROVE pc'[c] \in InLoop
  BY <1>4, <1>0, Parties DEF HandshakeFails, Finish, Begin, Become
<1>5. ASSUME NEW d \in Conns, NEW r \in Rooms, SendFrame(d, r) PROVE pc'[c] \in InLoop
  BY <1>5, <1>0, Parties DEF SendFrame, Begin, Become
<1>6. ASSUME NEW d \in Conns, Membership(d) PROVE pc'[c] \in InLoop
  BY <1>6, <1>0, Parties DEF Membership, Become
<1>7. ASSUME NEW d \in Conns, NoMembership(d) PROVE pc'[c] \in InLoop
  BY <1>7, <1>0, Parties DEF NoMembership, Begin, Become
<1>8. ASSUME NEW a \in Actors, Push(a) PROVE pc'[c] \in InLoop
  BY <1>8, <1>0, Parties DEF Push, Become
<1>9. ASSUME NEW a \in Actors, Trim(a) PROVE pc'[c] \in InLoop
  BY <1>9, <1>0, Parties DEF Trim, Finish, Begin, Become
<1>10. ASSUME NEW d \in Conns, Cast(d) PROVE pc'[c] \in InLoop
  BY <1>10, <1>0, Parties DEF Cast, Begin, Become
<1>11. ASSUME NEW q \in Requests, NEW g \in Groups, NEW label \in Routes, Request(q, g, label) PROVE pc'[c] \in InLoop
  BY <1>11, <1>0, Parties DEF Request, Begin, Become
<1>12. ASSUME NEW q \in Requests, RestSend(q) PROVE pc'[c] \in InLoop
  BY <1>12, <1>0, Parties DEF RestSend, Begin, Become
<1>13. ASSUME NEW q \in Requests, InsertRoom(q) PROVE pc'[c] \in InLoop
  BY <1>13, <1>0, Parties DEF InsertRoom, Finish, Begin, Become
<1>14. ASSUME NEW q \in Requests, FindRoom(q) PROVE pc'[c] \in InLoop
  BY <1>14, <1>0, Parties DEF FindRoom, Finish, Begin, Become
<1>15. ASSUME NEW q \in Requests, InsertMember(q) PROVE pc'[c] \in InLoop
  BY <1>15, <1>0, Parties DEF InsertMember, Finish, Begin, Become
<1>16. ASSUME NEW q \in Requests, DeleteMember(q) PROVE pc'[c] \in InLoop
  BY <1>16, <1>0, Parties DEF DeleteMember, Finish, Begin, Become
<1>17. ASSUME NEW q \in Requests, FindOwner(q) PROVE pc'[c] \in InLoop
  BY <1>17, <1>0, Parties DEF FindOwner, Finish, Begin, Become
<1>18. ASSUME NEW q \in Requests, DeleteMembers(q) PROVE pc'[c] \in InLoop
  BY <1>18, <1>0, Parties DEF DeleteMembers, Finish, Begin, Become
<1>19. ASSUME NEW q \in Requests, DeleteRoom(q) PROVE pc'[c] \in InLoop
  BY <1>19, <1>0, Parties DEF DeleteRoom, Finish, Begin, Become
<1>20. ASSUME NEW q \in Requests, DeleteHistory(q) PROVE pc'[c] \in InLoop
  BY <1>20, <1>0, Parties DEF DeleteHistory, Finish, Begin, Become
<1>21. ASSUME NEW q \in Requests, Announce(q) PROVE pc'[c] \in InLoop
  BY <1>21, <1>0, Parties DEF Announce, Finish, Begin, Become
<1>22. ASSUME NEW d \in Conns, Close(d) PROVE pc'[c] \in InLoop \/ Close(c)
  <2>1. pc' = [pc EXCEPT ![d] = "done"]
    BY <1>22 DEF Close, Finish, Begin, Become
  <2> QED
    BY <1>0, <1>22, <2>1, Parties
<1>23. ASSUME NEW d \in Conns, NEW r \in Rooms, JoinFrame(d, r) \/ LeaveFrame(d, r) \/ HistoryStep(d, r)
       PROVE  UNCHANGED pc
  BY <1>23 DEF JoinFrame, LeaveFrame, HistoryStep, History
<1>24. ASSUME NEW d \in Conns, Drop(d) PROVE UNCHANGED pc
  BY <1>24 DEF Drop, coroutine
<1>25. ASSUME NEW w \in Workers, WorkerStep(w) PROVE UNCHANGED pc
  BY <1>25 DEF WorkerStep, RunBroadcast, RunEvict, coroutine
<1>26. CASE UNCHANGED vars
  BY <1>26 DEF vars, coroutine
<1> QED
  BY <1>1, <1>2, <1>3, <1>4, <1>5, <1>6, <1>7, <1>8, <1>9, <1>10, <1>11, <1>12, <1>13,
     <1>14, <1>15,
     <1>16, <1>17, <1>18, <1>19, <1>20, <1>21, <1>22, <1>23, <1>24, <1>25, <1>26
  DEF Next, Environment, ActorStep, ConnStep, RequestStep

\* Clients come one at a time, by a handshake.
LEMMA ClientMoves ==
  ASSUME TypeOK, Placed, [Next]_vars
  PROVE  \/ clients' \subseteq clients
         \/ \E c \in Conns : Handshake(c) /\ clients' = clients \cup {c}
<1>1. ASSUME NEW q \in Requests, Announce(q) PROVE clients' \subseteq clients
  BY <1>1 DEF Announce
<1> QED
  BY <1>1, RegistryMoves DEF registry, Handshake, JoinRoom, LeaveRoom, Unregister, RunEvict

\* Every registered client is in its message loop.
LEMMA RegisteredStep ==
  ASSUME TypeOK, Placed, Registered, [Next]_vars
  PROVE  Registered'
<1>1. IsFiniteSet(clients')
  BY ClientMoves, FS_AddElement, FS_Subset DEF Registered
<1>2. ASSUME NEW c \in clients' PROVE pc'[c] \in InLoop
  <2>0. c \in Conns /\ pc \in [Actors -> Labels]
    BY RegistryTypes DEF RegistryTyped, TypeOK
  <2>1. CASE c \notin clients
    <3>1. Handshake(c)
      BY <1>2, <2>1, ClientMoves
    <3> QED
      BY <2>0, <3>1, Parties DEF Handshake, Become, InLoop
  <2>2. CASE c \in clients
    <3>1. pc[c] \in InLoop /\ ~ Close(c)
      BY <1>2, <2>2 DEF Registered, Close, Unregister
    <3> QED
      BY <2>0, <3>1, LoopStep
  <2> QED
    BY <2>1, <2>2
<1> QED
  BY <1>1, <1>2 DEF Registered

-----------------------------------------------------------------------------
(* The types. *)

\* The part of TypeOK that is about the coroutines.
CoroutineTyped ==
  /\ pc \in [Actors -> Labels] /\ room \in [Actors -> Lists]
  /\ sends \in [Actors -> Nat] /\ \A a \in Actors : sends[a] <= MaxSend[a]
  /\ loads \in [Conns -> [Rooms -> Nat]]
  /\ moves \in [Conns -> Nat] /\ \A c \in Conns : moves[c] <= MaxMove[c]

\* One more history to wait for.
LEMMA StartHistoryTyped ==
  ASSUME loads \in [Conns -> [Rooms -> Nat]], NEW c \in Conns, NEW r \in Rooms, StartHistory(c, r)
  PROVE  loads' \in [Conns -> [Rooms -> Nat]]
BY DEF StartHistory

\* Every step keeps the coroutines' types.
LEMMA CoroutineTypes ==
  ASSUME TypeOK, Placed, [Next]_vars
  PROVE  CoroutineTyped'
<1>0. CoroutineTyped
  BY DEF TypeOK, CoroutineTyped
<1>a. ASSUME NEW c \in Conns, moves[c] < MaxMove[c], moves' = [moves EXCEPT ![c] = @ + 1]
      PROVE  moves' \in [Conns -> Nat] /\ \A d \in Conns : moves'[d] <= MaxMove[d]
  <2>1. moves \in [Conns -> Nat] /\ \A d \in Conns : MaxMove[d] \in Nat /\ moves[d] <= MaxMove[d]
    BY <1>0, Parties DEF CoroutineTyped
  <2> QED
    BY <1>a, <2>1, CountedUp
<1>b. ASSUME NEW a \in Actors, sends[a] < MaxSend[a], sends' = [sends EXCEPT ![a] = @ + 1]
      PROVE  sends' \in [Actors -> Nat] /\ \A d \in Actors : sends'[d] <= MaxSend[d]
  <2>1. sends \in [Actors -> Nat] /\ \A d \in Actors : MaxSend[d] \in Nat /\ sends[d] <= MaxSend[d]
    BY <1>0, Parties DEF CoroutineTyped
  <2> QED
    BY <1>b, <2>1, CountedUp
<1>c. loads \in [Conns -> [Rooms -> Nat]]
  BY <1>0 DEF CoroutineTyped
<1>d. ASSUME NEW c \in Conns, NEW r \in Rooms, loads[c][r] > 0, loads' = [loads EXCEPT ![c][r] = @ - 1]
      PROVE  loads' \in [Conns -> [Rooms -> Nat]]
  BY <1>c, <1>d
<1> USE Parties DEF CoroutineTyped, Labels
<1>1. ASSUME NEW c \in Conns, NEW r \in Rooms, Upgrade(c, r) PROVE CoroutineTyped'
  BY <1>0, <1>1 DEF Upgrade, Begin, Become
<1>2. ASSUME NEW c \in Conns, Admission(c) PROVE CoroutineTyped'
  BY <1>0, <1>2 DEF Admission, Finish, Begin, Become
<1>3. ASSUME NEW c \in Conns, Handshake(c) PROVE CoroutineTyped'
  <2>1. PICK r \in Rooms : r = room[c]
    BY DEF Placed
  <2>2. loads' \in [Conns -> [Rooms -> Nat]]
    BY <1>0, <1>3, <2>1, StartHistoryTyped DEF Handshake
  <2>3. pc' \in [Actors -> Labels] /\ room' \in [Actors -> Lists] /\ UNCHANGED <<sends, moves>>
    BY <1>0, <1>3 DEF Handshake, Become
  <2> QED
    BY <1>0, <2>2, <2>3
<1>4. ASSUME NEW c \in Conns, HandshakeFails(c) PROVE CoroutineTyped'
  BY <1>0, <1>4 DEF HandshakeFails, Finish, Begin, Become
<1>5. ASSUME NEW c \in Conns, NEW r \in Rooms, NEW n \in 0 .. Recent, History(c, r, n) PROVE CoroutineTyped'
  <2>1. loads' = [loads EXCEPT ![c][r] = @ - 1] /\ loads[c][r] > 0
    BY <1>5 DEF History
  <2>2. loads' \in [Conns -> [Rooms -> Nat]]
    BY <1>d, <2>1
  <2> QED
    BY <1>0, <1>5, <2>2 DEF History
<1>6. ASSUME NEW c \in Conns, NEW r \in Rooms, JoinFrame(c, r) PROVE CoroutineTyped'
  <2>1. loads' \in [Conns -> [Rooms -> Nat]]
    BY <1>0, <1>6, StartHistoryTyped DEF JoinFrame
  <2>2. moves[c] < MaxMove[c] /\ moves' = [moves EXCEPT ![c] = @ + 1]
    BY <1>6 DEF JoinFrame
  <2>3. moves' \in [Conns -> Nat] /\ \A d \in Conns : moves'[d] <= MaxMove[d]
    BY <1>a, <2>2
  <2> QED
    BY <1>0, <1>6, <2>1, <2>3 DEF JoinFrame
<1>7. ASSUME NEW c \in Conns, NEW r \in Rooms, LeaveFrame(c, r) PROVE CoroutineTyped'
  <2>1. moves[c] < MaxMove[c] /\ moves' = [moves EXCEPT ![c] = @ + 1]
    BY <1>7 DEF LeaveFrame
  <2>2. moves' \in [Conns -> Nat] /\ \A d \in Conns : moves'[d] <= MaxMove[d]
    BY <1>a, <2>1
  <2> QED
    BY <1>0, <1>7, <2>2 DEF LeaveFrame
<1>8. ASSUME NEW c \in Conns, NEW r \in Rooms, SendFrame(c, r) PROVE CoroutineTyped'
  <2>1. sends[c] < MaxSend[c] /\ sends' = [sends EXCEPT ![c] = @ + 1]
    BY <1>8 DEF SendFrame
  <2>2. sends' \in [Actors -> Nat] /\ \A a \in Actors : sends'[a] <= MaxSend[a]
    BY <1>b, <2>1
  <2>3. pc' \in [Actors -> Labels] /\ room' \in [Actors -> Lists]
    BY <1>0, <1>8 DEF SendFrame, Begin, Become
  <2> QED
    BY <1>0, <1>8, <2>2, <2>3 DEF SendFrame
<1>9. ASSUME NEW c \in Conns, Membership(c) PROVE CoroutineTyped'
  BY <1>0, <1>9 DEF Membership, Become
<1>10. ASSUME NEW c \in Conns, NoMembership(c) PROVE CoroutineTyped'
  BY <1>0, <1>10 DEF NoMembership, Begin, Become
<1>11. ASSUME NEW c \in Conns, Close(c) PROVE CoroutineTyped'
  BY <1>0, <1>11 DEF Close, Finish, Begin, Become
<1>12. ASSUME NEW c \in Conns, Drop(c) PROVE CoroutineTyped'
  BY <1>0, <1>12 DEF Drop, coroutine
<1>13. ASSUME NEW a \in Actors, Push(a) PROVE CoroutineTyped'
  BY <1>0, <1>13 DEF Push, Become
<1>14. ASSUME NEW a \in Actors, Trim(a) PROVE CoroutineTyped'
  BY <1>0, <1>14 DEF Trim, Finish, Begin, Become
<1>15. ASSUME NEW c \in Conns, Cast(c) PROVE CoroutineTyped'
  BY <1>0, <1>15 DEF Cast, Begin, Become
<1>16. ASSUME NEW w \in Workers, RunBroadcast(w) PROVE CoroutineTyped'
  BY <1>0, <1>16 DEF RunBroadcast, coroutine
<1>17. ASSUME NEW w \in Workers, RunEvict(w) PROVE CoroutineTyped'
  BY <1>0, <1>17 DEF RunEvict, coroutine
<1>18. ASSUME NEW q \in Requests, NEW g \in Groups, NEW label \in Routes, Request(q, g, label) PROVE CoroutineTyped'
  BY <1>0, <1>18 DEF Request, Routes, Begin, Become
<1>19. ASSUME NEW q \in Requests, RestSend(q) PROVE CoroutineTyped'
  <2>1. sends[q] < MaxSend[q] /\ sends' = [sends EXCEPT ![q] = @ + 1]
    BY <1>19 DEF RestSend
  <2>2. sends' \in [Actors -> Nat] /\ \A a \in Actors : sends'[a] <= MaxSend[a]
    BY <1>b, <2>1
  <2>3. pc' \in [Actors -> Labels] /\ room' \in [Actors -> Lists]
    BY <1>0, <1>19 DEF RestSend, Begin, Become
  <2> QED
    BY <1>0, <1>19, <2>2, <2>3 DEF RestSend
<1>20. ASSUME NEW q \in Requests, InsertRoom(q) PROVE CoroutineTyped'
  BY <1>0, <1>20 DEF InsertRoom, Finish, Begin, Become
<1>21. ASSUME NEW q \in Requests, FindRoom(q) PROVE CoroutineTyped'
  BY <1>0, <1>21 DEF FindRoom, Finish, Begin, Become
<1>22. ASSUME NEW q \in Requests, InsertMember(q) PROVE CoroutineTyped'
  BY <1>0, <1>22 DEF InsertMember, Finish, Begin, Become
<1>23. ASSUME NEW q \in Requests, DeleteMember(q) PROVE CoroutineTyped'
  BY <1>0, <1>23 DEF DeleteMember, Finish, Begin, Become
<1>24. ASSUME NEW q \in Requests, FindOwner(q) PROVE CoroutineTyped'
  BY <1>0, <1>24 DEF FindOwner, Finish, Begin, Become
<1>25. ASSUME NEW q \in Requests, DeleteMembers(q) PROVE CoroutineTyped'
  BY <1>0, <1>25 DEF DeleteMembers, Finish, Begin, Become
<1>26. ASSUME NEW q \in Requests, DeleteRoom(q) PROVE CoroutineTyped'
  BY <1>0, <1>26 DEF DeleteRoom, Finish, Begin, Become
<1>27. ASSUME NEW q \in Requests, DeleteHistory(q) PROVE CoroutineTyped'
  BY <1>0, <1>27 DEF DeleteHistory, Finish, Begin, Become
<1>28. ASSUME NEW q \in Requests, Announce(q) PROVE CoroutineTyped'
  BY <1>0, <1>28 DEF Announce, Finish, Begin, Become
<1>29. CASE UNCHANGED vars
  BY <1>0, <1>29 DEF vars, coroutine
<1> QED
  BY <1>1, <1>2, <1>3, <1>4, <1>5, <1>6, <1>7, <1>8, <1>9, <1>10, <1>11, <1>12, <1>13,
     <1>14, <1>15, <1>16, <1>17, <1>18, <1>19, <1>20, <1>21, <1>22, <1>23, <1>24, <1>25,
     <1>26, <1>27, <1>28, <1>29
  DEF Next, Environment, ActorStep, ConnStep, RequestStep, HistoryStep, WorkerStep

\* The message an actor works on.
LEMMA MessageTyped ==
  ASSUME TypeOK, Placed, NEW a \in Actors, pc[a] \in Sending
  PROVE  Message(a) \in Sent /\ Message(a).by = a /\ Message(a).nth = sends[a] /\ Message(a).to = room[a]
<1>1. room[a] \in Lists /\ sends[a] \in Nat /\ sends[a] <= MaxSend[a] /\ sends[a] > 0 /\ MaxSend[a] \in Nat
  BY Parties DEF TypeOK, Placed
<1>2. Message(a) \in [by : {a}, nth : 1 .. MaxSend[a], to : Lists]
  BY <1>1 DEF Message
<1>3. Message(a) \in Sent
  BY <1>2 DEF Sent
<1> QED
  BY <1>3 DEF Message

\* Every step keeps the types of the tables,
LEMMA TableTypes ==
  ASSUME TypeOK, Placed, [Next]_vars
  PROVE  owner' \in [Groups -> Users \cup {None}] /\ members' \subseteq Groups \X Users
<1>0. owner \in [Groups -> Users \cup {None}] /\ members \subseteq Groups \X Users
  BY DEF TypeOK
<1>1. ASSUME NEW q \in Requests, pc[q] \in GroupLabels PROVE room[q] \in Groups /\ UserOf[q] \in Users
  BY <1>1, Parties DEF Placed
<1> USE DEF GroupLabels
<1>2. CASE UNCHANGED tables
  BY <1>0, <1>2 DEF tables
<1>3. ASSUME NEW q \in Requests, InsertRoom(q)
      PROVE  owner' \in [Groups -> Users \cup {None}] /\ members' \subseteq Groups \X Users
  BY <1>0, <1>1, <1>3 DEF InsertRoom
<1>4. ASSUME NEW q \in Requests, InsertMember(q)
      PROVE  owner' \in [Groups -> Users \cup {None}] /\ members' \subseteq Groups \X Users
  <2>1. room[q] \in Groups /\ UserOf[q] \in Users
    BY <1>1, <1>4 DEF InsertMember
  <2>2. owner' = owner /\ members' \subseteq members \cup {<<room[q], UserOf[q]>>}
    BY <1>4 DEF InsertMember
  <2>3. <<room[q], UserOf[q]>> \in Groups \X Users
    BY <2>1
  <2> QED
    BY <1>0, <2>2, <2>3
<1>5. ASSUME NEW q \in Requests, DeleteMember(q) \/ DeleteMembers(q) \/ DeleteRoom(q)
      PROVE  owner' \in [Groups -> Users \cup {None}] /\ members' \subseteq Groups \X Users
  BY <1>0, <1>1, <1>5 DEF DeleteMember, DeleteMembers, DeleteRoom
<1> QED
  BY <1>2, <1>3, <1>4, <1>5, TableMoves

\* of the lists,
LEMMA LogTypes ==
  ASSUME TypeOK, Placed, [Next]_vars
  PROVE  log' \in [Lists -> Seq(Sent)]
<1>0. log \in [Lists -> Seq(Sent)] /\ \A a \in Actors : room[a] \in Lists
  BY DEF TypeOK
<1>1. CASE UNCHANGED log
  BY <1>0, <1>1
<1>2. ASSUME NEW a \in Actors, Push(a) PROVE log' \in [Lists -> Seq(Sent)]
  <2>1. Message(a) \in Sent
    BY <1>2, MessageTyped DEF Push, Sending
  <2>2. log' = [log EXCEPT ![room[a]] = Append(@, Message(a))]
    BY <1>2 DEF Push
  <2> QED
    BY <1>0, <2>1, <2>2
<1>3. ASSUME NEW a \in Actors, Trim(a) PROVE log' \in [Lists -> Seq(Sent)]
  <2>1. Latest(log[room[a]], Keep) \in Seq(Sent)
    BY <1>0, Parties, LatestIs
  <2>2. log' = [log EXCEPT ![room[a]] = Latest(@, Keep)]
    BY <1>3 DEF Trim
  <2> QED
    BY <1>0, <2>1, <2>2
<1>4. ASSUME NEW q \in Requests, DeleteHistory(q) PROVE log' \in [Lists -> Seq(Sent)]
  <2>1. log' = [log EXCEPT ![room[q]] = <<>>]
    BY <1>4 DEF DeleteHistory
  <2>2. <<>> \in Seq(Sent)
    OBVIOUS
  <2> QED
    BY <1>0, <2>1, <2>2
<1> QED
  BY <1>1, <1>2, <1>3, <1>4, LogMoves

\* What is appended to a queue are tasks.
LEMMA SwitchTyped ==
  ASSUME tasks \in [Workers -> Seq(Tasks)], NEW w \in Workers, NEW fs \in Seq(Tasks), Switch(w, fs)
  PROVE  tasks' \in [Workers -> Seq(Tasks)]
BY DEF Switch

\* The broadcast of a message is a task,
LEMMA FrameTyped ==
  ASSUME NEW m \in Sent, m.to \in Rooms
  PROVE  Frame(m) \in Tasks
BY DEF Frame, Tasks

\* and so are the two tasks of a deletion.
LEMMA NoticeTyped ==
  ASSUME NEW g \in Groups
  PROVE  Notice(g) \in Tasks /\ Evict(g) \in Tasks
BY DEF Notice, Evict, Tasks

\* Every step keeps the types of the queues,
LEMMA QueueTypes ==
  ASSUME TypeOK, Placed, [Next]_vars
  PROVE  tasks' \in [Workers -> Seq(Tasks)]
<1>0. tasks \in [Workers -> Seq(Tasks)]
  BY DEF TypeOK
<1>1. CASE UNCHANGED tasks
  BY <1>0, <1>1
<1>2. ASSUME NEW c \in Conns, Cast(c) PROVE tasks' \in [Workers -> Seq(Tasks)]
  <2>1. Message(c) \in Sent /\ Message(c).to \in Rooms
    BY <1>2, Parties, MessageTyped DEF Cast, Sending, Placed
  <2>2. Frame(Message(c)) \in Tasks
    BY <2>1, FrameTyped
  <2>3. <<Frame(Message(c))>> \in Seq(Tasks) /\ Switch(HomeOf[c], <<Frame(Message(c))>>)
    BY <1>2, <2>2 DEF Cast
  <2> QED
    BY <1>0, <2>3, Parties, SwitchTyped
<1>3. ASSUME NEW w \in Workers, RunBroadcast(w) \/ RunEvict(w) PROVE tasks' \in [Workers -> Seq(Tasks)]
  <2>1. tasks' = [tasks EXCEPT ![w] = Tail(@)] /\ tasks[w] # <<>>
    BY <1>3 DEF RunBroadcast, RunEvict
  <2> QED
    BY <1>0, <2>1, HeadRoom
<1>4. ASSUME NEW q \in Requests, Announce(q) PROVE tasks' \in [Workers -> Seq(Tasks)]
  <2>1. room[q] \in Groups
    BY <1>4 DEF Announce, Placed, GroupLabels
  <2>2. <<Notice(room[q]), Evict(room[q])>> \in Seq(Tasks)
    BY <2>1, NoticeTyped
  <2> QED
    BY <1>0, <1>4, <2>2, Parties, SwitchTyped DEF Announce
<1> QED
  BY <1>1, <1>2, <1>3, <1>4, QueueMoves

\* The part of TypeOK that is about what the browsers have been sent.
SeenTyped ==
  /\ live \in [Conns -> Seq(Sent)] /\ got \in [Conns -> SUBSET Sent]
  /\ cut \subseteq Conns

\* A broadcast on one Worker keeps it.
LEMMA DeliverTyped ==
  ASSUME SeenTyped, NEW w, NEW f \in Tasks, NEW gone, Deliver(w, f, gone)
  PROVE  SeenTyped'
<1>1. CASE f.type = "message"
  <2>1. f.message \in Sent
    BY <1>1 DEF Tasks
  <2>2. live' \in [Conns -> Seq(Sent)]
    <3>1. \A c \in Conns : live[c] \in Seq(Sent) /\ Append(live[c], f.message) \in Seq(Sent)
      BY <2>1 DEF SeenTyped
    <3>2. live' = [c \in Conns |-> IF c \in roster[w][f.room] \ gone
                     THEN Append(live[c], f.message) ELSE live[c]]
      BY <1>1 DEF Deliver
    <3> QED
      BY <3>1, <3>2
  <2>3. got' \in [Conns -> SUBSET Sent]
    BY SMTT(20), <1>1, <2>1 DEF Deliver, SeenTyped
  <2> QED
    BY <2>2, <2>3 DEF Deliver, SeenTyped
<1>2. CASE f.type # "message"
  BY <1>2 DEF Deliver, SeenTyped
<1> QED
  BY <1>1, <1>2

\* So does every step.
LEMMA SeenTypes ==
  ASSUME TypeOK, Placed, [Next]_vars
  PROVE  SeenTyped'
<1>0. SeenTyped
  BY DEF TypeOK, SeenTyped
<1>1. CASE UNCHANGED seen
  BY <1>0, <1>1 DEF seen, SeenTyped
<1>2. ASSUME NEW c \in Conns, Cast(c) PROVE SeenTyped'
  <2>1. Message(c) \in Sent /\ Message(c).to \in Rooms
    BY <1>2, Parties, MessageTyped DEF Cast, Sending, Placed
  <2>2. Frame(Message(c)) \in Tasks
    BY <2>1, FrameTyped
  <2> QED
    BY <1>0, <1>2, <2>2, DeliverTyped DEF Cast
<1>3. ASSUME NEW w \in Workers, RunBroadcast(w) PROVE SeenTyped'
  BY <1>0, <1>3, HeadRoom, DeliverTyped DEF RunBroadcast
<1>4. ASSUME NEW c \in Conns, NEW r \in Rooms, NEW n \in 0 .. Recent, History(c, r, n) PROVE SeenTyped'
  <2>1. log[r] \in Seq(Sent)
    BY Parties DEF TypeOK, Lists
  <2>2. PICK reply \in Seq(Sent) : reply = Latest(log[r], Recent)
    BY <2>1, Parties, LatestIs
  <2>3. n \in 0 .. Len(reply)
    BY <1>4, <2>2 DEF History
  <2>4. SubSeq(reply, 1, n) \in Seq(Sent)
    BY <2>3
  <2>5. ToSet(SubSeq(reply, 1, n)) \subseteq Sent
    BY <2>4 DEF ToSet
  <2>6. got' = [got EXCEPT ![c] = @ \cup ToSet(SubSeq(reply, 1, n))]
    BY <1>4, <2>2 DEF History
  <2>7. got' \in [Conns -> SUBSET Sent]
    BY <1>0, <2>5, <2>6 DEF SeenTyped
  <2> QED
    BY <1>0, <1>4, <2>7 DEF History, SeenTyped
<1> QED
  BY <1>1, <1>2, <1>3, <1>4, SeenMoves

\* How a step changes who is owed a notice.
LEMMA OwedMoves ==
  ASSUME [Next]_vars
  PROVE  \/ UNCHANGED owed /\ UNCHANGED registry
         \/ UNCHANGED owed /\ \E c \in Conns : Handshake(c)
         \/ UNCHANGED owed /\ \E c \in Conns, r \in Rooms : JoinRoom(c, r)
         \/ UNCHANGED owed /\ \E w \in Workers : RunEvict(w)
         \/ \E told : Settle(told)
         \/ \E q \in Requests : Announce(q)
<1>1. ASSUME NEW c \in Conns, Handshake(c) PROVE UNCHANGED owed
  BY <1>1 DEF Handshake
<1>2. ASSUME NEW c \in Conns, NEW r \in Rooms, JoinFrame(c, r) PROVE UNCHANGED owed /\ JoinRoom(c, r)
  BY <1>2 DEF JoinFrame
<1>3. ASSUME NEW w \in Workers, RunEvict(w) PROVE UNCHANGED owed
  BY <1>3 DEF RunEvict
<1>4. ASSUME NEW w \in Workers, RunBroadcast(w) PROVE \E told : Settle(told)
  BY <1>4 DEF RunBroadcast
<1>5. ASSUME NEW c \in Conns, NoMembership(c) \/ Close(c) \/ Drop(c) \/ Cast(c)
      PROVE  \E told : Settle(told)
  BY <1>5 DEF NoMembership, Close, Drop, Cast
<1>6. ASSUME NEW c \in Conns, NEW r \in Rooms, LeaveFrame(c, r) PROVE \E told : Settle(told)
  BY <1>6 DEF LeaveFrame
<1>7. ASSUME NEW c \in Conns, NEW r \in Rooms,
             HandshakeFails(c) \/ Upgrade(c, r) \/ SendFrame(c, r) \/ HistoryStep(c, r)
      PROVE  UNCHANGED owed /\ UNCHANGED registry
  BY <1>7 DEF HandshakeFails, Upgrade, SendFrame, HistoryStep, History
<1>8. ASSUME NEW c \in Conns, HandshakeFails(c) \/ Admission(c) \/ Membership(c)
      PROVE  UNCHANGED owed /\ UNCHANGED registry
  BY <1>8 DEF HandshakeFails, Admission, Membership
<1>9. ASSUME NEW a \in Actors, Push(a) \/ Trim(a) PROVE UNCHANGED owed /\ UNCHANGED registry
  BY <1>9 DEF Push, Trim
<1>10. ASSUME NEW q \in Requests, NEW g \in Groups, NEW label \in Routes, Request(q, g, label)
       PROVE  UNCHANGED owed /\ UNCHANGED registry
  BY <1>10 DEF Request
<1>11. ASSUME NEW q \in Requests, RestSend(q) \/ (RequestStep(q) /\ ~ Announce(q))
       PROVE  UNCHANGED owed /\ UNCHANGED registry
  BY <1>11 DEF RestSend, RequestStep, InsertRoom, FindRoom, InsertMember, DeleteMember,
     FindOwner,
    DeleteMembers, DeleteRoom, DeleteHistory
<1>12. CASE UNCHANGED vars
  BY <1>12 DEF vars
<1> QED
  BY <1>1, <1>2, <1>3, <1>4, <1>5, <1>6, <1>7, <1>8, <1>9, <1>10, <1>11, <1>12
  DEF Next, Environment, ActorStep, ConnStep, WorkerStep

\* Only clients of groups are owed one.
LEMMA OwedTypes ==
  ASSUME TypeOK, Placed, [Next]_vars
  PROVE  owed' \subseteq Conns \X Groups
<1>0. owed \subseteq Conns \X Groups
  BY DEF TypeOK
<1>1. ASSUME NEW told PROVE StillOwed(told) \subseteq owed
  BY DEF StillOwed
<1>2. ASSUME NEW q \in Requests, Announce(q) PROVE owed' \subseteq Conns \X Groups
  <2>1. room[q] \in Groups
    BY <1>2 DEF Announce, Placed, GroupLabels
  <2>2. \A v \in Workers : roster[v][room[q]] \subseteq Conns
    BY <2>1, Parties DEF TypeOK
  <2>3. Audience(HomeOf[q], room[q]) \subseteq Conns \X Groups
    BY <2>1, <2>2 DEF Audience, InRoomAt
  <2> QED
    BY <1>0, <1>1, <1>2, <2>3 DEF Announce
<1> QED
  BY <1>0, <1>1, <1>2, OwedMoves DEF Settle

\* Every step keeps TypeOK.
LEMMA TypesStep ==
  ASSUME TypeOK, Placed, Registered, RegistryAgrees, [Next]_vars
  PROVE  TypeOK'
<1>1. online' \in Nat
  BY RegisteredStep, RegistryStep, FS_CardinalityType DEF Registered, RegistryAgrees
<1>2. /\ clients' \subseteq Conns
      /\ joined' \in [Conns -> SUBSET Rooms]
      /\ roster' \in [Workers -> [Rooms -> SUBSET Conns]]
  BY RegistryTypes DEF RegistryTyped
<1>3. /\ pc' \in [Actors -> Labels] /\ room' \in [Actors -> Lists]
      /\ sends' \in [Actors -> Nat] /\ \A a \in Actors : sends'[a] <= MaxSend[a]
      /\ loads' \in [Conns -> [Rooms -> Nat]]
      /\ moves' \in [Conns -> Nat] /\ \A c \in Conns : moves'[c] <= MaxMove[c]
  BY CoroutineTypes DEF CoroutineTyped
<1>4. /\ live' \in [Conns -> Seq(Sent)] /\ got' \in [Conns -> SUBSET Sent]
      /\ cut' \subseteq Conns
  BY SeenTypes DEF SeenTyped
<1>5. owner' \in [Groups -> Users \cup {None}] /\ members' \subseteq Groups \X Users
  BY TableTypes
<1>6. log' \in [Lists -> Seq(Sent)] /\ tasks' \in [Workers -> Seq(Tasks)]
  BY LogTypes, QueueTypes
<1>7. owed' \subseteq Conns \X Groups
  BY OwedTypes
<1> QED
  BY <1>1, <1>2, <1>3, <1>4, <1>5, <1>6, <1>7 DEF TypeOK

-----------------------------------------------------------------------------
(* Who is owed a notice. *)

\* The eviction from a room is not the next task of a Worker whose clients are owed
\* its notice.
LEMMA NoEvictFirst ==
  ASSUME TypeOK, NoticeComes, NEW d \in owed, tasks[HomeOf[d[1]]] # <<>>
  PROVE  Head(tasks[HomeOf[d[1]]]) # Evict(d[2])
<1> DEFINE w == HomeOf[d[1]]
<1>1. w \in Workers /\ tasks[w] \in Seq(Tasks)
  BY Parties DEF TypeOK
<1>2. PICK i \in DOMAIN tasks[w] : NoticeAt(w, d[2], i)
  BY DEF NoticeComes
<1>3. 1 \in DOMAIN tasks[w] /\ Head(tasks[w]) = tasks[w][1] /\ i \in Nat /\ i >= 1
  BY <1>1
<1>4. Notice(d[2]) # Evict(d[2])
  BY DEF Notice, Evict
<1> QED
  BY <1>2, <1>3, <1>4 DEF NoticeAt

\* Whoever is owed a notice stays in the room until told.
LEMMA ToldStep ==
  ASSUME TypeOK, Placed, Registered, RegistryAgrees, NoticeComes, ToldBeforeEvicted, [Next]_vars
  PROVE  ToldBeforeEvicted'
<1>0. RegistryTyped /\ owed \subseteq Conns \X Groups /\ \A d \in owed : d[1] \in Conns /\ d[2] \in Rooms /\ HomeOf[d[1]] \in Workers
  BY Parties DEF TypeOK, RegistryTyped
<1>1. \A d \in owed : d[1] \in roster[HomeOf[d[1]]][d[2]]
  BY DEF ToldBeforeEvicted, InRoom
<1> SUFFICES ASSUME NEW d \in owed'
             PROVE  d[1] \in roster'[HomeOf[d[1]]][d[2]]
  BY DEF ToldBeforeEvicted, InRoom
<1>2. ASSUME NEW told, d \in StillOwed(told) PROVE d[1] \in roster'[HomeOf[d[1]]][d[2]]
  BY <1>2 DEF StillOwed
<1>3. CASE UNCHANGED owed /\ UNCHANGED registry
  BY <1>1, <1>3 DEF registry
<1>4. ASSUME NEW c \in Conns, Handshake(c), UNCHANGED owed PROVE d[1] \in roster'[HomeOf[d[1]]][d[2]]
  BY <1>0, <1>1, <1>4, HandshakeDoes
<1>5. ASSUME NEW c \in Conns, NEW r \in Rooms, JoinRoom(c, r), UNCHANGED owed
      PROVE  d[1] \in roster'[HomeOf[d[1]]][d[2]]
  BY <1>0, <1>1, <1>5, JoinRoomDoes
<1>6. ASSUME NEW w \in Workers, RunEvict(w), UNCHANGED owed PROVE d[1] \in roster'[HomeOf[d[1]]][d[2]]
  <2>1. PICK g \in Rooms : g = Head(tasks[w]).room
    BY <1>6, HeadRoom DEF RunEvict
  <2>2. Head(tasks[w]) = Evict(g)
    BY <1>6, <2>1, HeadRoom DEF RunEvict, Evict, Tasks
  <2>3. ~ (HomeOf[d[1]] = w /\ d[2] = g)
    BY <1>6, <2>2, NoEvictFirst DEF RunEvict
  <2> QED
    BY <1>0, <1>1, <1>6, <2>1, <2>3, RunEvictDoes
<1>7. ASSUME NEW q \in Requests, Announce(q), d \in Audience(HomeOf[q], room[q])
      PROVE  d[1] \in roster'[HomeOf[d[1]]][d[2]]
  <2>0. room[q] \in Rooms /\ HomeOf[q] \in Workers
    BY <1>7, Parties DEF Announce, Placed, GroupLabels
  <2>1. PICK v \in Workers \ {HomeOf[q]}, c \in Conns : c \in roster[v][room[q]] /\ d = <<c, room[q]>>
    BY <1>0, <1>7, <2>0 DEF Audience, InRoomAt, RegistryTyped
  <2>2. Rostered
    BY <1>0, RosterPointwise
  <2>3. c \in Conns /\ HomeOf[c] = v
    BY <1>0, <2>0, <2>1, <2>2 DEF RegistryTyped, Rostered
  <2>4. PICK gone \in SUBSET (roster[HomeOf[q]][room[q]] \cap Frail) :
           \A s \in Rooms, e \in Conns, w \in Workers :
             e \in roster'[w][s] <=> /\ e \in roster[w][s]
                                     /\ ~ (e \in gone /\ s \in joined[e])
                                     /\ ~ (w = HomeOf[q] /\ s = room[q])
    <3>1. \E gone \in SUBSET (roster[HomeOf[q]][room[q]] \cap Frail) :
            /\ clients' = clients \ gone
            /\ online' = online - Cardinality(clients \cap gone)
            /\ \A e \in Conns, s \in Rooms :
                 s \in joined'[e] <=> /\ s \in joined[e] /\ e \notin gone
                                      /\ ~ (s = room[q] /\ e \in roster[HomeOf[q]][room[q]])
            /\ \A w \in Workers, s \in Rooms, e \in Conns :
                 e \in roster'[w][s] <=> /\ e \in roster[w][s]
                                         /\ ~ (e \in gone /\ s \in joined[e])
                                         /\ ~ (w = HomeOf[q] /\ s = room[q])
      BY <1>0, <1>7, AnnounceDoes
    <3> QED
      BY <3>1
  <2>5. c \notin gone
    BY <2>0, <2>1, <2>2, <2>3 DEF Rostered
  <2> QED
    BY <2>0, <2>1, <2>3, <2>4, <2>5
<1>8. ASSUME NEW q \in Requests, Announce(q) PROVE d[1] \in roster'[HomeOf[d[1]]][d[2]]
  BY <1>2, <1>7, <1>8 DEF Announce
<1> QED
  BY <1>2, <1>3, <1>4, <1>5, <1>6, <1>8, OwedMoves DEF Settle

\* The notice stays on its way, ahead of any eviction.
LEMMA NoticeStep ==
  ASSUME TypeOK, Placed, RegistryAgrees, NoticeComes, ToldBeforeEvicted, [Next]_vars
  PROVE  NoticeComes'
<1>0. /\ tasks \in [Workers -> Seq(Tasks)]
      /\ \A d \in owed : d[1] \in Conns /\ d[2] \in Groups /\ HomeOf[d[1]] \in Workers
  BY Parties DEF TypeOK
<1>1. ASSUME NEW d \in owed, NEW t \in Seq(Tasks), tasks'[HomeOf[d[1]]] = tasks[HomeOf[d[1]]] \o t
      PROVE  \E i \in DOMAIN tasks'[HomeOf[d[1]]] : NoticeAt(HomeOf[d[1]], d[2], i)'
  <2>1. PICK w \in Workers : w = HomeOf[d[1]]
    BY <1>0
  <2>2. PICK i \in DOMAIN tasks[w] : NoticeAt(w, d[2], i)
    BY <2>1 DEF NoticeComes
  <2>3. tasks[w] \in Seq(Tasks)
    BY <1>0
  <2>0. tasks'[w] = tasks[w] \o t
    BY <1>1, <2>1
  <2>4. /\ \A j \in DOMAIN tasks[w] : j \in DOMAIN tasks'[w] /\ tasks'[w][j] = tasks[w][j]
        /\ \A j \in DOMAIN tasks'[w] : j < i => j \in DOMAIN tasks[w]
    BY <2>0, <2>3, Before
  <2> QED
    BY <2>1, <2>2, <2>4 DEF NoticeAt
<1>2. ASSUME NEW d \in owed, NEW w \in Workers, tasks[w] # <<>>, tasks' = [tasks EXCEPT ![w] = Tail(@)],
             w = HomeOf[d[1]] => Head(tasks[w]) # Notice(d[2])
      PROVE  \E i \in DOMAIN tasks'[HomeOf[d[1]]] : NoticeAt(HomeOf[d[1]], d[2], i)'
  <2>1. CASE w # HomeOf[d[1]]
    <3>1. tasks'[HomeOf[d[1]]] = tasks[HomeOf[d[1]]]
      BY <1>0, <1>2, <2>1
    <3> QED
      BY <3>1 DEF NoticeComes, NoticeAt
  <2>2. CASE w = HomeOf[d[1]]
    <3>1. PICK i \in DOMAIN tasks[w] : NoticeAt(w, d[2], i)
      BY <2>2 DEF NoticeComes
    <3>2. tasks[w] \in Seq(Tasks) /\ tasks'[w] = Tail(tasks[w])
      BY <1>0, <1>2
    <3>0. tasks[w] # <<>>
      BY <1>2
    <3>3. i # 1 /\ i \in Nat
      BY <1>2, <2>2, <3>1, <3>2 DEF NoticeAt
    <3>4. i - 1 \in DOMAIN tasks'[w] /\ tasks'[w][i - 1] = tasks[w][i]
      BY <3>0, <3>1, <3>2, <3>3, Shifted
    <3>5. \A j \in DOMAIN tasks'[w] : j + 1 \in DOMAIN tasks[w] /\ tasks'[w][j] = tasks[w][j + 1]
      BY <3>0, <3>2, Shifted
    <3>6. \A j \in DOMAIN tasks'[w] : j < i - 1 => tasks'[w][j] # Evict(d[2])
      BY <3>1, <3>2, <3>3, <3>5 DEF NoticeAt
    <3> QED
      BY <2>2, <3>1, <3>4, <3>6 DEF NoticeAt
  <2> QED
    BY <2>1, <2>2
<1>3. ASSUME owed' \subseteq owed, UNCHANGED tasks PROVE NoticeComes'
  BY <1>3 DEF NoticeComes, NoticeAt
<1>4. ASSUME NEW w \in Workers, NEW fs \in Seq(Tasks), Switch(w, fs), NEW d \in owed
      PROVE  \E i \in DOMAIN tasks'[HomeOf[d[1]]] : NoticeAt(HomeOf[d[1]], d[2], i)'
  <2>1. tasks[HomeOf[d[1]]] \in Seq(Tasks)
    BY <1>0
  <2>2. tasks[HomeOf[d[1]]] = tasks[HomeOf[d[1]]] \o <<>> /\ <<>> \in Seq(Tasks)
    BY <2>1
  <2>3. \/ tasks'[HomeOf[d[1]]] = tasks[HomeOf[d[1]]]
        \/ tasks'[HomeOf[d[1]]] = tasks[HomeOf[d[1]]] \o fs
    BY <1>0, <1>4 DEF Switch
  <2> QED
    BY <1>1, <2>2, <2>3
<1>5. ASSUME NEW c \in Conns, Cast(c) PROVE NoticeComes'
  <2>1. Message(c) \in Sent /\ Message(c).to \in Rooms
    BY <1>5, Parties, MessageTyped DEF Cast, Sending, Placed
  <2>2. <<Frame(Message(c))>> \in Seq(Tasks)
    BY <2>1, FrameTyped
  <2>3. owed' \subseteq owed /\ Switch(HomeOf[c], <<Frame(Message(c))>>)
    BY <1>5 DEF Cast, Settle, StillOwed
  <2> QED
    BY <1>4, <2>2, <2>3, Parties DEF NoticeComes
<1>6. ASSUME NEW w \in Workers, RunBroadcast(w) PROVE NoticeComes'
  <2>1. tasks[w] # <<>> /\ tasks' = [tasks EXCEPT ![w] = Tail(@)]
    BY <1>6 DEF RunBroadcast
  <2>2. owed' \subseteq owed
    BY <1>6 DEF RunBroadcast, Settle, StillOwed
  <2>3. ASSUME NEW d \in owed', w = HomeOf[d[1]], Head(tasks[w]) = Notice(d[2]) PROVE FALSE
    <3>1. d \notin InRoomAt(w, d[2])
      <4>1. Head(tasks[w]).type = "room_deleted" /\ Head(tasks[w]).room = d[2]
        BY <2>3 DEF Notice
      <4>2. Settle(InRoomAt(w, d[2]))
        BY <1>6, <4>1 DEF RunBroadcast
      <4> QED
        BY <2>3, <4>2 DEF Settle, StillOwed
    <3>2. d[1] \in roster[w][d[2]] /\ d \in Conns \X Groups
      BY <2>2, <2>3 DEF ToldBeforeEvicted, InRoom, TypeOK
    <3> QED
      BY <3>1, <3>2 DEF InRoomAt
  <2> QED
    BY <1>2, <2>1, <2>2, <2>3 DEF NoticeComes
<1>7. ASSUME NEW w \in Workers, RunEvict(w) PROVE NoticeComes'
  <2>1. tasks[w] # <<>> /\ tasks' = [tasks EXCEPT ![w] = Tail(@)] /\ owed' = owed
    BY <1>7 DEF RunEvict
  <2>2. \A g : Head(tasks[w]) # Notice(g)
    BY <1>7 DEF RunEvict, Notice
  <2> QED
    BY <1>2, <2>1, <2>2 DEF NoticeComes
<1>8. ASSUME NEW q \in Requests, Announce(q) PROVE NoticeComes'
  <2>1. PICK w \in Workers, g \in Groups : w = HomeOf[q] /\ g = room[q]
    BY <1>8, Parties DEF Announce, Placed, GroupLabels
  <2>2. Switch(w, <<Notice(g), Evict(g)>>) /\ <<Notice(g), Evict(g)>> \in Seq(Tasks)
    BY <1>8, <2>1, NoticeTyped DEF Announce
  <2>3. ASSUME NEW d \in owed PROVE \E i \in DOMAIN tasks'[HomeOf[d[1]]] : NoticeAt(HomeOf[d[1]], d[2], i)'
    BY <1>4, <2>2
  <2>4. ASSUME NEW d \in Audience(w, g)
        PROVE  \E i \in DOMAIN tasks'[HomeOf[d[1]]] : NoticeAt(HomeOf[d[1]], d[2], i)'
    <3>1. PICK v \in Workers \ {w}, c \in Conns : c \in roster[v][g] /\ d = <<c, g>>
      BY Parties DEF Audience, InRoomAt, TypeOK
    <3>2. Evict(g) \notin ToSet(tasks[HomeOf[c]]) /\ d[1] = c /\ d[2] = g
      BY <3>1 DEF Audience
    <3>3. v = HomeOf[c]
      <4>1. RegistryTyped /\ g \in Rooms
        BY Parties DEF TypeOK, RegistryTyped
      <4> QED
        BY <3>1, <4>1, RosterPointwise DEF Rostered, RegistryTyped
    <3>4. tasks[v] \in Seq(Tasks) /\ tasks'[v] = tasks[v] \o <<Notice(g), Evict(g)>>
      BY <1>0, <2>2, <3>1 DEF Switch
    <3> DEFINE i == Len(tasks[v]) + 1
    <3>5. i \in DOMAIN tasks'[v] /\ tasks'[v][i] = Notice(g)
      BY <2>2, <3>4, After
    <3>6. \A j \in DOMAIN tasks'[v] : j < i => tasks'[v][j] # Evict(g)
      BY <2>2, <3>2, <3>3, <3>4, Before DEF ToSet
    <3> QED
      BY <3>2, <3>3, <3>5, <3>6 DEF NoticeAt
  <2> QED
    BY <1>8, <2>1, <2>3, <2>4 DEF NoticeComes, Announce, StillOwed
<1>9. CASE \E q \in Requests : Announce(q)
  BY <1>8, <1>9
<1>10. CASE ~ \E q \in Requests : Announce(q)
  <2>1. owed' \subseteq owed
    BY <1>10, OwedMoves DEF Settle, StillOwed
  <2> QED
    BY <1>3, <1>5, <1>6, <1>7, <1>10, <2>1, QueueMoves
<1> QED
  BY <1>9, <1>10

-----------------------------------------------------------------------------
(* The bound of the lists. *)

\* Only a push and its LTRIM change who waits for an LTRIM.
SameTrimming == \A b \in Actors : /\ pc'[b] = "trim" <=> pc[b] = "trim"
                                  /\ pc[b] = "trim" => room'[b] = room[b]

\* Only RPUSH and LTRIM change whose LTRIM is due.
LEMMA TrimmingMoves ==
  ASSUME TypeOK, [Next]_vars
  PROVE  SameTrimming \/ \E a \in Actors : Push(a) \/ Trim(a)
<1>0. pc \in [Actors -> Labels] /\ room \in [Actors -> Lists]
  BY DEF TypeOK
<1> USE Parties DEF SameTrimming
<1>1. ASSUME NEW c \in Conns, NEW r \in Rooms, Upgrade(c, r) PROVE SameTrimming
  BY <1>0, <1>1 DEF Upgrade, Begin, Become
<1>2. ASSUME NEW c \in Conns, Admission(c) PROVE SameTrimming
  BY <1>0, <1>2 DEF Admission, Finish, Begin, Become
<1>3. ASSUME NEW c \in Conns, Handshake(c) PROVE SameTrimming
  BY <1>0, <1>3 DEF Handshake, Become
<1>4. ASSUME NEW c \in Conns, HandshakeFails(c) PROVE SameTrimming
  BY <1>0, <1>4 DEF HandshakeFails, Finish, Begin, Become
<1>5. ASSUME NEW c \in Conns, NEW r \in Rooms, NEW n \in 0 .. Recent, History(c, r, n) PROVE SameTrimming
  BY <1>0, <1>5 DEF History
<1>6. ASSUME NEW c \in Conns, NEW r \in Rooms, JoinFrame(c, r) PROVE SameTrimming
  BY <1>0, <1>6 DEF JoinFrame
<1>7. ASSUME NEW c \in Conns, NEW r \in Rooms, LeaveFrame(c, r) PROVE SameTrimming
  BY <1>0, <1>7 DEF LeaveFrame
<1>8. ASSUME NEW c \in Conns, NEW r \in Rooms, SendFrame(c, r) PROVE SameTrimming
  BY <1>0, <1>8 DEF SendFrame, Begin, Become
<1>9. ASSUME NEW c \in Conns, Membership(c) PROVE SameTrimming
  BY <1>0, <1>9 DEF Membership, Become
<1>10. ASSUME NEW c \in Conns, NoMembership(c) PROVE SameTrimming
  BY <1>0, <1>10 DEF NoMembership, Begin, Become
<1>11. ASSUME NEW c \in Conns, Close(c) PROVE SameTrimming
  BY <1>0, <1>11 DEF Close, Finish, Begin, Become
<1>12. ASSUME NEW c \in Conns, Drop(c) PROVE SameTrimming
  BY <1>0, <1>12 DEF Drop, coroutine
<1>13. ASSUME NEW c \in Conns, Cast(c) PROVE SameTrimming
  BY <1>0, <1>13 DEF Cast, Begin, Become
<1>14. ASSUME NEW w \in Workers, RunBroadcast(w) PROVE SameTrimming
  BY <1>0, <1>14 DEF RunBroadcast, coroutine
<1>15. ASSUME NEW w \in Workers, RunEvict(w) PROVE SameTrimming
  BY <1>0, <1>15 DEF RunEvict, coroutine
<1>16. ASSUME NEW q \in Requests, NEW g \in Groups, NEW label \in Routes, Request(q, g, label) PROVE SameTrimming
  BY <1>0, <1>16 DEF Request, Routes, Begin, Become
<1>17. ASSUME NEW q \in Requests, RestSend(q) PROVE SameTrimming
  BY <1>0, <1>17 DEF RestSend, Begin, Become
<1>18. ASSUME NEW q \in Requests, InsertRoom(q) PROVE SameTrimming
  BY <1>0, <1>18 DEF InsertRoom, Finish, Begin, Become
<1>19. ASSUME NEW q \in Requests, FindRoom(q) PROVE SameTrimming
  BY <1>0, <1>19 DEF FindRoom, Finish, Begin, Become
<1>20. ASSUME NEW q \in Requests, InsertMember(q) PROVE SameTrimming
  BY <1>0, <1>20 DEF InsertMember, Finish, Begin, Become
<1>21. ASSUME NEW q \in Requests, DeleteMember(q) PROVE SameTrimming
  BY <1>0, <1>21 DEF DeleteMember, Finish, Begin, Become
<1>22. ASSUME NEW q \in Requests, FindOwner(q) PROVE SameTrimming
  BY <1>0, <1>22 DEF FindOwner, Finish, Begin, Become
<1>23. ASSUME NEW q \in Requests, DeleteMembers(q) PROVE SameTrimming
  BY <1>0, <1>23 DEF DeleteMembers, Finish, Begin, Become
<1>24. ASSUME NEW q \in Requests, DeleteRoom(q) PROVE SameTrimming
  BY <1>0, <1>24 DEF DeleteRoom, Finish, Begin, Become
<1>25. ASSUME NEW q \in Requests, DeleteHistory(q) PROVE SameTrimming
  BY <1>0, <1>25 DEF DeleteHistory, Finish, Begin, Become
<1>26. ASSUME NEW q \in Requests, Announce(q) PROVE SameTrimming
  BY <1>0, <1>26 DEF Announce, Finish, Begin, Become
<1>27. CASE UNCHANGED vars
  BY <1>27 DEF vars, coroutine
<1> QED
  BY <1>1, <1>2, <1>3, <1>4, <1>5, <1>6, <1>7, <1>8, <1>9, <1>10, <1>11, <1>12, <1>13,
     <1>14, <1>15, <1>16, <1>17, <1>18, <1>19, <1>20, <1>21, <1>22, <1>23, <1>24, <1>25,
     <1>26, <1>27
  DEF Next, Environment, ActorStep, ConnStep, RequestStep, HistoryStep, WorkerStep

\* RPUSH adds its actor to those whose LTRIM is due,
LEMMA PushTrims ==
  ASSUME TypeOK, NEW a \in Actors, Push(a), NEW l \in Lists
  PROVE  /\ a \notin Trimming(l)
         /\ Trimming(l)' = IF l = room[a] THEN Trimming(l) \cup {a} ELSE Trimming(l)
<1>1. pc \in [Actors -> Labels]
  BY DEF TypeOK
<1>2. pc[a] = "push" /\ pc' = [pc EXCEPT ![a] = "trim"] /\ room' = room
  BY DEF Push, Become
<1> QED
  BY <1>1, <1>2 DEF Trimming

\* and LTRIM takes it out.
LEMMA TrimTrims ==
  ASSUME TypeOK, NEW a \in Actors, Trim(a), NEW l \in Lists
  PROVE  /\ a \in Trimming(room[a])
         /\ Trimming(l)' = Trimming(l) \ {a}
<1>1. pc \in [Actors -> Labels] /\ room \in [Actors -> Lists]
  BY DEF TypeOK
<1>2. pc[a] = "trim" /\ \E label \in Labels \ {"trim"}, r \in Lists :
        pc' = [pc EXCEPT ![a] = label] /\ room' = [room EXCEPT ![a] = r]
  <2>1. pc[a] = "trim"
    BY DEF Trim
  <2>2. CASE a \in Conns
    <3>1. pc' = [pc EXCEPT ![a] = "cast"] /\ room' = [room EXCEPT ![a] = room[a]] /\ room[a] \in Lists
      BY <1>1, <2>2 DEF Trim, Become
    <3> QED
      BY <2>1, <3>1 DEF Labels
  <2>3. CASE a \notin Conns
    <3>1. pc' = [pc EXCEPT ![a] = "done"] /\ room' = [room EXCEPT ![a] = General] /\ General \in Lists
      BY <2>3, Parties DEF Trim, Finish, Begin, Become
    <3> QED
      BY <2>1, <3>1 DEF Labels
  <2> QED
    BY <2>2, <2>3
<1> QED
  BY <1>1, <1>2 DEF Trimming

\* Finitely many messages wait for their LTRIM.
LEMMA PushedStep ==
  ASSUME TypeOK, Pushed, [Next]_vars
  PROVE  Pushed'
<1> SUFFICES ASSUME NEW l \in Lists PROVE IsFiniteSet(Trimming(l)')
  BY DEF Pushed
<1>0. IsFiniteSet(Trimming(l))
  BY DEF Pushed
<1>1. CASE SameTrimming
  <2>1. Trimming(l)' \subseteq Trimming(l)
    BY <1>1 DEF SameTrimming, Trimming
  <2> QED
    BY <1>0, <2>1, FS_Subset
<1>2. ASSUME NEW a \in Actors, Push(a) PROVE IsFiniteSet(Trimming(l)')
  BY <1>0, <1>2, PushTrims, FS_AddElement
<1>3. ASSUME NEW a \in Actors, Trim(a) PROVE IsFiniteSet(Trimming(l)')
  BY <1>0, <1>3, TrimTrims, FS_Subset
<1> QED
  BY <1>1, <1>2, <1>3, TrimmingMoves

\* Every step keeps the lists within their bound.
LEMMA BoundedStep ==
  ASSUME TypeOK, Placed, Pushed, ListBounded, [Next]_vars
  PROVE  ListBounded'
<1> SUFFICES ASSUME NEW l \in Lists PROVE Len(log'[l]) <= Keep + Cardinality(Trimming(l)')
  BY DEF ListBounded, Trimming
<1>0. /\ Len(log[l]) <= Keep + Cardinality(Trimming(l))
      /\ log \in [Lists -> Seq(Sent)] /\ log[l] \in Seq(Sent)
      /\ IsFiniteSet(Trimming(l)) /\ Cardinality(Trimming(l)) \in Nat
  BY FS_CardinalityType DEF ListBounded, Trimming, TypeOK, Pushed
<1>1. IsFiniteSet(Trimming(l)') /\ Cardinality(Trimming(l)') \in Nat
  BY PushedStep, FS_CardinalityType DEF Pushed
<1>2. ASSUME NEW a \in Actors, Push(a) PROVE Len(log'[l]) <= Keep + Cardinality(Trimming(l)')
  <2>1. log' = [log EXCEPT ![room[a]] = Append(@, Message(a))] /\ Message(a) \in Sent
    BY <1>2, MessageTyped DEF Push, Sending
  <2>2. CASE l # room[a]
    BY <1>0, <1>2, <2>1, <2>2, PushTrims
  <2>3. CASE l = room[a]
    <3>1. Len(log'[l]) = Len(log[l]) + 1
      BY <1>0, <2>1, <2>3
    <3>2. Cardinality(Trimming(l)') = Cardinality(Trimming(l)) + 1
      BY <1>0, <1>2, <2>3, PushTrims, FS_AddElement
    <3> QED
      BY <1>0, <3>1, <3>2, Parties
  <2> QED
    BY <2>2, <2>3
<1>3. ASSUME NEW a \in Actors, Trim(a) PROVE Len(log'[l]) <= Keep + Cardinality(Trimming(l)')
  <2>1. log' = [log EXCEPT ![room[a]] = Latest(@, Keep)]
    BY <1>3 DEF Trim
  <2>2. CASE l # room[a]
    <3>1. Trimming(l)' = Trimming(l) /\ log'[l] = log[l]
      BY <1>0, <1>3, <2>1, <2>2, TrimTrims DEF Trimming
    <3> QED
      BY <1>0, <3>1
  <2>3. CASE l = room[a]
    <3>1. log'[l] = Latest(log[l], Keep)
      BY <1>0, <2>1, <2>3
    <3>2. Len(log'[l]) <= Keep
      BY <1>0, <3>1, LatestIs, Parties
    <3>3. Len(log'[l]) \in Nat
      BY <1>0, <3>1, LatestIs, Parties
    <3> QED
      BY <1>1, <3>2, <3>3, Parties
  <2> QED
    BY <2>2, <2>3
<1>4. CASE ~ \E a \in Actors : Push(a) \/ Trim(a)
  <2>1. SameTrimming
    BY <1>4, TrimmingMoves
  <2>2. Trimming(l)' = Trimming(l)
    BY <2>1 DEF SameTrimming, Trimming
  <2>3. log'[l] = log[l] \/ log'[l] = <<>>
    BY <1>0, <1>4, LogMoves DEF DeleteHistory
  <2>4. Len(<<>>) = 0
    OBVIOUS
  <2> QED
    BY <1>0, <2>2, <2>3, <2>4, Parties
<1> QED
  BY <1>2, <1>3, <1>4

-----------------------------------------------------------------------------
(* The invariant. *)

RoomsInv ==
  /\ TypeOK /\ Placed /\ Registered /\ RegistryAgrees
  /\ NoticeComes /\ ToldBeforeEvicted
  /\ Pushed /\ ListBounded

\* The initial state has its types
LEMMA InitTypes == Init => TypeOK
<1> SUFFICES ASSUME Init PROVE TypeOK
  OBVIOUS
<1> USE Parties
<1>1. /\ owner \in [Groups -> Users \cup {None}] /\ members \subseteq Groups \X Users
      /\ clients \subseteq Conns /\ online \in Nat /\ cut \subseteq Conns
      /\ owed \subseteq Conns \X Groups
  BY DEF Init
<1>2. log \in [Lists -> Seq(Sent)] /\ tasks \in [Workers -> Seq(Tasks)] /\ live \in [Conns -> Seq(Sent)]
  BY DEF Init
<1>3. /\ joined \in [Conns -> SUBSET Rooms] /\ got \in [Conns -> SUBSET Sent]
      /\ roster \in [Workers -> [Rooms -> SUBSET Conns]]
  BY DEF Init
<1>4. pc \in [Actors -> Labels] /\ room \in [Actors -> Lists]
  <2>1. "http" \in Labels /\ "idle" \in Labels
    BY DEF Labels
  <2>2. \A a \in Actors : (IF a \in Conns THEN "http" ELSE "idle") \in Labels
    BY <2>1
  <2>3. General \in Lists
    OBVIOUS
  <2> QED
    BY <2>2, <2>3 DEF Init
<1>5. /\ sends \in [Actors -> Nat] /\ \A a \in Actors : sends[a] <= MaxSend[a]
      /\ loads \in [Conns -> [Rooms -> Nat]]
      /\ moves \in [Conns -> Nat] /\ \A c \in Conns : moves[c] <= MaxMove[c]
  BY DEF Init
<1> QED
  BY <1>1, <1>2, <1>3, <1>4, <1>5 DEF TypeOK

\* and the rest of the invariant.
LEMMA InitRooms == Init => RoomsInv
<1> SUFFICES ASSUME Init PROVE RoomsInv
  OBVIOUS
<1>1. TypeOK
  BY InitTypes
<1>2. \A a \in Actors : /\ pc[a] = (IF a \in Conns THEN "http" ELSE "idle")
                        /\ room[a] = General
  BY DEF Init
<1>3. Placed
  BY <1>2, Parties DEF Placed, ConnLabels, RequestLabels, GroupLabels, Sending
<1>4. IsFiniteSet({}) /\ Cardinality({}) = 0
  BY FS_EmptySet
<1>5. Registered
  BY <1>4 DEF Init, Registered
<1>6. RegistryAgrees
  <2>1. \A w \in Workers, r \in Rooms : roster[w][r] = {}
    BY DEF Init
  <2> QED
    BY <1>4, <2>1 DEF Init, RegistryAgrees
<1>7. NoticeComes /\ ToldBeforeEvicted
  BY DEF Init, NoticeComes, ToldBeforeEvicted
<1>8. Pushed
  <2>1. \A l \in Lists : Trimming(l) = {}
    BY <1>2 DEF Trimming
  <2> QED
    BY <1>4, <2>1 DEF Pushed
<1>9. ListBounded
  <2> SUFFICES ASSUME NEW l \in Lists
               PROVE  Len(log[l]) <= Keep + Cardinality(Trimming(l))
    BY DEF ListBounded, Trimming
  <2>1. Trimming(l) = {}
    BY <1>2 DEF Trimming
  <2>2. Cardinality(Trimming(l)) = 0
    BY <1>4, <2>1
  <2>3. Len(log[l]) = 0
    BY DEF Init
  <2> QED
    BY <2>2, <2>3, Parties
<1> QED
  BY <1>1, <1>3, <1>5, <1>6, <1>7, <1>8, <1>9 DEF RoomsInv

\* Every step keeps the invariant.
LEMMA NextRooms == RoomsInv /\ [Next]_vars => RoomsInv'
<1> SUFFICES ASSUME RoomsInv, [Next]_vars PROVE RoomsInv'
  OBVIOUS
<1> USE DEF RoomsInv
<1>1. TypeOK' /\ Placed' /\ Registered' /\ RegistryAgrees'
  BY TypesStep, PlacedStep, RegisteredStep, RegistryStep
<1>2. NoticeComes' /\ ToldBeforeEvicted'
  BY NoticeStep, ToldStep
<1>3. Pushed' /\ ListBounded'
  BY PushedStep, BoundedStep
<1> QED
  BY <1>1, <1>2, <1>3

\* It holds throughout.
LEMMA RoomsInvariant == Spec => []RoomsInv
BY InitRooms, NextRooms, PTL DEF Spec

-----------------------------------------------------------------------------
(* What the rooms guarantee. *)

\* The tables, the lists, the registry, the queues and the coroutines keep their
\* types, and g_online_count never goes below zero.
THEOREM RoomsTyped == Spec => []TypeOK
<1>1. RoomsInv => TypeOK
  BY DEF RoomsInv
<1> QED
  BY <1>1, RoomsInvariant, PTL

\* However clients join, leave, are dropped by a failing write and are evicted on
\* several Workers, the two directions of the registry and its counter agree.
THEOREM RegistryAlwaysAgrees == Spec => []RegistryAgrees
<1>1. RoomsInv => RegistryAgrees
  BY DEF RoomsInv
<1> QED
  BY <1>1, RoomsInvariant, PTL

\* A list never outgrows its limit by more than the messages whose LTRIM is
\* still to come, however many senders push at once.
THEOREM ListsStayBounded == Spec => []ListBounded
<1>1. RoomsInv => ListBounded
  BY DEF RoomsInv
<1> QED
  BY <1>1, RoomsInvariant, PTL

\* Nobody is put out of a deleted room before the notice of its deletion.
THEOREM NobodyEvictedUntold == Spec => []ToldBeforeEvicted
<1>1. RoomsInv => ToldBeforeEvicted
  BY DEF RoomsInv
<1> QED
  BY <1>1, RoomsInvariant, PTL
=============================================================================
