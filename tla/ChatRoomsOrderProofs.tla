------------------------ MODULE ChatRoomsOrderProofs ------------------------
(* Theorems about the messages of ChatRooms: the order in which a client     *)
(* gets them, and that none falls between its history and what is broadcast  *)
(* to it.                                                                    *)
EXTENDS ChatRoomsProofs

-----------------------------------------------------------------------------
(* Invariants. *)

\* The messages of a sender reach the clients of its own Worker directly and the
\* others through their Worker's queue, in order, and are all older than the one
\* it works on.
Underway(w, i) == i \in DOMAIN tasks[w] /\ tasks[w][i].type = "message"

Numbered(m) ==
  /\ m.nth <= sends[m.by]
  /\ pc[m.by] \in Sending => m.nth < sends[m.by]

Framed(w) ==
  \A i \in DOMAIN tasks[w] :
    Underway(w, i) => /\ tasks[w][i].room = tasks[w][i].message.to
                      /\ Numbered(tasks[w][i].message)
                      /\ HomeOf[tasks[w][i].message.by] # w

Queued(w) ==
  \A i, j \in DOMAIN tasks[w] :
    /\ Underway(w, i) /\ Underway(w, j) /\ i < j
    /\ tasks[w][i].message.by = tasks[w][j].message.by
    => tasks[w][i].message.nth < tasks[w][j].message.nth

Received(c) ==
  /\ \A i \in DOMAIN live[c] : Numbered(live[c][i])
  /\ \A i \in DOMAIN live[c], j \in DOMAIN tasks[HomeOf[c]] :
       Underway(HomeOf[c], j) /\ live[c][i].by = tasks[HomeOf[c]][j].message.by
         => live[c][i].nth < tasks[HomeOf[c]][j].message.nth
  /\ \A i, j \in DOMAIN live[c] :
       i < j /\ live[c][i].by = live[c][j].by => live[c][i].nth < live[c][j].nth

Ordered ==
  /\ \A w \in Workers : Framed(w) /\ Queued(w)
  /\ \A c \in Conns : Received(c)

\* A list has the messages that are sent to it.
Filed == \A l \in Lists : \A i \in DOMAIN log[l] : log[l][i].to = l /\ (l # Rest => log[l][i].by \in Conns)

-----------------------------------------------------------------------------
(* Facts. *)

\* A message is one of an actor's, for a list.
LEMMA SentIs ==
  ASSUME NEW m \in Sent
  PROVE  m.by \in Actors /\ m.nth \in Nat /\ m.to \in Lists
BY Parties DEF Sent

\* An appended element is the last.
LEMMA Appended ==
  ASSUME NEW S, NEW s \in Seq(S), NEW m \in S
  PROVE  \A i \in DOMAIN Append(s, m) :
           \/ i \in DOMAIN s /\ Append(s, m)[i] = s[i] /\ i < Len(s) + 1
           \/ i = Len(s) + 1 /\ Append(s, m)[i] = m
OBVIOUS

\* What is among the last n.
LEMMA LatestSet ==
  ASSUME NEW S, NEW s \in Seq(S), NEW n \in Nat \ {0}, NEW x
  PROVE  x \in ToSet(Latest(s, n)) <=> \E i \in 1 .. Len(s) : i > Len(s) - n /\ x = s[i]
<1> DEFINE t == Latest(s, n)
<1>1. /\ t \in Seq(S) /\ Len(t) = IF Len(s) > n THEN n ELSE Len(s)
      /\ \A i \in 1 .. Len(t) : t[i] = s[i + Len(s) - Len(t)]
  BY LatestIs
<1> HIDE DEF t
<1>2. DOMAIN t = 1 .. Len(t) /\ Len(t) \in Nat /\ Len(s) \in Nat
  BY <1>1
<1>3. ASSUME x \in ToSet(t) PROVE \E i \in 1 .. Len(s) : i > Len(s) - n /\ x = s[i]
  <2>1. PICK i \in 1 .. Len(t) : x = t[i]
    BY <1>2, <1>3 DEF ToSet
  <2>2. Len(t) <= n /\ Len(t) <= Len(s)
    BY <1>1, <1>2
  <2>3. i + Len(s) - Len(t) \in 1 .. Len(s) /\ i + Len(s) - Len(t) > Len(s) - n
    BY <1>2, <2>2
  <2> QED
    BY <1>1, <2>1, <2>3
<1>4. ASSUME NEW i \in 1 .. Len(s), i > Len(s) - n, x = s[i] PROVE x \in ToSet(t)
  <2>1. i - (Len(s) - Len(t)) \in 1 .. Len(t)
    BY <1>1, <1>2, <1>4
  <2>2. (i - (Len(s) - Len(t))) + Len(s) - Len(t) = i
    BY <1>2
  <2>3. t[i - (Len(s) - Len(t))] = s[i]
    BY <1>1, <2>1, <2>2
  <2> QED
    BY <1>2, <1>4, <2>1, <2>3 DEF ToSet
<1> QED
  BY <1>3, <1>4 DEF t

\* One more message brings only itself among the latest,
LEMMA LatestAppend ==
  ASSUME NEW S, NEW s \in Seq(S), NEW m \in S, NEW n \in Nat \ {0}
  PROVE  ToSet(Latest(Append(s, m), n)) \subseteq ToSet(Latest(s, n)) \cup {m}
<1>1. Append(s, m) \in Seq(S) /\ Len(Append(s, m)) = Len(s) + 1 /\ Len(s) \in Nat
  OBVIOUS
<1> SUFFICES ASSUME NEW x \in ToSet(Latest(Append(s, m), n)), x # m PROVE x \in ToSet(Latest(s, n))
  OBVIOUS
<1>2. PICK i \in 1 .. Len(s) + 1 : i > Len(s) + 1 - n /\ x = Append(s, m)[i]
  <2>1. \E i \in 1 .. Len(Append(s, m)) : i > Len(Append(s, m)) - n /\ x = Append(s, m)[i]
    BY ZenonT(40), <1>1, LatestSet
  <2> QED
    BY <1>1, <2>1
<1>3. i \in 1 .. Len(s) /\ x = s[i] /\ i > Len(s) - n
  <2>1. i # Len(s) + 1
    BY <1>2
  <2>2. \A j \in 1 .. Len(s) : Append(s, m)[j] = s[j]
    OBVIOUS
  <2> QED
    BY <1>1, <1>2, <2>1, <2>2
<1> QED
  BY <1>3, LatestSet

\* and cutting the list brings none.
LEMMA LatestLatest ==
  ASSUME NEW S, NEW s \in Seq(S), NEW k \in Nat \ {0}, NEW n \in 1 .. k
  PROVE  ToSet(Latest(Latest(s, k), n)) \subseteq ToSet(Latest(s, n))
<1>1. PICK t \in Seq(S) : /\ t = Latest(s, k) /\ Len(t) = IF Len(s) > k THEN k ELSE Len(s)
                          /\ \A i \in 1 .. Len(t) : t[i] = s[i + Len(s) - Len(t)]
  BY LatestIs
<1> SUFFICES ASSUME NEW x \in ToSet(Latest(t, n)) PROVE x \in ToSet(Latest(s, n))
  BY <1>1
<1>2. PICK i \in 1 .. Len(t) : i > Len(t) - n /\ x = t[i]
  BY LatestSet
<1>a. Len(t) \in Nat /\ Len(s) \in Nat /\ Len(t) <= Len(s)
  BY <1>1
<1>3. i + Len(s) - Len(t) \in 1 .. Len(s) /\ i + Len(s) - Len(t) > Len(s) - n
  BY <1>2, <1>a
<1>4. x = s[i + Len(s) - Len(t)]
  BY <1>1, <1>2
<1> QED
  BY <1>3, <1>4, LatestSet

-----------------------------------------------------------------------------
(* The order of the messages. *)

\* An actor begins to send a message with the next number.
Counting ==
  \A b \in Actors : \/ sends'[b] = sends[b] /\ (pc'[b] \in Sending => pc[b] \in Sending)
                    \/ sends'[b] = sends[b] + 1

\* Every step counts that way.
LEMMA SendingMoves ==
  ASSUME TypeOK, [Next]_vars
  PROVE  Counting
<1>0. pc \in [Actors -> Labels] /\ sends \in [Actors -> Nat]
  BY DEF TypeOK
<1> USE Parties DEF Counting, Sending
<1>1. ASSUME NEW c \in Conns, NEW r \in Rooms, Upgrade(c, r) PROVE Counting
  BY <1>0, <1>1 DEF Upgrade, Begin, Become
<1>2. ASSUME NEW c \in Conns, Admission(c) PROVE Counting
  BY <1>0, <1>2 DEF Admission, Finish, Begin, Become
<1>3. ASSUME NEW c \in Conns, Handshake(c) PROVE Counting
  BY <1>0, <1>3 DEF Handshake, Become
<1>4. ASSUME NEW c \in Conns, HandshakeFails(c) PROVE Counting
  BY <1>0, <1>4 DEF HandshakeFails, Finish, Begin, Become
<1>5. ASSUME NEW c \in Conns, NEW r \in Rooms, NEW n \in 0 .. Recent, History(c, r, n) PROVE Counting
  BY <1>0, <1>5 DEF History
<1>6. ASSUME NEW c \in Conns, NEW r \in Rooms, JoinFrame(c, r) PROVE Counting
  BY <1>0, <1>6 DEF JoinFrame
<1>7. ASSUME NEW c \in Conns, NEW r \in Rooms, LeaveFrame(c, r) PROVE Counting
  BY <1>0, <1>7 DEF LeaveFrame
<1>8. ASSUME NEW c \in Conns, NEW r \in Rooms, SendFrame(c, r) PROVE Counting
  BY <1>0, <1>8 DEF SendFrame, Begin, Become
<1>9. ASSUME NEW c \in Conns, Membership(c) PROVE Counting
  BY <1>0, <1>9 DEF Membership, Become
<1>10. ASSUME NEW c \in Conns, NoMembership(c) PROVE Counting
  BY <1>0, <1>10 DEF NoMembership, Begin, Become
<1>11. ASSUME NEW c \in Conns, Close(c) PROVE Counting
  BY <1>0, <1>11 DEF Close, Finish, Begin, Become
<1>12. ASSUME NEW c \in Conns, Drop(c) PROVE Counting
  BY <1>0, <1>12 DEF Drop, coroutine
<1>13. ASSUME NEW a \in Actors, Push(a) PROVE Counting
  BY <1>0, <1>13 DEF Push, Become
<1>14. ASSUME NEW a \in Actors, Trim(a) PROVE Counting
  BY <1>0, <1>14 DEF Trim, Finish, Begin, Become
<1>15. ASSUME NEW c \in Conns, Cast(c) PROVE Counting
  BY <1>0, <1>15 DEF Cast, Begin, Become
<1>16. ASSUME NEW w \in Workers, RunBroadcast(w) PROVE Counting
  BY <1>0, <1>16 DEF RunBroadcast, coroutine
<1>17. ASSUME NEW w \in Workers, RunEvict(w) PROVE Counting
  BY <1>0, <1>17 DEF RunEvict, coroutine
<1>18. ASSUME NEW q \in Requests, NEW g \in Groups, NEW label \in Routes, Request(q, g, label) PROVE Counting
  BY <1>0, <1>18 DEF Request, Routes, Begin, Become
<1>19. ASSUME NEW q \in Requests, RestSend(q) PROVE Counting
  BY <1>0, <1>19 DEF RestSend, Begin, Become
<1>20. ASSUME NEW q \in Requests, InsertRoom(q) PROVE Counting
  BY <1>0, <1>20 DEF InsertRoom, Finish, Begin, Become
<1>21. ASSUME NEW q \in Requests, FindRoom(q) PROVE Counting
  BY <1>0, <1>21 DEF FindRoom, Finish, Begin, Become
<1>22. ASSUME NEW q \in Requests, InsertMember(q) PROVE Counting
  BY <1>0, <1>22 DEF InsertMember, Finish, Begin, Become
<1>23. ASSUME NEW q \in Requests, DeleteMember(q) PROVE Counting
  BY <1>0, <1>23 DEF DeleteMember, Finish, Begin, Become
<1>24. ASSUME NEW q \in Requests, FindOwner(q) PROVE Counting
  BY <1>0, <1>24 DEF FindOwner, Finish, Begin, Become
<1>25. ASSUME NEW q \in Requests, DeleteMembers(q) PROVE Counting
  BY <1>0, <1>25 DEF DeleteMembers, Finish, Begin, Become
<1>26. ASSUME NEW q \in Requests, DeleteRoom(q) PROVE Counting
  BY <1>0, <1>26 DEF DeleteRoom, Finish, Begin, Become
<1>27. ASSUME NEW q \in Requests, DeleteHistory(q) PROVE Counting
  BY <1>0, <1>27 DEF DeleteHistory, Finish, Begin, Become
<1>28. ASSUME NEW q \in Requests, Announce(q) PROVE Counting
  BY <1>0, <1>28 DEF Announce, Finish, Begin, Become
<1>29. CASE UNCHANGED vars
  BY <1>29 DEF vars, coroutine
<1> QED
  BY <1>1, <1>2, <1>3, <1>4, <1>5, <1>6, <1>7, <1>8, <1>9, <1>10, <1>11, <1>12, <1>13,
     <1>14, <1>15, <1>16, <1>17, <1>18, <1>19, <1>20, <1>21, <1>22, <1>23, <1>24, <1>25,
     <1>26, <1>27, <1>28, <1>29
  DEF Next, Environment, ActorStep, ConnStep, RequestStep, HistoryStep, WorkerStep

\* A message that is older than the one its sender works on stays so.
LEMMA NumberedStep ==
  ASSUME TypeOK, [Next]_vars, NEW m \in Sent, Numbered(m)
  PROVE  Numbered(m)'
<1>1. m.by \in Actors /\ m.nth \in Nat
  BY SentIs
<1>2. sends[m.by] \in Nat
  BY <1>1 DEF TypeOK
<1>3. \/ sends'[m.by] = sends[m.by] /\ (pc'[m.by] \in Sending => pc[m.by] \in Sending)
      \/ sends'[m.by] = sends[m.by] + 1
  BY <1>1, SendingMoves DEF Counting
<1> QED
  BY <1>1, <1>2, <1>3 DEF Numbered

\* A Worker's roster holds clients of that Worker.
LEMMA AtHome ==
  ASSUME TypeOK, RegistryAgrees, NEW w \in Workers, NEW r \in Rooms, NEW d \in roster[w][r]
  PROVE  d \in Conns /\ d \in clients /\ HomeOf[d] = w /\ r \in joined[d]
<1>1. RegistryTyped
  BY DEF TypeOK, RegistryTyped
<1> QED
  BY <1>1, RosterPointwise DEF RegistryTyped, Rostered

\* A broadcast appends its message to what a client receives, or nothing.
LEMMA DeliverLive ==
  ASSUME TypeOK, RegistryAgrees, NEW w \in Workers, NEW f \in Tasks, NEW gone, Deliver(w, f, gone),
         NEW d \in Conns
  PROVE  \/ live'[d] = live[d]
         \/ HomeOf[d] = w /\ f.type = "message" /\ live'[d] = Append(live[d], f.message)
<1>1. f.room \in Rooms
  BY Parties DEF Tasks
<1>2. CASE f.type = "message"
  <2>1. live' = [c \in Conns |-> IF c \in roster[w][f.room] \ gone THEN Append(live[c], f.message) ELSE live[c]]
    BY <1>2 DEF Deliver
  <2> QED
    BY <1>1, <1>2, <2>1, AtHome
<1>3. CASE f.type # "message"
  BY <1>3 DEF Deliver
<1> QED
  BY <1>2, <1>3

\* The frame of the message a connection broadcasts.
LEMMA CastFrame ==
  ASSUME TypeOK, Placed, NEW c \in Conns, pc[c] = "cast"
  PROVE  /\ Message(c) \in Sent /\ Message(c).to \in Rooms /\ Message(c).by = c
         /\ Message(c).nth = sends[c]
         /\ Frame(Message(c)) \in Tasks
         /\ Frame(Message(c)).type = "message" /\ Frame(Message(c)).message = Message(c)
         /\ Frame(Message(c)).room = Message(c).to
<1>1. Message(c) \in Sent /\ Message(c).to \in Rooms /\ Message(c).by = c /\ Message(c).nth = sends[c]
  BY Parties, MessageTyped DEF Sending, Placed
<1> QED
  BY <1>1, FrameTyped DEF Frame

\* What one step does to the queue of a Worker and to what its clients receive.
Quiet(w) == \A d \in Conns : HomeOf[d] = w => live'[d] = live[d]

Noticed(w) ==
  /\ \E g \in Groups : tasks'[w] = tasks[w] \o <<Notice(g), Evict(g)>>
  /\ Quiet(w)

Enqueued(w) ==
  /\ \E c \in Conns : /\ pc[c] = "cast" /\ pc'[c] = "loop" /\ HomeOf[c] # w
                      /\ tasks'[w] = tasks[w] \o <<Frame(Message(c))>>
  /\ Quiet(w)

CastAt(w) ==
  /\ tasks'[w] = tasks[w]
  /\ \E c \in Conns : /\ pc[c] = "cast" /\ pc'[c] = "loop" /\ HomeOf[c] = w
                      /\ \A d \in Conns : HomeOf[d] = w =>
                           live'[d] = live[d] \/ live'[d] = Append(live[d], Message(c))

Ran(w) ==
  /\ tasks[w] # <<>> /\ tasks'[w] = Tail(tasks[w])
  /\ \A d \in Conns : HomeOf[d] = w =>
       \/ live'[d] = live[d]
       \/ Head(tasks[w]).type = "message" /\ live'[d] = Append(live[d], Head(tasks[w]).message)

\* One of these it is, in every step.
LEMMA WorkerMoves ==
  ASSUME TypeOK, Placed, RegistryAgrees, [Next]_vars, NEW w \in Workers
  PROVE  (tasks'[w] = tasks[w] /\ Quiet(w)) \/ Noticed(w) \/ Enqueued(w) \/ CastAt(w) \/ Ran(w)
<1>0. tasks \in [Workers -> Seq(Tasks)]
  BY DEF TypeOK
<1>1. ASSUME NEW c \in Conns, Cast(c) PROVE (tasks'[w] = tasks[w] /\ Quiet(w)) \/ Enqueued(w) \/ CastAt(w)
  <2>1. PICK gone : Deliver(HomeOf[c], Frame(Message(c)), gone)
    BY <1>1 DEF Cast
  <2>2. pc[c] = "cast" /\ pc'[c] = "loop" /\ Switch(HomeOf[c], <<Frame(Message(c))>>)
    BY <1>1, Parties DEF Cast, Begin, Become, TypeOK
  <2>3. \A d \in Conns : \/ live'[d] = live[d]
                         \/ HomeOf[d] = HomeOf[c] /\ live'[d] = Append(live[d], Message(c))
    BY <2>1, <2>2, CastFrame, Parties, DeliverLive
  <2>4. CASE w = HomeOf[c]
    BY <1>0, <2>2, <2>3, <2>4 DEF Switch, CastAt
  <2>5. CASE w # HomeOf[c]
    BY <1>0, <2>2, <2>3, <2>5 DEF Switch, Enqueued, Quiet
  <2> QED
    BY <2>4, <2>5
<1>2. ASSUME NEW v \in Workers, RunBroadcast(v) PROVE (tasks'[w] = tasks[w] /\ Quiet(w)) \/ Ran(w)
  <2>1. tasks[v] # <<>> /\ tasks' = [tasks EXCEPT ![v] = Tail(@)]
    BY <1>2 DEF RunBroadcast
  <2>2. PICK gone : Deliver(v, Head(tasks[v]), gone)
    BY <1>2 DEF RunBroadcast
  <2>3. \A d \in Conns :
          \/ live'[d] = live[d]
          \/ /\ HomeOf[d] = v /\ Head(tasks[v]).type = "message"
             /\ live'[d] = Append(live[d], Head(tasks[v]).message)
    BY <2>1, <2>2, HeadRoom, DeliverLive
  <2>4. CASE w = v
    BY <1>0, <2>1, <2>3, <2>4 DEF Ran
  <2>5. CASE w # v
    BY <1>0, <2>1, <2>3, <2>5 DEF Quiet
  <2> QED
    BY <2>4, <2>5
<1>3. ASSUME NEW v \in Workers, RunEvict(v) PROVE (tasks'[w] = tasks[w] /\ Quiet(w)) \/ Ran(w)
  <2>1. tasks[v] # <<>> /\ tasks' = [tasks EXCEPT ![v] = Tail(@)] /\ live' = live
    BY <1>3 DEF RunEvict, seen
  <2> QED
    BY <1>0, <2>1 DEF Ran, Quiet
<1>4. ASSUME NEW q \in Requests, Announce(q) PROVE (tasks'[w] = tasks[w] /\ Quiet(w)) \/ Noticed(w)
  <2>1. room[q] \in Groups
    BY <1>4 DEF Announce, Placed, GroupLabels
  <2>2. Switch(HomeOf[q], <<Notice(room[q]), Evict(room[q])>>) /\ live' = live
    BY <1>4 DEF Announce, seen
  <2> QED
    BY <1>0, <2>1, <2>2 DEF Switch, Noticed, Quiet
<1>5. CASE UNCHANGED tasks /\ ((\E c \in Conns, r \in Rooms, n \in 0 .. Recent : History(c, r, n)) \/ UNCHANGED seen)
  BY <1>5 DEF Quiet, History, seen
<1> QED
  BY <1>1, <1>2, <1>3, <1>4, <1>5, QueueMoves, SeenMoves

\* What is in a queue,
LEMMA QueueElements ==
  ASSUME TypeOK, NEW w \in Workers, NEW i \in DOMAIN tasks[w]
  PROVE  /\ tasks[w] \in Seq(Tasks) /\ DOMAIN tasks[w] = 1 .. Len(tasks[w])
         /\ tasks[w][i] \in Tasks
         /\ tasks[w][i].type = "message" => tasks[w][i].message \in Sent
<1>1. tasks[w] \in Seq(Tasks)
  BY DEF TypeOK
<1>2. tasks[w][i] \in Tasks
  BY <1>1
<1> QED
  BY <1>1, <1>2 DEF Tasks

\* and in what a client has received.
LEMMA LiveElements ==
  ASSUME TypeOK, NEW d \in Conns, NEW i \in DOMAIN live[d]
  PROVE  live[d] \in Seq(Sent) /\ live[d][i] \in Sent /\ DOMAIN live[d] = 1 .. Len(live[d])
BY DEF TypeOK

\* The same as NumberedStep, written out.
LEMMA StillNumbered ==
  ASSUME TypeOK, [Next]_vars, NEW m \in Sent, Numbered(m)
  PROVE  m.nth <= sends'[m.by] /\ (pc'[m.by] \in Sending => m.nth < sends'[m.by])
BY NumberedStep DEF Numbered

\* A sender that has broadcast works on no message.
LEMMA CastNumbered ==
  ASSUME TypeOK, [Next]_vars, NEW c \in Conns, pc[c] = "cast", pc'[c] = "loop"
  PROVE  sends[c] <= sends'[c] /\ pc'[c] \notin Sending
<1>1. c \in Actors /\ sends[c] \in Nat
  BY Parties DEF TypeOK
<1> QED
  BY <1>1, SendingMoves DEF Counting, Sending

\* What is appended to a queue follows what is in it.
LEMMA FramedStep ==
  ASSUME TypeOK, Placed, RegistryAgrees, Ordered, [Next]_vars, NEW w \in Workers
  PROVE  Framed(w)' /\ Queued(w)'
<1>0. Framed(w) /\ Queued(w) /\ tasks[w] \in Seq(Tasks)
  BY DEF Ordered, TypeOK
<1>1. ASSUME NEW i \in DOMAIN tasks[w], tasks[w][i].type = "message"
      PROVE  /\ tasks[w][i].room = tasks[w][i].message.to
             /\ tasks[w][i].message.nth <= sends'[tasks[w][i].message.by]
             /\ pc'[tasks[w][i].message.by] \in Sending => tasks[w][i].message.nth < sends'[tasks[w][i].message.by]
             /\ HomeOf[tasks[w][i].message.by] # w
  <2>1. tasks[w][i].message \in Sent /\ Numbered(tasks[w][i].message)
    BY <1>0, <1>1, QueueElements DEF Framed, Underway
  <2> QED
    BY <1>0, <1>1, <2>1, StillNumbered DEF Framed, Underway
<1>2. CASE tasks'[w] = tasks[w]
  BY <1>0, <1>1, <1>2 DEF Framed, Queued, Underway, Numbered
<1>3. CASE Noticed(w)
  <2>1. PICK g \in Groups : tasks'[w] = tasks[w] \o <<Notice(g), Evict(g)>>
    BY <1>3 DEF Noticed
  <2>2. <<Notice(g), Evict(g)>> \in Seq(Tasks) /\ DOMAIN <<Notice(g), Evict(g)>> = 1 .. 2
    BY NoticeTyped
  <2>3. \A i \in DOMAIN tasks'[w] : tasks'[w][i].type = "message" =>
          i \in DOMAIN tasks[w] /\ tasks'[w][i] = tasks[w][i]
    BY <1>0, <2>1, <2>2, Before, After DEF Notice, Evict
  <2> QED
    BY <1>0, <1>1, <2>3 DEF Framed, Queued, Underway, Numbered
<1>4. CASE Enqueued(w)
  <2>1. PICK c \in Conns : /\ pc[c] = "cast" /\ pc'[c] = "loop" /\ HomeOf[c] # w
                           /\ tasks'[w] = tasks[w] \o <<Frame(Message(c))>>
    BY <1>4 DEF Enqueued
  <2>2. <<Frame(Message(c))>> \in Seq(Tasks) /\ DOMAIN <<Frame(Message(c))>> = 1 .. 1
    BY <2>1, CastFrame
  <2>3. \A i \in DOMAIN tasks'[w] :
          \/ i \in DOMAIN tasks[w] /\ tasks'[w][i] = tasks[w][i] /\ i < Len(tasks[w]) + 1
          \/ i = Len(tasks[w]) + 1 /\ tasks'[w][i] = Frame(Message(c))
    BY <1>0, <2>1, <2>2, Before, After
  <2>4. PICK f \in Tasks : /\ f = Frame(Message(c)) /\ f.type = "message" /\ f.message.by = c
                           /\ f.message.nth = sends[c] /\ f.room = f.message.to
    BY <2>1, CastFrame
  <2>5. Framed(w)'
    BY <1>1, <2>1, <2>3, <2>4, CastNumbered DEF Framed, Underway, Numbered
  <2>6. \A i \in DOMAIN tasks[w] : Underway(w, i) /\ tasks[w][i].message.by = c => tasks[w][i].message.nth < sends[c]
    BY <1>0, <2>1 DEF Framed, Numbered, Sending
  <2>7. Queued(w)'
    BY <1>0, <2>3, <2>4, <2>6 DEF Queued, Underway
  <2> QED
    BY <2>5, <2>7
<1>5. CASE Ran(w)
  <2>1. tasks[w] # <<>> /\ tasks'[w] = Tail(tasks[w])
    BY <1>5 DEF Ran
  <2>2. \A i \in DOMAIN tasks'[w] : i + 1 \in DOMAIN tasks[w] /\ tasks'[w][i] = tasks[w][i + 1]
    BY <1>0, <2>1, Shifted
  <2>3. DOMAIN tasks'[w] \subseteq Nat
    BY <1>0, <2>1
  <2>4. Framed(w)'
    BY <1>1, <2>2 DEF Framed, Underway, Numbered
  <2>5. ASSUME NEW i \in DOMAIN tasks'[w], NEW j \in DOMAIN tasks'[w], i < j,
               tasks'[w][i].type = "message", tasks'[w][j].type = "message",
               tasks'[w][i].message.by = tasks'[w][j].message.by
        PROVE  tasks'[w][i].message.nth < tasks'[w][j].message.nth
    <3>1. i + 1 < j + 1
      BY <2>3, <2>5
    <3>2. i + 1 \in DOMAIN tasks[w] /\ j + 1 \in DOMAIN tasks[w]
            /\ tasks'[w][i] = tasks[w][i + 1] /\ tasks'[w][j] = tasks[w][j + 1]
      BY <2>2
    <3> QED
      BY <1>0, <2>5, <3>1, <3>2 DEF Queued, Underway
  <2>6. Queued(w)'
    BY <2>5 DEF Queued, Underway
  <2> QED
    BY <2>4, <2>6
<1> QED
  BY <1>2, <1>3, <1>4, <1>5, WorkerMoves DEF CastAt

\* What a client receives follows what it has received, and what waits for it in
\* its Worker's queue follows that.
LEMMA ReceivedStep ==
  ASSUME TypeOK, Placed, RegistryAgrees, Ordered, [Next]_vars, NEW d \in Conns
  PROVE  Received(d)'
<1>0. PICK w \in Workers : w = HomeOf[d]
  BY Parties
<1>1. /\ Framed(w) /\ Queued(w) /\ Received(d)
      /\ tasks[w] \in Seq(Tasks) /\ live[d] \in Seq(Sent)
  BY DEF Ordered, TypeOK
<1>2. ASSUME NEW i \in DOMAIN live[d]
      PROVE  /\ live[d][i].nth <= sends'[live[d][i].by]
             /\ pc'[live[d][i].by] \in Sending => live[d][i].nth < sends'[live[d][i].by]
  BY <1>1, LiveElements, StillNumbered DEF Received
<1>a. ASSUME tasks'[w] = tasks[w] \/ (tasks[w] # <<>> /\ tasks'[w] = Tail(tasks[w]))
      PROVE  \A j \in DOMAIN tasks'[w] : \E k \in DOMAIN tasks[w] : tasks'[w][j] = tasks[w][k]
  <2>1. CASE tasks'[w] = tasks[w]
    BY <2>1
  <2>2. CASE tasks[w] # <<>> /\ tasks'[w] = Tail(tasks[w])
    <3>1. \A j \in DOMAIN tasks'[w] : j + 1 \in DOMAIN tasks[w] /\ tasks'[w][j] = tasks[w][j + 1]
      BY <1>1, <2>2, Shifted
    <3> QED
      BY <3>1
  <2> QED
    BY <1>a, <2>1, <2>2
<1>b. DOMAIN live[d] = 1 .. Len(live[d]) /\ Len(live[d]) \in Nat
  BY <1>1
<1>3. ASSUME tasks'[w] = tasks[w] \/ (tasks[w] # <<>> /\ tasks'[w] = Tail(tasks[w])), live'[d] = live[d]
      PROVE  Received(d)'
  <2>1. \A j \in DOMAIN tasks'[w] : \E k \in DOMAIN tasks[w] : tasks'[w][j] = tasks[w][k]
    BY <1>3, <1>a
  <2>2. \A i \in DOMAIN live[d], j \in DOMAIN tasks'[w] :
          tasks'[w][j].type = "message" /\ live[d][i].by = tasks'[w][j].message.by
            => live[d][i].nth < tasks'[w][j].message.nth
    <3>1. \A i \in DOMAIN live[d], k \in DOMAIN tasks[w] :
            tasks[w][k].type = "message" /\ live[d][i].by = tasks[w][k].message.by
              => live[d][i].nth < tasks[w][k].message.nth
      BY <1>0, <1>1 DEF Received, Underway
    <3> QED
      BY <2>1, <3>1
  <2> QED
    BY <1>0, <1>1, <1>2, <1>3, <2>2 DEF Received, Underway, Numbered
<1>4. ASSUME NEW m \in Sent, live'[d] = Append(live[d], m),
             m.nth <= sends'[m.by], pc'[m.by] \in Sending => m.nth < sends'[m.by],
             \A i \in DOMAIN live[d] : live[d][i].by = m.by => live[d][i].nth < m.nth,
             \A j \in DOMAIN tasks'[w] : tasks'[w][j].type = "message" /\ tasks'[w][j].message.by = m.by
               => m.nth < tasks'[w][j].message.nth,
             tasks'[w] = tasks[w] \/ (tasks[w] # <<>> /\ tasks'[w] = Tail(tasks[w]))
      PROVE  Received(d)'
  <2>1. \A i \in DOMAIN live'[d] : \/ i \in DOMAIN live[d] /\ live'[d][i] = live[d][i] /\ i < Len(live[d]) + 1
                                   \/ i = Len(live[d]) + 1 /\ live'[d][i] = m
    BY <1>1, <1>4, Appended
  <2>2. \A j \in DOMAIN tasks'[w] : \E k \in DOMAIN tasks[w] : tasks'[w][j] = tasks[w][k]
    BY <1>4, <1>a
  <2>3. \A i \in DOMAIN live[d], j \in DOMAIN tasks'[w] :
          tasks'[w][j].type = "message" /\ live[d][i].by = tasks'[w][j].message.by
            => live[d][i].nth < tasks'[w][j].message.nth
    <3>1. \A i \in DOMAIN live[d], k \in DOMAIN tasks[w] :
            tasks[w][k].type = "message" /\ live[d][i].by = tasks[w][k].message.by
              => live[d][i].nth < tasks[w][k].message.nth
      BY <1>0, <1>1 DEF Received, Underway
    <3> QED
      BY <2>2, <3>1
  <2>4. \A i \in DOMAIN live'[d] : /\ live'[d][i].nth <= sends'[live'[d][i].by]
                                   /\ pc'[live'[d][i].by] \in Sending => live'[d][i].nth < sends'[live'[d][i].by]
    BY <1>2, <1>4, <2>1
  <2>5. \A i \in DOMAIN live'[d], j \in DOMAIN tasks'[w] :
          tasks'[w][j].type = "message" /\ live'[d][i].by = tasks'[w][j].message.by
            => live'[d][i].nth < tasks'[w][j].message.nth
    BY <1>4, <2>1, <2>3
  <2>6. \A i, j \in DOMAIN live'[d] :
          i < j /\ live'[d][i].by = live'[d][j].by => live'[d][i].nth < live'[d][j].nth
    <3>1. \A i, j \in DOMAIN live[d] :
            i < j /\ live[d][i].by = live[d][j].by => live[d][i].nth < live[d][j].nth
      BY <1>1 DEF Received
    <3>2. DOMAIN live'[d] = 1 .. Len(live[d]) + 1
      BY <1>1, <1>4
    <3> QED
      BY <1>4, <1>b, <2>1, <3>1, <3>2
  <2> QED
    BY <1>0, <2>4, <2>5, <2>6 DEF Received, Underway, Numbered
<1>5. CASE tasks'[w] = tasks[w] /\ Quiet(w)
  BY <1>0, <1>3, <1>5 DEF Quiet
<1>6. CASE Noticed(w)
  <2>1. PICK g \in Groups : tasks'[w] = tasks[w] \o <<Notice(g), Evict(g)>>
    BY <1>6 DEF Noticed
  <2>2. <<Notice(g), Evict(g)>> \in Seq(Tasks) /\ DOMAIN <<Notice(g), Evict(g)>> = 1 .. 2
    BY NoticeTyped
  <2>3. \A i \in DOMAIN tasks'[w] : tasks'[w][i].type = "message" =>
          i \in DOMAIN tasks[w] /\ tasks'[w][i] = tasks[w][i]
    BY <1>1, <2>1, <2>2, Before, After DEF Notice, Evict
  <2>4. live'[d] = live[d]
    BY <1>0, <1>6 DEF Noticed, Quiet
  <2> QED
    BY <1>0, <1>1, <1>2, <2>3, <2>4 DEF Received, Underway, Numbered
<1>7. CASE Enqueued(w)
  <2>1. PICK c \in Conns : pc[c] = "cast" /\ tasks'[w] = tasks[w] \o <<Frame(Message(c))>>
    BY <1>7 DEF Enqueued
  <2>2. <<Frame(Message(c))>> \in Seq(Tasks) /\ DOMAIN <<Frame(Message(c))>> = 1 .. 1
    BY <2>1, CastFrame
  <2>3. \A i \in DOMAIN tasks'[w] :
          \/ i \in DOMAIN tasks[w] /\ tasks'[w][i] = tasks[w][i]
          \/ tasks'[w][i] = Frame(Message(c))
    BY <1>1, <2>1, <2>2, Before, After
  <2>4. PICK f \in Tasks : /\ f = Frame(Message(c)) /\ f.type = "message" /\ f.message.by = c
                           /\ f.message.nth = sends[c]
    BY <2>1, CastFrame
  <2>5. live'[d] = live[d]
    BY <1>0, <1>7 DEF Enqueued, Quiet
  <2>6. \A i \in DOMAIN live[d] : live[d][i].by = c => live[d][i].nth < sends[c]
    BY <1>1, <2>1 DEF Received, Numbered, Sending
  <2>7. \A i \in DOMAIN live[d], j \in DOMAIN tasks'[w] :
          tasks'[w][j].type = "message" /\ live[d][i].by = tasks'[w][j].message.by
            => live[d][i].nth < tasks'[w][j].message.nth
    <3>1. \A i \in DOMAIN live[d], k \in DOMAIN tasks[w] :
            tasks[w][k].type = "message" /\ live[d][i].by = tasks[w][k].message.by
              => live[d][i].nth < tasks[w][k].message.nth
      BY <1>0, <1>1 DEF Received, Underway
    <3> QED
      BY <2>3, <2>4, <2>6, <3>1
  <2> QED
    BY <1>0, <1>1, <1>2, <2>5, <2>7 DEF Received, Underway, Numbered
<1>8. CASE CastAt(w)
  <2>1. PICK c \in Conns : /\ pc[c] = "cast" /\ pc'[c] = "loop" /\ HomeOf[c] = w
                           /\ live'[d] = live[d] \/ live'[d] = Append(live[d], Message(c))
    BY <1>0, <1>8 DEF CastAt
  <2>2. tasks'[w] = tasks[w]
    BY <1>8 DEF CastAt
  <2>3. CASE live'[d] = live[d]
    BY <1>3, <2>2, <2>3
  <2>4. CASE live'[d] = Append(live[d], Message(c))
    <3>1. PICK m \in Sent : m = Message(c) /\ m.by = c /\ m.nth = sends[c]
      BY <2>1, CastFrame
    <3>2. m.nth <= sends'[m.by] /\ pc'[m.by] \notin Sending
      BY <2>1, <3>1, CastNumbered
    <3>3. \A i \in DOMAIN live[d] : live[d][i].by = m.by => live[d][i].nth < m.nth
      BY <1>1, <2>1, <3>1 DEF Received, Numbered, Sending
    <3>4. \A j \in DOMAIN tasks'[w] : tasks'[w][j].type = "message" => tasks'[w][j].message.by # m.by
      BY <1>1, <2>1, <2>2, <3>1 DEF Framed, Underway
    <3> QED
      BY <1>4, <2>2, <2>4, <3>1, <3>2, <3>3, <3>4
  <2> QED
    BY <2>1, <2>3, <2>4
<1>9. CASE Ran(w)
  <2>1. tasks[w] # <<>> /\ tasks'[w] = Tail(tasks[w])
    BY <1>9 DEF Ran
  <2>2. CASE live'[d] = live[d]
    BY <1>3, <2>1, <2>2
  <2>3. CASE Head(tasks[w]).type = "message" /\ live'[d] = Append(live[d], Head(tasks[w]).message)
    <3>1. 1 \in DOMAIN tasks[w] /\ Head(tasks[w]) = tasks[w][1]
      BY <1>1, <2>1, Shifted
    <3>2. PICK m \in Sent : m = Head(tasks[w]).message
      BY <2>3, <3>1, QueueElements
    <3>3. Numbered(m)
      BY <1>1, <2>3, <3>1, <3>2 DEF Framed, Underway
    <3>4. \A i \in DOMAIN live[d] : live[d][i].by = m.by => live[d][i].nth < m.nth
      BY <1>0, <1>1, <2>3, <3>1, <3>2 DEF Received, Underway
    <3>5. \A j \in DOMAIN tasks'[w] : j + 1 \in DOMAIN tasks[w] /\ tasks'[w][j] = tasks[w][j + 1] /\ 1 < j + 1
      BY <1>1, <2>1, Shifted
    <3>6. \A j \in DOMAIN tasks'[w] : tasks'[w][j].type = "message" /\ tasks'[w][j].message.by = m.by
               => m.nth < tasks'[w][j].message.nth
      BY <1>1, <2>3, <3>1, <3>2, <3>5 DEF Queued, Underway
    <3>7. m.nth <= sends'[m.by] /\ (pc'[m.by] \in Sending => m.nth < sends'[m.by])
      BY <3>3, StillNumbered
    <3> QED
      BY <1>4, <2>1, <2>3, <3>2, <3>4, <3>6, <3>7
  <2> QED
    BY <1>0, <1>9, <2>2, <2>3 DEF Ran
<1> QED
  BY <1>5, <1>6, <1>7, <1>8, <1>9, WorkerMoves

\* Every step keeps the messages in order.
LEMMA OrderedStep ==
  ASSUME TypeOK, Placed, RegistryAgrees, Ordered, [Next]_vars
  PROVE  Ordered'
<1>1. \A w \in Workers : Framed(w)' /\ Queued(w)'
  BY FramedStep
<1>2. \A d \in Conns : Received(d)'
  BY ReceivedStep
<1> QED
  BY <1>1, <1>2 DEF Ordered

-----------------------------------------------------------------------------
(* Where a message is between its list and its room. *)

\* A list has messages that were sent to it.
LEMMA FiledStep ==
  ASSUME TypeOK, Placed, Filed, [Next]_vars
  PROVE  Filed'
<1>0. log \in [Lists -> Seq(Sent)]
  BY DEF TypeOK
<1> SUFFICES ASSUME NEW l \in Lists, NEW i \in DOMAIN log'[l]
             PROVE  log'[l][i].to = l /\ (l # Rest => log'[l][i].by \in Conns)
  BY DEF Filed
<1>1. ASSUME NEW j \in DOMAIN log[l], log'[l][i] = log[l][j]
      PROVE  log'[l][i].to = l /\ (l # Rest => log'[l][i].by \in Conns)
  BY <1>1 DEF Filed
<1>2. CASE UNCHANGED log
  BY <1>1, <1>2
<1>3. ASSUME NEW a \in Actors, Push(a)
      PROVE  log'[l][i].to = l /\ (l # Rest => log'[l][i].by \in Conns)
  <2>1. log' = [log EXCEPT ![room[a]] = Append(@, Message(a))] /\ pc[a] = "push"
    BY <1>3 DEF Push
  <2>2. Message(a) \in Sent /\ Message(a).to = room[a] /\ Message(a).by = a
    BY <2>1, MessageTyped DEF Sending
  <2>3. CASE room[a] # l
    BY <1>0, <1>1, <2>1, <2>3
  <2>4. CASE room[a] = l
    <3>1. log'[l] = Append(log[l], Message(a)) /\ log[l] \in Seq(Sent)
      BY <1>0, <2>1, <2>4
    <3>2. (i \in DOMAIN log[l] /\ log'[l][i] = log[l][i]) \/ log'[l][i] = Message(a)
      BY <2>2, <3>1, Appended
    <3>3. l # Rest => a \in Conns
      BY <2>1, <2>4, Parties DEF Placed
    <3> QED
      BY <1>1, <2>2, <2>4, <3>2, <3>3
  <2> QED
    BY <2>3, <2>4
<1>4. ASSUME NEW a \in Actors, Trim(a)
      PROVE  log'[l][i].to = l /\ (l # Rest => log'[l][i].by \in Conns)
  <2>1. log' = [log EXCEPT ![room[a]] = Latest(@, Keep)]
    BY <1>4 DEF Trim
  <2>2. CASE room[a] # l
    BY <1>0, <1>1, <2>1, <2>2
  <2>3. CASE room[a] = l
    <3>1. log'[l] = Latest(log[l], Keep) /\ log[l] \in Seq(Sent)
      BY <1>0, <2>1, <2>3
    <3>2. log'[l][i] \in ToSet(Latest(log[l], Keep))
      BY <3>1 DEF ToSet
    <3>3. PICK j \in 1 .. Len(log[l]) : log'[l][i] = log[l][j]
      BY <3>1, <3>2, LatestSet, Parties
    <3>4. j \in DOMAIN log[l]
      BY <3>1
    <3> QED
      BY <1>1, <3>3, <3>4
  <2> QED
    BY <2>2, <2>3
<1>5. ASSUME NEW q \in Requests, DeleteHistory(q)
      PROVE  log'[l][i].to = l /\ (l # Rest => log'[l][i].by \in Conns)
  <2>1. log' = [log EXCEPT ![room[q]] = <<>>]
    BY <1>5 DEF DeleteHistory
  <2>2. log'[l] = log[l] \/ log'[l] = <<>>
    BY <1>0, <2>1
  <2>3. DOMAIN <<>> = {}
    OBVIOUS
  <2> QED
    BY <1>1, <2>2, <2>3
<1> QED
  BY <1>2, <1>3, <1>4, <1>5, LogMoves

\* A message whose broadcast has not begun stays so until its sender casts it.
Holding ==
  \A b \in Actors : pc[b] \in {"trim", "cast"} =>
    \/ b \in Conns /\ Cast(b)
    \/ b \in Requests
    \/ pc'[b] \in {"trim", "cast"} /\ sends'[b] = sends[b] /\ room'[b] = room[b]

\* Every step leaves it so.
LEMMA HoldingMoves ==
  ASSUME TypeOK, [Next]_vars
  PROVE  Holding
<1>0. pc \in [Actors -> Labels] /\ sends \in [Actors -> Nat] /\ room \in [Actors -> Lists]
  BY DEF TypeOK
<1> USE Parties DEF Holding
<1>1. ASSUME NEW c \in Conns, NEW r \in Rooms, Upgrade(c, r) PROVE Holding
  BY <1>0, <1>1 DEF Upgrade, Begin, Become
<1>2. ASSUME NEW c \in Conns, Admission(c) PROVE Holding
  BY <1>0, <1>2 DEF Admission, Finish, Begin, Become
<1>3. ASSUME NEW c \in Conns, Handshake(c) PROVE Holding
  BY <1>0, <1>3 DEF Handshake, Become
<1>4. ASSUME NEW c \in Conns, HandshakeFails(c) PROVE Holding
  BY <1>0, <1>4 DEF HandshakeFails, Finish, Begin, Become
<1>5. ASSUME NEW c \in Conns, NEW r \in Rooms, NEW n \in 0 .. Recent, History(c, r, n) PROVE Holding
  BY <1>0, <1>5 DEF History
<1>6. ASSUME NEW c \in Conns, NEW r \in Rooms, JoinFrame(c, r) PROVE Holding
  BY <1>0, <1>6 DEF JoinFrame
<1>7. ASSUME NEW c \in Conns, NEW r \in Rooms, LeaveFrame(c, r) PROVE Holding
  BY <1>0, <1>7 DEF LeaveFrame
<1>8. ASSUME NEW c \in Conns, NEW r \in Rooms, SendFrame(c, r) PROVE Holding
  BY <1>0, <1>8 DEF SendFrame, Begin, Become
<1>9. ASSUME NEW c \in Conns, Membership(c) PROVE Holding
  BY <1>0, <1>9 DEF Membership, Become
<1>10. ASSUME NEW c \in Conns, NoMembership(c) PROVE Holding
  BY <1>0, <1>10 DEF NoMembership, Begin, Become
<1>11. ASSUME NEW c \in Conns, Close(c) PROVE Holding
  BY <1>0, <1>11 DEF Close, Finish, Begin, Become
<1>12. ASSUME NEW c \in Conns, Drop(c) PROVE Holding
  BY <1>0, <1>12 DEF Drop, coroutine
<1>13. ASSUME NEW a \in Actors, Push(a) PROVE Holding
  BY <1>0, <1>13 DEF Push, Become
<1>14. ASSUME NEW a \in Actors, Trim(a) PROVE Holding
  BY <1>0, <1>14 DEF Trim, Finish, Begin, Become
<1>15. ASSUME NEW c \in Conns, Cast(c) PROVE Holding
  BY <1>0, <1>15 DEF Cast, Begin, Become
<1>16. ASSUME NEW w \in Workers, RunBroadcast(w) PROVE Holding
  BY <1>0, <1>16 DEF RunBroadcast, coroutine
<1>17. ASSUME NEW w \in Workers, RunEvict(w) PROVE Holding
  BY <1>0, <1>17 DEF RunEvict, coroutine
<1>18. ASSUME NEW q \in Requests, NEW g \in Groups, NEW label \in Routes, Request(q, g, label) PROVE Holding
  BY <1>0, <1>18 DEF Request, Routes, Begin, Become
<1>19. ASSUME NEW q \in Requests, RestSend(q) PROVE Holding
  BY <1>0, <1>19 DEF RestSend, Begin, Become
<1>20. ASSUME NEW q \in Requests, InsertRoom(q) PROVE Holding
  BY <1>0, <1>20 DEF InsertRoom, Finish, Begin, Become
<1>21. ASSUME NEW q \in Requests, FindRoom(q) PROVE Holding
  BY <1>0, <1>21 DEF FindRoom, Finish, Begin, Become
<1>22. ASSUME NEW q \in Requests, InsertMember(q) PROVE Holding
  BY <1>0, <1>22 DEF InsertMember, Finish, Begin, Become
<1>23. ASSUME NEW q \in Requests, DeleteMember(q) PROVE Holding
  BY <1>0, <1>23 DEF DeleteMember, Finish, Begin, Become
<1>24. ASSUME NEW q \in Requests, FindOwner(q) PROVE Holding
  BY <1>0, <1>24 DEF FindOwner, Finish, Begin, Become
<1>25. ASSUME NEW q \in Requests, DeleteMembers(q) PROVE Holding
  BY <1>0, <1>25 DEF DeleteMembers, Finish, Begin, Become
<1>26. ASSUME NEW q \in Requests, DeleteRoom(q) PROVE Holding
  BY <1>0, <1>26 DEF DeleteRoom, Finish, Begin, Become
<1>27. ASSUME NEW q \in Requests, DeleteHistory(q) PROVE Holding
  BY <1>0, <1>27 DEF DeleteHistory, Finish, Begin, Become
<1>28. ASSUME NEW q \in Requests, Announce(q) PROVE Holding
  BY <1>0, <1>28 DEF Announce, Finish, Begin, Become
<1>29. CASE UNCHANGED vars
  BY <1>29 DEF vars, coroutine
<1> QED
  BY <1>1, <1>2, <1>3, <1>4, <1>5, <1>6, <1>7, <1>8, <1>9, <1>10, <1>11, <1>12, <1>13,
     <1>14, <1>15, <1>16, <1>17, <1>18, <1>19, <1>20, <1>21, <1>22, <1>23, <1>24, <1>25,
     <1>26, <1>27, <1>28, <1>29
  DEF Next, Environment, ActorStep, ConnStep, RequestStep, HistoryStep, WorkerStep

\* A broadcast reaches the room, but for those whose socket refuses it.
LEMMA DeliverGot ==
  ASSUME TypeOK, NEW w, NEW f \in Tasks, NEW gone, Deliver(w, f, gone), NEW d \in Conns
  PROVE  /\ got[d] \subseteq got'[d] /\ cut' = cut
         /\ f.type = "message" /\ d \in roster[w][f.room] /\ d \notin gone => f.message \in got'[d]
<1>1. CASE f.type = "message"
  BY <1>1 DEF Deliver
<1>2. CASE f.type # "message"
  BY <1>2 DEF Deliver
<1> QED
  BY <1>1, <1>2

\* What a browser has, it keeps.
LEMMA GotGrows ==
  ASSUME TypeOK, Placed, [Next]_vars, NEW d \in Conns
  PROVE  got[d] \subseteq got'[d] /\ cut \subseteq cut'
<1>1. CASE UNCHANGED seen
  BY <1>1 DEF seen
<1>2. ASSUME NEW c \in Conns, Cast(c) PROVE got[d] \subseteq got'[d] /\ cut \subseteq cut'
  <2>1. PICK gone : Deliver(HomeOf[c], Frame(Message(c)), gone)
    BY <1>2 DEF Cast
  <2> QED
    BY <1>2, <2>1, CastFrame, DeliverGot DEF Cast
<1>3. ASSUME NEW w \in Workers, RunBroadcast(w) PROVE got[d] \subseteq got'[d] /\ cut \subseteq cut'
  <2>1. PICK gone : Deliver(w, Head(tasks[w]), gone)
    BY <1>3 DEF RunBroadcast
  <2> QED
    BY <1>3, <2>1, HeadRoom, DeliverGot DEF RunBroadcast
<1>4. ASSUME NEW c \in Conns, NEW r \in Rooms, NEW n \in 0 .. Recent, History(c, r, n)
      PROVE  got[d] \subseteq got'[d] /\ cut \subseteq cut'
  <2>1. got \in [Conns -> SUBSET Sent]
    BY DEF TypeOK
  <2>2. PICK G : got' = [got EXCEPT ![c] = @ \cup G]
    BY <1>4 DEF History
  <2> QED
    BY <1>4, <2>1, <2>2 DEF History
<1> QED
  BY <1>1, <1>2, <1>3, <1>4, SeenMoves

\* A history comes in when LRANGE is answered.
LEMMA LoadsMoves ==
  ASSUME TypeOK, Placed, [Next]_vars, NEW c \in Conns, NEW r \in Rooms, loads'[c][r] = 0
  PROVE  loads[c][r] = 0 \/ Close(c) \/ \E n \in 0 .. Recent : History(c, r, n)
<1>0. loads \in [Conns -> [Rooms -> Nat]]
  BY DEF TypeOK
<1>1. CASE UNCHANGED loads
  BY <1>1
<1>2. ASSUME NEW d \in Conns, NEW s \in Rooms, StartHistory(d, s) PROVE loads[c][r] = 0
  <2>1. loads' = [loads EXCEPT ![d][s] = @ + 1]
    BY <1>2 DEF StartHistory
  <2>2. loads'[c][r] = loads[c][r] \/ loads'[c][r] = loads[c][r] + 1
    BY <1>0, <2>1
  <2>3. loads[c][r] \in Nat
    BY <1>0
  <2> QED
    BY <2>2, <2>3
<1>3. ASSUME NEW d \in Conns, Handshake(d) PROVE \E s \in Rooms : StartHistory(d, s)
  BY <1>3 DEF Handshake, Placed
<1>4. ASSUME NEW d \in Conns, NEW s \in Rooms, JoinFrame(d, s) PROVE StartHistory(d, s)
  BY <1>4 DEF JoinFrame
<1>5. ASSUME NEW d \in Conns, Close(d) PROVE d = c \/ loads'[c][r] = loads[c][r]
  <2>1. loads' = [loads EXCEPT ![d] = [s \in Rooms |-> 0]]
    BY <1>5 DEF Close
  <2> QED
    BY <1>0, <2>1
<1>6. ASSUME NEW d \in Conns, NEW s \in Rooms, NEW n \in 0 .. Recent, History(d, s, n)
      PROVE  (d = c /\ s = r) \/ loads'[c][r] = loads[c][r]
  <2>1. loads' = [loads EXCEPT ![d][s] = @ - 1]
    BY <1>6 DEF History
  <2> QED
    BY <1>0, <2>1
<1>7. \/ UNCHANGED loads
      \/ \E d \in Conns : Handshake(d) \/ Close(d)
      \/ \E d \in Conns, s \in Rooms : JoinFrame(d, s) \/ HistoryStep(d, s)
  BY DEF Next, Environment, ActorStep, ConnStep, RequestStep, WorkerStep, vars, coroutine,
    Upgrade, Admission, HandshakeFails, LeaveFrame, SendFrame, Membership, NoMembership, Drop,
    Push, Trim, Cast, RunBroadcast, RunEvict, Request, RestSend, InsertRoom, FindRoom,
    InsertMember, DeleteMember, FindOwner, DeleteMembers, DeleteRoom, DeleteHistory, Announce
<1>8. ASSUME NEW d \in Conns, NEW s \in Rooms, HistoryStep(d, s)
      PROVE  loads[c][r] = 0 \/ \E n \in 0 .. Recent : History(c, r, n)
  BY <1>6, <1>8 DEF HistoryStep
<1> QED
  BY <1>1, <1>2, <1>3, <1>4, <1>5, <1>7, <1>8

\* Whoever comes into a room waits for its history.
LEMMA MemberMoves ==
  ASSUME TypeOK, Placed, [Next]_vars, NEW c \in Conns, NEW r \in Rooms, r \in joined'[c]
  PROVE  r \in joined[c] \/ loads'[c][r] > 0
<1>0. RegistryTyped /\ loads \in [Conns -> [Rooms -> Nat]]
  BY DEF TypeOK, RegistryTyped
<1>1. CASE UNCHANGED registry
  BY <1>1 DEF registry
<1>2. ASSUME NEW s \in Rooms, StartHistory(c, s) PROVE loads'[c][s] > 0
  <2>1. loads' = [loads EXCEPT ![c][s] = @ + 1] /\ loads[c][s] \in Nat
    BY <1>0, <1>2 DEF StartHistory
  <2>2. loads'[c][s] = loads[c][s] + 1
    BY <1>0, <2>1
  <2> QED
    BY <2>1, <2>2
<1>3. ASSUME NEW d \in Conns, Handshake(d) PROVE r \in joined[c] \/ loads'[c][r] > 0
  <2>1. r \in joined'[c] <=> (c # d /\ r \in joined[c]) \/ (c = d /\ r = room[d])
    BY <1>0, <1>3, HandshakeDoes
  <2>2. StartHistory(d, room[d])
    BY <1>3 DEF Handshake
  <2> QED
    BY <1>2, <2>1, <2>2
<1>4. ASSUME NEW d \in Conns, NEW s \in Rooms, JoinRoom(d, s), StartHistory(d, s)
      PROVE  r \in joined[c] \/ loads'[c][r] > 0
  <2>1. r \in joined[c] \/ (c = d /\ r = s)
    BY <1>0, <1>4, JoinRoomDoes
  <2> QED
    BY <1>2, <1>4, <2>1
<1>5. ASSUME NEW d \in Conns, NEW s \in Rooms, LeaveRoom(d, s) PROVE r \in joined[c]
  BY <1>0, <1>5, LeaveRoomDoes
<1>6. ASSUME NEW gone \in SUBSET Conns, Unregister(gone) PROVE r \in joined[c]
  BY <1>0, <1>6, UnregisterDoes
<1>7. ASSUME NEW w \in Workers, RunEvict(w) PROVE r \in joined[c]
  <2>1. PICK g \in Rooms : g = Head(tasks[w]).room
    BY <1>7, HeadRoom DEF RunEvict
  <2> QED
    BY <1>0, <1>7, <2>1, RunEvictDoes
<1>8. ASSUME NEW q \in Requests, Announce(q) PROVE r \in joined[c]
  BY <1>0, <1>8, AnnounceDoes
<1> QED
  BY <1>1, <1>3, <1>4, <1>5, <1>6, <1>7, <1>8, RegistryMoves

-----------------------------------------------------------------------------
(* No message falls in between. *)

\* The messages a history gives.
Stored(r) == ToSet(Latest(log[r], Recent))

\* A message that is newly among the latest waits for its cast.
LEMMA StoredMoves ==
  ASSUME TypeOK, Placed, [Next]_vars, NEW r \in Rooms, NEW m \in Stored(r)'
  PROVE  \/ m \in Stored(r)
         \/ pc'[m.by] = "trim" /\ Message(m.by)' = m
<1>0. r \in Lists /\ log \in [Lists -> Seq(Sent)] /\ log[r] \in Seq(Sent) /\ Recent \in Nat \ {0}
  BY Parties DEF TypeOK
<1>1. m \in ToSet(Latest(log'[r], Recent))
  BY DEF Stored
<1>2. CASE log'[r] = log[r]
  BY <1>1, <1>2 DEF Stored
<1>3. ASSUME NEW a \in Actors, Push(a), log'[r] # log[r]
      PROVE  m \in Stored(r) \/ (pc'[m.by] = "trim" /\ Message(m.by)' = m)
  <2>1. /\ log' = [log EXCEPT ![room[a]] = Append(@, Message(a))] /\ pc[a] = "push"
        /\ pc' = [pc EXCEPT ![a] = "trim"] /\ UNCHANGED <<room, sends>>
    BY <1>3 DEF Push, Become
  <2>2. Message(a) \in Sent /\ Message(a).by = a /\ Message(a)' = Message(a)
    BY <2>1, MessageTyped DEF Sending, Message
  <2>3. log'[r] = Append(log[r], Message(a))
    BY <1>0, <1>3, <2>1
  <2>4. m \in Stored(r) \/ m = Message(a)
    BY <1>0, <1>1, <2>2, <2>3, LatestAppend DEF Stored
  <2>5. pc'[a] = "trim"
    BY <2>1 DEF TypeOK
  <2> QED
    BY <2>2, <2>4, <2>5
<1>4. ASSUME NEW a \in Actors, Trim(a), log'[r] # log[r] PROVE m \in Stored(r)
  <2>1. log' = [log EXCEPT ![room[a]] = Latest(@, Keep)]
    BY <1>4 DEF Trim
  <2>2. log'[r] = Latest(log[r], Keep)
    BY <1>0, <1>4, <2>1
  <2> QED
    BY <1>0, <1>1, <2>2, LatestLatest, Parties DEF Stored
<1>5. ASSUME NEW q \in Requests, DeleteHistory(q), log'[r] # log[r] PROVE FALSE
  <2>1. log' = [log EXCEPT ![room[q]] = <<>>]
    BY <1>5 DEF DeleteHistory
  <2>2. log'[r] = <<>> /\ <<>> \in Seq(Sent) /\ Len(<<>>) = 0
    BY <1>0, <1>5, <2>1
  <2>3. \E i \in 1 .. 0 : TRUE
    BY <1>0, <1>1, <2>2, LatestSet
  <2> QED
    BY <2>3
<1> QED
  BY <1>2, <1>3, <1>4, <1>5, LogMoves

\* What is among the latest of a room was sent to it by a connection.
LEMMA StoredIs ==
  ASSUME TypeOK, Filed, NEW r \in Rooms, NEW m \in Stored(r)
  PROVE  m \in Sent /\ m.to = r /\ m.by \in Conns
<1>1. log[r] \in Seq(Sent) /\ r \in Lists /\ r # Rest
  BY Parties DEF TypeOK
<1>2. PICK i \in 1 .. Len(log[r]) : m = log[r][i]
  BY <1>1, LatestSet, Parties DEF Stored
<1>3. i \in DOMAIN log[r]
  BY <1>1
<1> QED
  BY <1>1, <1>2, <1>3 DEF Filed

\* The broadcast of a message reaches whoever is in its room.
LEMMA BroadcastReaches ==
  ASSUME TypeOK, Placed, RegistryAgrees, RegistryAgrees', RegistryTyped', Ordered, [Next]_vars,
         NEW c \in clients, c \in clients', NEW r \in Rooms, r \in joined[c],
         NEW m \in Sent, m.to = r, m.by \in Conns,
         ~ BroadcastOn(HomeOf[c], m), BroadcastOn(HomeOf[c], m)'
  PROVE  m \in got'[c]
<1>0. PICK w \in Workers : w = HomeOf[c]
  BY Parties DEF TypeOK
<1>1. /\ RegistryTyped /\ Rostered /\ c \in Conns /\ c \in roster[w][r]
      /\ tasks \in [Workers -> Seq(Tasks)] /\ Framed(w)
  <2>1. RegistryTyped
    BY DEF TypeOK, RegistryTyped
  <2> QED
    BY <1>0, <2>1, RosterPointwise DEF Rostered, RegistryTyped, TypeOK, Ordered
<1>2. CASE pc[m.by] \in {"trim", "cast"} /\ Message(m.by) = m
  <2>1. PICK a \in Conns : a = m.by
    OBVIOUS
  <2>2. Cast(a)
    <3>1. Cast(a) \/ (pc'[a] \in {"trim", "cast"} /\ sends'[a] = sends[a] /\ room'[a] = room[a])
      BY <1>2, <2>1, HoldingMoves, Parties DEF Holding
    <3>2. pc'[a] \in {"trim", "cast"} => Message(a)' # m
      BY <2>1 DEF BroadcastOn
    <3> QED
      BY <1>2, <2>1, <3>1, <3>2 DEF Message
  <2>3. /\ pc[a] = "cast" /\ Switch(HomeOf[a], <<Frame(m)>>)
        /\ \E gone : Deliver(HomeOf[a], Frame(m), gone) /\ Unregister(gone)
    BY <1>2, <2>1, <2>2 DEF Cast
  <2>4. Frame(m) \in Tasks /\ Frame(m).type = "message" /\ Frame(m).message = m /\ Frame(m).room = r
    BY <1>2, <2>1, <2>3, CastFrame
  <2>5. CASE HomeOf[a] = w
    <3>1. PICK gone : Deliver(w, Frame(m), gone) /\ Unregister(gone)
      BY <2>3, <2>5
    <3>2. c \notin gone
      BY <3>1 DEF Unregister
    <3> QED
      BY <1>1, <2>4, <3>1, <3>2, DeliverGot
  <2>6. CASE HomeOf[a] # w
    <3>1. tasks'[w] = tasks[w] \o <<Frame(m)>> /\ tasks[w] \in Seq(Tasks) /\ <<Frame(m)>> \in Seq(Tasks)
      BY <1>1, <2>3, <2>4, <2>6 DEF Switch
    <3>2. Len(tasks[w]) + 1 \in DOMAIN tasks'[w] /\ tasks'[w][Len(tasks[w]) + 1] = Frame(m)
      BY <3>1, After
    <3>3. ASSUME NEW j \in DOMAIN tasks'[w], tasks'[w][j].type = "message"
          PROVE  tasks'[w][j].message # m
      BY <1>0, <3>3 DEF BroadcastOn
    <3> QED
      BY <2>4, <3>2, <3>3
  <2> QED
    BY <2>5, <2>6
<1>3. ASSUME NEW i \in DOMAIN tasks[w], tasks[w][i].type = "message", tasks[w][i].message = m
      PROVE  m \in got'[c]
  <2>1. ASSUME NEW j \in DOMAIN tasks'[w] PROVE tasks'[w][j] # tasks[w][i]
    BY <1>0, <1>3 DEF BroadcastOn
  <2>2. ASSUME NEW t \in Seq(Tasks), tasks'[w] = tasks[w] \o t PROVE FALSE
    BY <1>1, <2>1, <2>2, Before
  <2>3. ASSUME NEW v \in Workers, NEW fs \in Seq(Tasks), Switch(v, fs) PROVE FALSE
    BY <1>1, <2>1, <2>2, <2>3 DEF Switch
  <2>4. ASSUME NEW d \in Conns, Cast(d) PROVE FALSE
    <3>1. pc[d] = "cast" /\ Switch(HomeOf[d], <<Frame(Message(d))>>)
      BY <2>4 DEF Cast
    <3>2. <<Frame(Message(d))>> \in Seq(Tasks)
      BY <3>1, CastFrame
    <3>3. HomeOf[d] \in Workers
      BY Parties
    <3> QED
      BY <2>3, <3>1, <3>2, <3>3
  <2>5. ASSUME NEW q \in Requests, Announce(q) PROVE FALSE
    <3>1. room[q] \in Groups /\ Switch(HomeOf[q], <<Notice(room[q]), Evict(room[q])>>)
      BY <2>5 DEF Announce, Placed, GroupLabels
    <3>2. <<Notice(room[q]), Evict(room[q])>> \in Seq(Tasks)
      BY <3>1, NoticeTyped
    <3> QED
      BY <2>3, <3>1, <3>2, Parties
  <2>6. ASSUME NEW v \in Workers, RunBroadcast(v) \/ RunEvict(v)
        PROVE  v = w /\ i = 1 /\ Head(tasks[w]) = tasks[w][i]
    <3>1. tasks[v] # <<>> /\ tasks' = [tasks EXCEPT ![v] = Tail(@)]
      BY <2>6 DEF RunBroadcast, RunEvict
    <3>2. v = w
      BY <1>1, <2>1, <3>1
    <3>3. tasks'[w] = Tail(tasks[w]) /\ tasks[w] \in Seq(Tasks) /\ tasks[w] # <<>>
      BY <1>1, <3>1, <3>2
    <3>4. i = 1 \/ (i - 1 \in DOMAIN tasks'[w] /\ tasks'[w][i - 1] = tasks[w][i])
      BY <3>3, Shifted
    <3>5. Head(tasks[w]) = tasks[w][1]
      BY <3>3, Shifted
    <3> QED
      BY <2>1, <3>2, <3>4, <3>5
  <2>7. ASSUME NEW v \in Workers, RunEvict(v) PROVE FALSE
    BY <1>3, <2>6, <2>7 DEF RunEvict
  <2>8. ASSUME NEW v \in Workers, RunBroadcast(v) PROVE m \in got'[c]
    <3>1. v = w /\ Head(tasks[w]) = tasks[w][i] /\ tasks[w] # <<>>
      BY <2>6, <2>8 DEF RunBroadcast
    <3>2. PICK gone : Deliver(w, tasks[w][i], gone) /\ Unregister(gone)
      BY <2>8, <3>1 DEF RunBroadcast
    <3>3. c \notin gone
      BY <3>2 DEF Unregister
    <3>4. tasks[w][i].room = r /\ tasks[w][i] \in Tasks
      BY <1>1, <1>3, QueueElements DEF Framed, Underway
    <3> QED
      BY <1>1, <1>3, <3>2, <3>3, <3>4, DeliverGot
  <2>9. CASE UNCHANGED tasks
    BY <2>1, <2>9
  <2> QED
    BY <2>4, <2>5, <2>7, <2>8, <2>9, QueueMoves
<1> QED
  BY <1>0, <1>2, <1>3 DEF BroadcastOn

\* Every step keeps the messages from falling between history and broadcast.
LEMMA GapStep ==
  ASSUME TypeOK, Placed, RegistryAgrees, RegistryAgrees', Ordered, Filed, NoGap, [Next]_vars
  PROVE  NoGap'
<1> SUFFICES ASSUME NEW c \in clients', c \notin cut', NEW r \in joined'[c], loads'[c][r] = 0,
                    NEW m \in ToSet(Latest(log'[r], Recent)), BroadcastOn(HomeOf[c], m)'
             PROVE  m \in got'[c]
  BY DEF NoGap
<1>1. RegistryTyped' /\ c \in Conns /\ r \in Rooms
  BY RegistryTypes DEF RegistryTyped
<1>2. c \notin cut /\ got[c] \subseteq got'[c]
  BY <1>1, GotGrows
<1>3. r \in joined[c] /\ c \in clients
  <2>1. r \in joined[c]
    BY <1>1, MemberMoves
  <2> QED
    BY <1>1, <2>1 DEF RegistryAgrees
<1>4. m \in Stored(r)'
  BY DEF Stored
<1>5. m \in Stored(r)
  <2>1. pc'[m.by] = "trim" => Message(m.by)' # m
    BY DEF BroadcastOn
  <2> QED
    BY <1>1, <1>4, <2>1, StoredMoves
<1>6. m \in Sent /\ m.to = r /\ m.by \in Conns
  BY <1>1, <1>5, StoredIs
<1>7. CASE loads[c][r] = 0
  <2>1. CASE BroadcastOn(HomeOf[c], m)
    BY <1>2, <1>3, <1>5, <1>7, <2>1 DEF NoGap, Stored
  <2>2. CASE ~ BroadcastOn(HomeOf[c], m)
    BY <1>1, <1>3, <1>6, <2>2, BroadcastReaches
  <2> QED
    BY <2>1, <2>2
<1>8. ASSUME NEW n \in 0 .. Recent, History(c, r, n) PROVE m \in got'[c]
  <2>1. log[r] \in Seq(Sent) /\ got \in [Conns -> SUBSET Sent]
    BY <1>1, Parties DEF TypeOK
  <2>2. PICK reply \in Seq(Sent) : reply = Latest(log[r], Recent)
    BY <2>1, LatestIs, Parties
  <2>3. n \in 0 .. Len(reply) /\ cut' = IF n < Len(reply) THEN cut \cup {c} ELSE cut
    BY <1>8, <2>2 DEF History
  <2>4. n = Len(reply)
    BY <2>2, <2>3
  <2>5. SubSeq(reply, 1, n) = reply
    BY <2>4
  <2>6. got' = [got EXCEPT ![c] = @ \cup ToSet(reply)]
    BY <1>8, <2>2, <2>5 DEF History
  <2> QED
    BY <1>1, <1>5, <2>1, <2>2, <2>6 DEF Stored
<1>9. ~ Close(c)
  BY DEF Close, Unregister
<1> QED
  BY <1>1, <1>7, <1>8, <1>9, LoadsMoves

-----------------------------------------------------------------------------
(* The invariant. *)

MessagesInv == Ordered /\ Filed /\ NoGap

\* No message has been sent in the initial state.
LEMMA InitMessages == Init => MessagesInv
<1> SUFFICES ASSUME Init PROVE MessagesInv
  OBVIOUS
<1>1. \A w \in Workers : tasks[w] = <<>>
  BY DEF Init
<1>2. \A c \in Conns : live[c] = <<>> /\ HomeOf[c] \in Workers
  BY Parties DEF Init
<1>3. \A l \in Lists : log[l] = <<>>
  BY DEF Init
<1>4. \A w \in Workers : DOMAIN tasks[w] = {}
  BY <1>1
<1>5. \A c \in Conns : DOMAIN live[c] = {}
  BY <1>2
<1>6. \A l \in Lists : DOMAIN log[l] = {}
  BY <1>3
<1>7. \A w \in Workers : Framed(w) /\ Queued(w)
  BY <1>4 DEF Framed, Queued, Underway
<1>8. \A c \in Conns : Received(c)
  BY <1>5 DEF Received
<1>9. Filed
  BY <1>6 DEF Filed
<1>10. NoGap
  BY DEF Init, NoGap
<1> QED
  BY <1>7, <1>8, <1>9, <1>10 DEF MessagesInv, Ordered

\* Every step keeps them.
LEMMA NextMessages == RoomsInv /\ RoomsInv' /\ MessagesInv /\ [Next]_vars => MessagesInv'
BY OrderedStep, FiledStep, GapStep DEF RoomsInv, MessagesInv

\* They hold throughout.
LEMMA MessagesInvariant == Spec => []MessagesInv
BY InitMessages, NextMessages, RoomsInvariant, PTL DEF Spec

-----------------------------------------------------------------------------
(* What the messages' order guarantees. *)

\* Every client gets the messages of a sender in the order they were sent, none
\* twice, whichever Workers the two are on.
THEOREM SendersKeepTheirOrder == Spec => []SenderOrder
<1>1. MessagesInv => SenderOrder
  BY DEF MessagesInv, Ordered, Received, SenderOrder
<1> QED
  BY <1>1, MessagesInvariant, PTL

\* No message falls between the history a client asked for when it entered a room
\* and what is broadcast to it from then on.
THEOREM NoMessageFallsBetween == Spec => []NoGap
<1>1. MessagesInv => NoGap
  BY DEF MessagesInv
<1> QED
  BY <1>1, MessagesInvariant, PTL
=============================================================================
